--------------------------- MODULE Platform_proofs ---------------------------
(***************************************************************************)
(* Theorems about Platform: variables keep their range, a start always     *)
(* finds its files unless the rename of a staged one failed, nothing       *)
(* staged is left over at load, and a file that nobody writes any more     *)
(* holds what the natives said, unless bytes of it were lost without a     *)
(* word.                                                                   *)
(***************************************************************************)
EXTENDS Platform, TLAPS, SequenceTheorems

-----------------------------------------------------------------------------
\* The inductive invariant

\* Names of files that the VM looks for, or is about to find under such a
\* name: an unfinished rename leads there.
Kept(n) ==
  \/ n \in Staged
  \/ \E f \in Staged : n = StageOf[f]
  \/ pend # <<>> /\ n = pend[1] /\ pend[2] \notin Own

\* Nobody writes a file, and it is whole but for what was lost without a word.
Good(i) == Writers(i) = {} /\ (i \in lost \/ Len(data[i]) = ImageSize)

\* Two names never lead to one inode: there are no hard links.
Distinct == \A a, b \in Names : dir[a] = dir[b] /\ a # b => dir[a] = none

\* What is read has no buffer.
ReadersPlain == \A h \in Files : fp[h].mode = "r" => fp[h].buf = <<>>

KeptAreGood == \A n \in Names, i \in Inodes : Kept(n) /\ dir[n] = i => Good(i)

Pending ==
  /\ pc \in { "check", "remove", "rename" } => plat
  /\ pend # <<>> => /\ pc \in { "run", "exit" }
                    /\ pend[1] \in Own
                    /\ pend[2] \in Names \ Staged

\* A file is missing under its own name only while its stage takes its place.
Present ==
  ~failed =>
    /\ \A f \in Staged : dir[f] # none \/ dir[StageOf[f]] # none
    /\ pc \in { "load", "init", "run" } \/ ~plat => \A f \in Staged : dir[f] # none
    /\ pc \in { "check", "remove", "rename" } /\ file = app =>
         dir[scode] # none /\ dir[StageOf[scode]] = none
    /\ pc \in { "remove", "rename" } => dir[StageOf[file]] # none
    /\ StagedIsRun

\* What was said of an inode is what it holds once the buffer of its only
\* writer is written out.
SaidOf(i) ==
  /\ Writers(i) = {} => data[i] = told[i]
  /\ \A h \in Writers(i) :
       told[i] = Overlay(data[i], fp[h].pos - Len(fp[h].buf), fp[h].buf)
  /\ \A g, h \in Writers(i) : g = h

\* Inodes that may not hold what was said.
Unsure == doubted \union lost

Said == \A i \in Inodes \ Free : i \notin Unsure => SaidOf(i)

IInv ==
  /\ TypeOK
  /\ Distinct
  /\ ReadersPlain
  /\ KeptAreGood
  /\ Pending
  /\ Present
  /\ Said

-----------------------------------------------------------------------------
\* Names

\* No file is its own stage or another's, and the application owns neither.
LEMMA NameFacts ==
  /\ scode \in Staged /\ app \in Staged /\ scode # app
  /\ \A f \in Staged : /\ f \in Names /\ StageOf[f] \in Names /\ StageOf[f] \notin Staged
                       /\ f \notin Own /\ StageOf[f] \notin Own /\ FoldersOf[f] = {}
                       /\ f = scode \/ f = app
  /\ \A f, g \in Staged : StageOf[f] = StageOf[g] => f = g
  /\ Own \subseteq Names \ Staged
BY PlatformAssumption DEF PlatformAssumption, Staged, Own

\* A name outside Own is staged or the stage of such a file.
LEMMA NotOwn ==
  ASSUME NEW n \in Names \ Staged, n \notin Own
  PROVE  \E f \in Staged : n = StageOf[f]
BY DEF Own

-----------------------------------------------------------------------------
\* FILEs and inodes

FILE == [ ino : Inodes \union {none}, mode : {"r", "w", "m"}, pos : Nat, eof : BOOLEAN,
          buf : Seq(Bytes) ]

\* The part of TypeOK about files.
FileTypes ==
  /\ dir \in [Names -> Inodes \union {none}]
  /\ folders \subseteq UNION { FoldersOf[n] : n \in Names }
  /\ data \in [Inodes -> Seq(Bytes)]
  /\ fp \in [Files -> FILE]
  /\ \A h \in Files : Len(fp[h].buf) <= fp[h].pos
  /\ pend \in { <<>> } \union Names \X Names
  /\ told \in [Inodes -> Seq(Bytes)]
  /\ doubted \subseteq Inodes
  /\ lost \subseteq Inodes

ProcTypes ==
  /\ pc \in { "off", "check", "remove", "rename", "load", "init", "run", "exit" }
  /\ plat \in BOOLEAN
  /\ file \in Staged
  /\ size \in Nat
  /\ runs \in Nat
  /\ failed \in BOOLEAN

LEMMA Types == TypeOK <=> FileTypes /\ ProcTypes
BY DEF TypeOK, FileTypes, ProcTypes, FILE

\* What holds of files whatever the process is about.
FileInv == FileTypes /\ Distinct /\ ReadersPlain /\ Said

LEMMA NoneIsNoInode == none \notin Inodes
BY FileAssumption DEF FileAssumption

\* The fields of an open FILE.
LEMMA OpenFields ==
  ASSUME FileTypes, NEW h \in Open
  PROVE  /\ h \in Files /\ fp[h] \in FILE
         /\ fp[h].ino \in Inodes /\ fp[h].ino \notin Free
         /\ fp[h].mode \in {"r", "w", "m"}
         /\ fp[h].pos \in Nat /\ fp[h].buf \in Seq(Bytes) /\ Len(fp[h].buf) \in Nat
         /\ fp[h].pos - Len(fp[h].buf) \in Nat
<1>1. h \in Files /\ fp[h].ino # none
  BY DEF Open
<1>2. fp[h] \in FILE /\ Len(fp[h].buf) <= fp[h].pos
  BY <1>1 DEF FileTypes
<1>3. /\ fp[h].ino \in Inodes \union {none} /\ fp[h].mode \in {"r", "w", "m"}
      /\ fp[h].pos \in Nat /\ fp[h].buf \in Seq(Bytes)
  BY <1>2 DEF FILE
<1>4. fp[h].ino \notin Free
  BY <1>1 DEF Free
<1>5. Len(fp[h].buf) \in Nat
  BY <1>3
<1>6. fp[h].pos - Len(fp[h].buf) \in Nat
  BY <1>2, <1>3, <1>5
<1>7. QED
  BY <1>1, <1>2, <1>3, <1>4, <1>5, <1>6

-----------------------------------------------------------------------------
\* Overlay

LEMMA OverlayNothing ==
  ASSUME NEW s, NEW at
  PROVE  Overlay(s, at, <<>>) = s
BY DEF Overlay

LEMMA OverlayType ==
  ASSUME NEW s \in Seq(Bytes), NEW at \in Nat, NEW bs \in Seq(Bytes)
  PROVE  Overlay(s, at, bs) \in Seq(Bytes)
<1>1. CASE bs = <<>>
  BY <1>1 DEF Overlay
<1>2. CASE bs # <<>>
  <2> DEFINE n == IF at + Len(bs) > Len(s) THEN at + Len(bs) ELSE Len(s)
             F(k) == IF k - at \in 1 .. Len(bs) THEN bs[k - at]
                     ELSE IF k <= Len(s) THEN s[k] ELSE 0
  <2>1. Len(s) \in Nat /\ Len(bs) \in Nat
    OBVIOUS
  <2>2. n \in Nat
    BY <2>1
  <2>3. 0 \in Bytes
    BY DEF Bytes
  <2> HIDE DEF n
  <2>4. ASSUME NEW k \in 1 .. n
        PROVE  F(k) \in Bytes
    <3>1. CASE k - at \in 1 .. Len(bs)
      BY <3>1, ElementOfSeq
    <3>2. CASE ~ (k - at \in 1 .. Len(bs)) /\ k <= Len(s)
      <4>1. k \in 1 .. Len(s)
        BY <2>1, <2>2, <3>2
      <4>2. QED
        BY <3>2, <4>1, ElementOfSeq
    <3>3. CASE ~ (k - at \in 1 .. Len(bs)) /\ ~ (k <= Len(s))
      BY <2>3, <3>3
    <3>4. QED
      BY <3>1, <3>2, <3>3
  <2>5. Overlay(s, at, bs) = [k \in 1 .. n |-> F(k)]
    BY <1>2 DEF Overlay, n
  <2> HIDE DEF F
  <2>6. [k \in 1 .. n |-> F(k)] \in [1 .. n -> Bytes]
    BY <2>4
  <2>7. QED
    BY <2>2, <2>5, <2>6, SeqDef
<1>3. QED
  BY <1>1, <1>2

\* The length and the bytes of an overlay.
LEMMA OverlayAt ==
  ASSUME NEW s \in Seq(Bytes), NEW at \in Nat, NEW bs \in Seq(Bytes), bs # <<>>
  PROVE  LET n == IF at + Len(bs) > Len(s) THEN at + Len(bs) ELSE Len(s)
             o == Overlay(s, at, bs)
         IN  /\ Len(o) = n
             /\ o \in Seq(Bytes)
             /\ \A k \in 1 .. n :
                  o[k] = IF k - at \in 1 .. Len(bs) THEN bs[k - at]
                         ELSE IF k <= Len(s) THEN s[k] ELSE 0
<1> DEFINE n == IF at + Len(bs) > Len(s) THEN at + Len(bs) ELSE Len(s)
           o == Overlay(s, at, bs)
           F(k) == IF k - at \in 1 .. Len(bs) THEN bs[k - at]
                   ELSE IF k <= Len(s) THEN s[k] ELSE 0
<1>1. n \in Nat
  OBVIOUS
<1>2. o \in Seq(Bytes)
  BY OverlayType
<1>3. o = [k \in 1 .. n |-> F(k)]
  BY DEF Overlay
<1> HIDE DEF n, o, F
<1>4. DOMAIN o = 1 .. n
  BY <1>3
<1>5. DOMAIN o = 1 .. Len(o) /\ Len(o) \in Nat
  BY <1>2
<1>6. Len(o) = n
  BY <1>1, <1>4, <1>5
<1>7. \A k \in 1 .. n : o[k] = F(k)
  BY <1>3
<1>8. QED
  BY <1>2, <1>6, <1>7 DEF n, o, F

\* Words written behind each other are as if written at once.
LEMMA OverlayAppended ==
  ASSUME NEW d \in Seq(Bytes), NEW a \in Nat, NEW u \in Seq(Bytes), NEW v \in Seq(Bytes)
  PROVE  Overlay(Overlay(d, a, u), a + Len(u), v) = Overlay(d, a, u \o v)
<1>0. /\ Len(d) \in Nat /\ Len(u) \in Nat /\ Len(v) \in Nat
      /\ u # <<>> => Len(u) > 0
      /\ v # <<>> => Len(v) > 0
  BY EmptySeq
<1>1. CASE u = <<>>
  <2>1. Overlay(d, a, u) = d /\ u \o v = v
    BY <1>1, OverlayNothing
  <2>2. a + Len(u) = a
    BY <1>1
  <2>3. QED
    BY <2>1, <2>2
<1>2. CASE v = <<>>
  <2>1. u \o v = u
    BY <1>2
  <2>2. QED
    BY <1>2, <2>1, OverlayNothing
<1>3. CASE u # <<>> /\ v # <<>>
  <2> DEFINE c == a + Len(u)
             e == Overlay(d, a, u)
             l == Overlay(e, c, v)
             w == u \o v
             r == Overlay(d, a, w)
             m == IF a + Len(u) > Len(d) THEN a + Len(u) ELSE Len(d)
             n == IF a + Len(u) + Len(v) > Len(d) THEN a + Len(u) + Len(v) ELSE Len(d)
  <2>1. /\ w \in Seq(Bytes) /\ Len(w) = Len(u) + Len(v)
        /\ \A k \in 1 .. Len(u) + Len(v) : w[k] = IF k <= Len(u) THEN u[k] ELSE v[k - Len(u)]
    BY ConcatProperties
  <2>2. w # <<>>
    BY <1>0, <1>3, <2>1
  <2>3. /\ Len(e) = m /\ e \in Seq(Bytes)
        /\ \A k \in 1 .. m : e[k] = IF k - a \in 1 .. Len(u) THEN u[k - a]
                                    ELSE IF k <= Len(d) THEN d[k] ELSE 0
    BY <1>3, OverlayAt
  <2>4. c \in Nat
    BY <1>0
  <2> HIDE DEF c, e, w
  <2>5. /\ Len(l) = IF c + Len(v) > Len(e) THEN c + Len(v) ELSE Len(e)
        /\ l \in Seq(Bytes)
        /\ \A k \in 1 .. Len(l) : l[k] = IF k - c \in 1 .. Len(v) THEN v[k - c]
                                         ELSE IF k <= Len(e) THEN e[k] ELSE 0
    BY <1>3, <2>3, <2>4, OverlayAt, SMTT(60)
  <2>6. /\ Len(r) = IF a + Len(w) > Len(d) THEN a + Len(w) ELSE Len(d)
        /\ r \in Seq(Bytes)
        /\ \A k \in 1 .. Len(r) : r[k] = IF k - a \in 1 .. Len(w) THEN w[k - a]
                                         ELSE IF k <= Len(d) THEN d[k] ELSE 0
    <3>1. w \in Seq(Bytes) /\ w # <<>>
      BY <2>1, <2>2
    <3>2. QED
      BY <3>1, OverlayAt
  <2> HIDE DEF l, r
  <2>7. Len(l) = n /\ Len(r) = n /\ m \in Nat /\ n \in Nat
    <3>1. Len(w) = Len(u) + Len(v) /\ Len(e) = m /\ m \in Nat /\ c = a + Len(u)
      BY <1>0, <2>1, <2>3 DEF c
    <3>2. /\ Len(l) = IF c + Len(v) > Len(e) THEN c + Len(v) ELSE Len(e)
          /\ Len(r) = IF a + Len(w) > Len(d) THEN a + Len(w) ELSE Len(d)
      BY <2>5, <2>6
    <3>3. Len(r) = n
      BY <1>0, <3>1, <3>2
    <3>4. Len(l) = n /\ n \in Nat
      BY <1>0, <3>1, <3>2
    <3>5. QED
      BY <3>1, <3>3, <3>4
  <2>8. ASSUME NEW k \in 1 .. n
        PROVE  l[k] = r[k]
    <3>1. CASE k - a \in 1 .. Len(u)
      <4>1. ~ (k - c \in 1 .. Len(v)) /\ k <= Len(e) /\ k \in 1 .. m
        BY <1>0, <2>3, <2>7, <3>1 DEF c
      <4>2. l[k] = u[k - a]
        BY <2>3, <2>5, <2>7, <3>1, <4>1
      <4>3. k - a \in 1 .. Len(w) /\ k - a <= Len(u) /\ k - a \in 1 .. Len(u) + Len(v)
        BY <1>0, <2>1, <3>1
      <4>4. r[k] = w[k - a]
        BY <2>6, <2>7, <4>3
      <4>5. QED
        BY <2>1, <4>2, <4>3, <4>4
    <3>2. CASE k - c \in 1 .. Len(v)
      <4>1. k - a \in 1 .. Len(w) /\ ~ (k - a <= Len(u)) /\ (k - a) - Len(u) = k - c
            /\ k - a \in 1 .. Len(u) + Len(v)
        BY <1>0, <2>1, <3>2 DEF c
      <4>2. r[k] = w[k - a]
        BY <2>6, <2>7, <4>1
      <4>3. w[k - a] = v[(k - a) - Len(u)]
        BY <2>1, <4>1
      <4>4. l[k] = v[k - c]
        BY <2>5, <2>7, <3>2
      <4>5. QED
        BY <4>1, <4>2, <4>3, <4>4
    <3>3. CASE ~ (k - a \in 1 .. Len(u)) /\ ~ (k - c \in 1 .. Len(v))
      <4>1. ~ (k - a \in 1 .. Len(w))
        BY <1>0, <2>1, <3>3 DEF c
      <4>2. r[k] = IF k <= Len(d) THEN d[k] ELSE 0
        BY <2>6, <2>7, <4>1
      <4>3. CASE k <= Len(e)
        <5>1. k \in 1 .. m
          BY <2>3, <2>7, <4>3
        <5>2. e[k] = IF k <= Len(d) THEN d[k] ELSE 0
          BY <2>3, <3>3, <5>1
        <5>3. QED
          BY <2>5, <2>7, <3>3, <4>2, <4>3, <5>2
      <4>4. CASE ~ (k <= Len(e))
        <5>1. ~ (k <= Len(d))
          BY <1>0, <2>3, <4>4
        <5>2. QED
          BY <2>5, <2>7, <3>3, <4>2, <4>4, <5>1
      <4>5. QED
        BY <4>3, <4>4
    <3>4. QED
      BY <3>1, <3>2, <3>3
  <2>9. l \in Seq(Bytes) /\ r \in Seq(Bytes) /\ Len(l) = Len(r)
        /\ \A k \in 1 .. Len(l) : l[k] = r[k]
    BY <2>5, <2>6, <2>7, <2>8
  <2>10. l = r
    BY <2>9, SeqEqual
  <2>11. QED
    BY <2>10 DEF l, r, e, c, w
<1>4. QED
  BY <1>1, <1>2, <1>3

-----------------------------------------------------------------------------
\* What a call does to a FILE that stays open

\* Outside S, an inode that nobody writes stays as it is, and unwritten.
Spared(S) ==
  \A i \in Inodes \ S :
    Writers(i) = {} => Writers(i)' = {} /\ data'[i] = data[i] /\ (i \in lost => i \in lost')

\* Inodes and modes of the FILEs are what Writers and Free look at.
LEMMA SameWriters ==
  ASSUME \A g \in Files : fp'[g].ino = fp[g].ino /\ fp'[g].mode = fp[g].mode, dir' = dir
  PROVE  Free' = Free /\ \A i \in Inodes : Writers(i)' = Writers(i)
BY DEF Free, Writers

\* What a call on FILE h makes of it (F), of its inode and of what was said.
Uses(h, F) ==
  /\ F \in FILE /\ Len(F.buf) <= F.pos
  /\ F.ino = fp[h].ino /\ F.mode = fp[h].mode
  /\ F.mode = "r" => F.buf = <<>>
  /\ fp' = [fp EXCEPT ![h] = F]
  /\ dir' = dir /\ pend' = pend /\ folders' = folders
  /\ data' \in [Inodes -> Seq(Bytes)] /\ told' \in [Inodes -> Seq(Bytes)]
  /\ doubted \subseteq doubted' /\ doubted' \subseteq Inodes
  /\ lost \subseteq lost' /\ lost' \subseteq Inodes
  /\ \A i \in Inodes : i # fp[h].ino => data'[i] = data[i] /\ told'[i] = told[i]

\* The inode of a FILE that is read stays as it is; behind one that is written
\* stands what was said before, if what was said now does.
Keeps(h, F) ==
  LET i == fp[h].ino
  IN  /\ F.mode = "r" => data'[i] = data[i] /\ (i \in Unsure' \/ told'[i] = told[i])
      /\ F.mode # "r" /\ i \notin Unsure'
           /\ told[i] = Overlay(data[i], fp[h].pos - Len(fp[h].buf), fp[h].buf)
         => told'[i] = Overlay(data'[i], F.pos - Len(F.buf), F.buf)

LEMMA Used ==
  ASSUME FileInv, NEW h \in Open, NEW F, Uses(h, F), Keeps(h, F)
  PROVE  FileInv' /\ Spared({})
<1>1. FileTypes /\ Distinct /\ ReadersPlain /\ Said
  BY DEF FileInv
<1> DEFINE j == fp[h].ino
<1>2. h \in Files /\ j \in Inodes /\ j \notin Free /\ fp \in [Files -> FILE]
  BY <1>1, OpenFields DEF FileTypes
<1>3. fp'[h] = F /\ \A g \in Files : g # h => fp'[g] = fp[g]
  BY <1>2 DEF Uses
<1>4. \A g \in Files : fp'[g].ino = fp[g].ino /\ fp'[g].mode = fp[g].mode
  BY <1>3 DEF Uses
<1>5. Free' = Free /\ \A i \in Inodes : Writers(i)' = Writers(i)
  BY <1>4, SameWriters DEF Uses
<1>6. FileTypes'
  <2>1. fp' \in [Files -> FILE]
    BY <1>2 DEF Uses
  <2>2. \A g \in Files : Len(fp'[g].buf) <= fp'[g].pos
    BY <1>1, <1>3 DEF Uses, FileTypes
  <2>3. QED
    BY <1>1, <2>1, <2>2 DEF Uses, FileTypes
<1>7. Distinct'
  BY <1>1 DEF Distinct, Uses
<1>8. ReadersPlain'
  BY <1>1, <1>3 DEF ReadersPlain, Uses
<1>9. Spared({})
  <2>1. ASSUME NEW i \in Inodes, Writers(i) = {}
        PROVE  data'[i] = data[i]
    <3>1. CASE i = j
      <4>1. fp[h].mode = "r"
        BY <1>2, <2>1, <3>1 DEF Writers
      <4>2. QED
        BY <3>1, <4>1 DEF Uses, Keeps
    <3>2. CASE i # j
      BY <3>2 DEF Uses
    <3>3. QED
      BY <3>1, <3>2
  <2>2. QED
    BY <1>5, <2>1 DEF Spared, Uses
<1>10. ASSUME NEW i \in Inodes \ Free', i \notin Unsure'
       PROVE  SaidOf(i)'
  <2>1. i \in Inodes \ Free /\ i \notin Unsure /\ Writers(i)' = Writers(i)
    BY <1>5, <1>10 DEF Uses, Unsure
  <2>2. /\ Writers(i) = {} => data[i] = told[i]
        /\ \A g \in Writers(i) : told[i] = Overlay(data[i], fp[g].pos - Len(fp[g].buf), fp[g].buf)
        /\ \A f, g \in Writers(i) : f = g
    BY <1>1, <2>1 DEF Said, SaidOf
  <2>3. CASE i # j
    <3>1. data'[i] = data[i] /\ told'[i] = told[i]
      BY <2>1, <2>3 DEF Uses
    <3>2. ASSUME NEW g \in Writers(i)
          PROVE  fp'[g] = fp[g]
      BY <1>3, <2>3 DEF Writers
    <3>3. QED
      BY <2>1, <2>2, <3>1, <3>2 DEF SaidOf
  <2>4. CASE i = j /\ F.mode = "r"
    <3>1. data'[i] = data[i] /\ told'[i] = told[i]
      BY <1>10, <2>4 DEF Keeps
    <3>2. ASSUME NEW g \in Writers(i)
          PROVE  fp'[g] = fp[g]
      BY <1>3, <2>4 DEF Writers, Uses
    <3>3. QED
      BY <2>1, <2>2, <3>1, <3>2 DEF SaidOf
  <2>5. CASE i = j /\ F.mode # "r"
    <3>1. h \in Writers(i)
      BY <1>2, <2>5 DEF Writers, Uses
    <3>2. told'[i] = Overlay(data'[i], F.pos - Len(F.buf), F.buf)
      BY <1>10, <2>2, <2>5, <3>1 DEF Keeps
    <3>3. ASSUME NEW g \in Writers(i)
          PROVE  told'[i] = Overlay(data'[i], fp'[g].pos - Len(fp'[g].buf), fp'[g].buf)
      <4>1. g = h
        BY <2>2, <3>1
      <4>2. QED
        BY <1>3, <3>2, <4>1
    <3>4. QED
      BY <2>1, <2>2, <3>1, <3>3 DEF SaidOf
  <2>6. QED
    BY <2>3, <2>4, <2>5
<1>11. QED
  BY <1>6, <1>7, <1>8, <1>9, <1>10 DEF FileInv, Said

\* A part of a FILE's buffer is written out.
LEMMA Parted ==
  ASSUME FileInv, NEW h \in Open, NEW n \in 0 .. Len(fp[h].buf), NEW d, d = Part(h, n)
  PROVE  LET i == fp[h].ino
         IN  /\ d \in [Inodes -> Seq(Bytes)]
             /\ \A k \in Inodes : k # i => d[k] = data[k]
             /\ d[i] = Overlay(data[i], fp[h].pos - Len(fp[h].buf), SubSeq(fp[h].buf, 1, n))
             /\ fp[h].mode = "r" => d[i] = data[i]
<1>1. FileTypes /\ ReadersPlain
  BY DEF FileInv
<1>2. /\ h \in Files /\ fp[h].ino \in Inodes /\ fp[h].buf \in Seq(Bytes)
      /\ fp[h].pos - Len(fp[h].buf) \in Nat
  BY <1>1, OpenFields
<1>3. data \in [Inodes -> Seq(Bytes)]
  BY <1>1 DEF FileTypes
<1> DEFINE i == fp[h].ino
           a == fp[h].pos - Len(fp[h].buf)
           u == SubSeq(fp[h].buf, 1, n)
           o == Overlay(data[i], a, u)
<1>4. data[i] \in Seq(Bytes)
  BY <1>2, <1>3
<1>5. u \in Seq(Bytes) /\ (fp[h].buf = <<>> => u = <<>>)
  BY <1>2
<1>6. d = [data EXCEPT ![i] = o]
  BY DEF Part
<1> HIDE DEF u
<1>7. o \in Seq(Bytes)
  BY <1>2, <1>4, <1>5, OverlayType
<1>8. fp[h].mode = "r" => o = data[i]
  BY <1>1, <1>2, <1>5, OverlayNothing DEF ReadersPlain
<1> HIDE DEF o
<1>9. /\ d \in [Inodes -> Seq(Bytes)]
      /\ \A k \in Inodes : k # i => d[k] = data[k]
      /\ d[i] = o
  BY <1>2, <1>3, <1>6, <1>7
<1>10. QED
  BY <1>8, <1>9 DEF o, u

\* A FILE's buffer is written out: its inode holds what was said of it.
LEMMA Flushing ==
  ASSUME FileInv, NEW h \in Open, NEW d, d = Flushed(h)
  PROVE  LET i == fp[h].ino
         IN  /\ d \in [Inodes -> Seq(Bytes)]
             /\ \A k \in Inodes : k # i => d[k] = data[k]
             /\ d[i] = Overlay(data[i], fp[h].pos - Len(fp[h].buf), fp[h].buf)
             /\ fp[h].mode = "r" => d[i] = data[i]
<1> DEFINE n == Len(fp[h].buf)
<1>1. fp[h].buf \in Seq(Bytes)
  BY OpenFields DEF FileInv
<1>2. n \in 0 .. Len(fp[h].buf) /\ SubSeq(fp[h].buf, 1, n) = fp[h].buf
  BY <1>1, SubSeqFull
<1>3. d = Part(h, n)
  BY DEF Flushed
<1> HIDE DEF n
<1> DEFINE i == fp[h].ino
           a == fp[h].pos - Len(fp[h].buf)
<1>4. /\ d \in [Inodes -> Seq(Bytes)]
      /\ \A k \in Inodes : k # i => d[k] = data[k]
      /\ d[i] = Overlay(data[i], a, SubSeq(fp[h].buf, 1, n))
      /\ fp[h].mode = "r" => d[i] = data[i]
  BY <1>2, <1>3, Parted
<1>5. d[i] = Overlay(data[i], a, fp[h].buf)
  BY <1>2, <1>4
<1>6. QED
  BY <1>4, <1>5

-----------------------------------------------------------------------------
\* The natives that work on an open FILE

\* The buffer is written out and the FILE may have moved: a flush, a seek, a
\* read.
LEMMA AtFile ==
  ASSUME FileTypes, NEW h \in Open, NEW pos \in Nat, NEW eof \in BOOLEAN,
         NEW buf \in Seq(Bytes)
  PROVE  /\ At(h, pos, eof, buf) \in FILE
         /\ At(h, pos, eof, buf).ino = fp[h].ino
         /\ At(h, pos, eof, buf).mode = fp[h].mode
         /\ At(h, pos, eof, buf).pos = pos
         /\ At(h, pos, eof, buf).buf = buf
<1>1. fp[h].ino \in Inodes /\ fp[h].mode \in {"r", "w", "m"}
  BY OpenFields
<1>2. QED
  BY <1>1 DEF At, FILE

LEMMA FlushUses ==
  ASSUME FileInv, NEW h \in Open, NEW pos \in Nat, NEW eof \in BOOLEAN,
         fp' = [fp EXCEPT ![h] = At(h, pos, eof, <<>>)],
         data' = Flushed(h), UNCHANGED <<dir, folders, pend, told, doubted, lost>>
  PROVE  FileInv' /\ Spared({})
<1> DEFINE nothing == <<>>
           F == At(h, pos, eof, nothing)
           i == fp[h].ino
           d == data'
<1>1. FileTypes
  BY DEF FileInv
<1>2. /\ F \in FILE /\ F.ino = fp[h].ino /\ F.mode = fp[h].mode
      /\ F.pos = pos /\ F.buf = nothing
  <2>1. nothing \in Seq(Bytes)
    OBVIOUS
  <2> HIDE DEF nothing
  <2>2. QED
    BY <1>1, <2>1, OpenFields DEF At, FILE
<1>3. /\ d \in [Inodes -> Seq(Bytes)]
      /\ \A k \in Inodes : k # i => d[k] = data[k]
      /\ d[i] = Overlay(data[i], fp[h].pos - Len(fp[h].buf), fp[h].buf)
      /\ fp[h].mode = "r" => d[i] = data[i]
  BY Flushing
<1>4. Uses(h, F)
  <2>1. /\ told \in [Inodes -> Seq(Bytes)]
        /\ doubted \subseteq Inodes /\ lost \subseteq Inodes
    BY <1>1 DEF FileTypes
  <2>2. fp' = [fp EXCEPT ![h] = F]
    OBVIOUS
  <2> HIDE DEF F
  <2>3. Len(F.buf) <= F.pos
    BY <1>2
  <2>4. QED
    BY <1>2, <1>3, <2>1, <2>2, <2>3 DEF Uses
<1>5. Keeps(h, F)
  <2> HIDE DEF F
  <2>1. Overlay(d[i], F.pos - Len(F.buf), F.buf) = d[i]
    BY <1>2, OverlayNothing
  <2>2. QED
    BY <1>2, <1>3, <2>1 DEF Keeps
<1>6. QED
  <2> HIDE DEF F
  <2>1. QED
    BY <1>4, <1>5, Used

\* A part of the buffer is dropped, and that is known of its inode.
LEMMA DropUses ==
  ASSUME FileInv, NEW h \in Open, Drops(h), UNCHANGED <<dir, folders, pend, told>>,
         doubted \subseteq doubted', doubted' \subseteq Inodes,
         lost \subseteq lost', lost' \subseteq Inodes, fp[h].ino \in Unsure'
  PROVE  FileInv' /\ Spared({})
<1>1. FileTypes /\ ReadersPlain
  BY DEF FileInv
<1>2. /\ h \in Files /\ fp[h] \in FILE /\ fp[h].buf \in Seq(Bytes)
      /\ fp[h].pos - Len(fp[h].buf) \in Nat /\ Len(fp[h].buf) \in Nat
  BY <1>1, OpenFields
<1>3. PICK n \in 0 .. Len(fp[h].buf) - 1 :
        /\ data' = Part(h, n)
        /\ fp' = [fp EXCEPT ![h] = At(h, fp[h].pos - Len(fp[h].buf) + n, fp[h].eof, <<>>)]
  BY DEF Drops
<1> DEFINE pos == fp[h].pos - Len(fp[h].buf) + n
           nothing == <<>>
           F == At(h, pos, fp[h].eof, nothing)
<1>4. pos \in Nat /\ fp[h].eof \in BOOLEAN /\ nothing \in Seq(Bytes)
  BY <1>2, <1>3 DEF FILE
<1>5. fp[h].mode # "r"
  <2>1. fp[h].buf # <<>>
    BY <1>2, <1>3
  <2>2. QED
    BY <1>1, <1>2, <2>1 DEF ReadersPlain
<1>6. n \in 0 .. Len(fp[h].buf)
  BY <1>2, <1>3
<1>7. fp' = [fp EXCEPT ![h] = F]
  BY <1>3
<1> HIDE DEF pos, nothing
<1>8. /\ F \in FILE /\ F.ino = fp[h].ino /\ F.mode = fp[h].mode
      /\ F.pos = pos /\ F.buf = nothing
  BY <1>1, <1>2, <1>4, OpenFields DEF At, FILE
<1> HIDE DEF F
<1>9. Len(F.buf) <= F.pos
  BY <1>4, <1>8 DEF nothing
<1>10. /\ data' \in [Inodes -> Seq(Bytes)]
       /\ \A k \in Inodes : k # fp[h].ino => data'[k] = data[k]
  BY <1>3, <1>6, Parted
<1>11. told \in [Inodes -> Seq(Bytes)]
  BY <1>1 DEF FileTypes
<1>12. Uses(h, F)
  BY <1>5, <1>7, <1>8, <1>9, <1>10, <1>11 DEF Uses
<1>13. Keeps(h, F)
  BY <1>5, <1>8 DEF Keeps
<1>14. QED
  BY <1>12, <1>13, Used

LEMMA NotDone ==
  ASSUME FileInv, NEW h \in Open, Refused(h)
  PROVE  FileInv' /\ Spared({})
<1>1. doubted \subseteq Inodes /\ lost \subseteq Inodes /\ fp[h].ino \in Inodes
  BY OpenFields DEF FileInv, FileTypes
<1>2. /\ Drops(h) /\ doubted' = doubted \union {fp[h].ino}
      /\ UNCHANGED <<dir, folders, pend, told>> /\ lost' = lost
  BY DEF Refused
<1>3. /\ doubted \subseteq doubted' /\ doubted' \subseteq Inodes
      /\ lost \subseteq lost' /\ lost' \subseteq Inodes /\ fp[h].ino \in Unsure'
  BY <1>1, <1>2 DEF Unsure
<1>4. QED
  BY <1>2, <1>3, DropUses

LEMMA Drained ==
  ASSUME FileInv, NEW h \in Files, StdioDrains(h)
  PROVE  FileInv' /\ Spared({})
<1>1. h \in Open /\ UNCHANGED <<dir, folders, pend, told, doubted>>
  BY DEF StdioDrains
<1>2. fp[h] \in FILE
  BY <1>1, OpenFields DEF FileInv
<1>3. fp[h].pos \in Nat /\ fp[h].eof \in BOOLEAN
  BY <1>2 DEF FILE
<1>4. CASE /\ data' = Flushed(h) /\ lost' = lost
           /\ fp' = [fp EXCEPT ![h] = At(h, fp[h].pos, fp[h].eof, <<>>)]
  BY <1>1, <1>3, <1>4, FlushUses
<1>5. CASE Drops(h) /\ lost' = lost \union {fp[h].ino}
  <2>1. doubted \subseteq Inodes /\ lost \subseteq Inodes /\ fp[h].ino \in Inodes
    BY <1>1, OpenFields DEF FileInv, FileTypes
  <2>2. /\ doubted \subseteq doubted' /\ doubted' \subseteq Inodes
        /\ lost \subseteq lost' /\ lost' \subseteq Inodes /\ fp[h].ino \in Unsure'
    BY <1>1, <1>5, <2>1 DEF Unsure
  <2>3. QED
    BY <1>1, <1>5, <2>2, DropUses
<1>6. QED
  BY <1>4, <1>5 DEF StdioDrains

LEMMA ReadFrom ==
  ASSUME FileInv, NEW h \in Files, NEW len \in Nat, doRead(h, len)
  PROVE  FileInv' /\ Spared({})
<1>1. h \in Open
  BY DEF doRead
<1>2. FileTypes
  BY DEF FileInv
<1>3. fp[h].pos \in Nat /\ fp[h].ino \in Inodes
  BY <1>1, <1>2, OpenFields
<1> DEFINE left == Len(data'[fp[h].ino]) - fp[h].pos
           got  == IF left <= 0 THEN 0 ELSE IF len < left THEN len ELSE left
           end == got < len
           pos == fp[h].pos + got
<1>4. data'[fp[h].ino] \in Seq(Bytes)
  <2>1. data' = Flushed(h)
    BY DEF doRead
  <2>2. data' \in [Inodes -> Seq(Bytes)]
    BY <1>1, <2>1, Flushing
  <2>3. QED
    BY <1>3, <2>2
<1>5. got \in Nat
  <2>1. Len(data'[fp[h].ino]) \in Nat
    BY <1>4
  <2>2. QED
    BY <1>3, <2>1
<1>6. fp' = [fp EXCEPT ![h] = At(h, pos, end, <<>>)]
  BY DEF doRead
<1> HIDE DEF got
<1>7. pos \in Nat /\ end \in BOOLEAN
  BY <1>3, <1>5
<1> HIDE DEF pos, end
<1>8. data' = Flushed(h) /\ UNCHANGED <<dir, folders, pend, told, doubted, lost>>
  BY DEF doRead
<1>9. QED
  BY <1>1, <1>6, <1>7, <1>8, FlushUses

LEMMA SoughtIn ==
  ASSUME FileInv, NEW h \in Files, NEW pos \in Nat, doSeek(h, pos)
  PROVE  FileInv' /\ Spared({})
<1> DEFINE end == FALSE
<1>1. h \in Open /\ end \in BOOLEAN /\ (Moves(h, pos) \/ Refused(h))
  BY DEF doSeek
<1>2. CASE Moves(h, pos)
  <2>1. fp' = [fp EXCEPT ![h] = At(h, pos, end, <<>>)]
    BY <1>2 DEF Moves
  <2> HIDE DEF end
  <2>2. QED
    BY <1>1, <1>2, <2>1, FlushUses DEF Moves
<1>3. QED
  BY <1>1, <1>2, NotDone

LEMMA LowByte ==
  ASSUME NEW v \in Nat
  PROVE  v % 256 \in Bytes /\ (v \in Bytes => v % 256 = v)
BY DEF Bytes

\* Bytes go into the buffer, and are said to be written if all of them went.
LEMMA Put ==
  ASSUME FileInv, NEW h \in Open, NEW bs \in Seq(Nat), Puts(h, bs)
  PROVE  FileInv' /\ Spared({})
<1> DEFINE i == fp[h].ino
           a == fp[h].pos - Len(fp[h].buf)
<1>1. h \in Open
  OBVIOUS
<1>2. FileTypes /\ ReadersPlain
  BY DEF FileInv
<1>3. /\ fp[h] \in FILE /\ fp[h].pos \in Nat /\ fp[h].buf \in Seq(Bytes)
      /\ i \in Inodes /\ a \in Nat /\ Len(fp[h].buf) \in Nat /\ h \in Files
  BY <1>1, <1>2, OpenFields
<1>4. fp[h].eof \in BOOLEAN
  BY <1>3 DEF FILE
<1>5. /\ told \in [Inodes -> Seq(Bytes)] /\ data \in [Inodes -> Seq(Bytes)]
      /\ doubted \subseteq Inodes /\ lost \subseteq Inodes
  BY <1>2 DEF FileTypes
<1>6. PICK n \in (IF fp[h].mode = "r" THEN {0} ELSE 0 .. Len(bs)) :
        LET bytes == [k \in 1 .. n |-> bs[k] % 256]
        IN  /\ fp' = [fp EXCEPT ![h] = At(h, fp[h].pos + n, fp[h].eof, fp[h].buf \o bytes)]
            /\ IF Taken(h, bs, n)
               THEN told' = [told EXCEPT ![i] = Overlay(@, fp[h].pos, bs)] /\ UNCHANGED doubted
               ELSE doubted' = (IF n = 0 THEN doubted ELSE doubted \union {i}) /\ UNCHANGED told
  BY DEF Puts
<1>7. UNCHANGED <<dir, folders, data, pend, lost>>
  BY DEF Puts
<1> DEFINE bytes == [k \in 1 .. n |-> bs[k] % 256]
           pos == fp[h].pos + n
           buf == fp[h].buf \o bytes
           F == At(h, pos, fp[h].eof, buf)
<1>8. n \in Nat /\ n <= Len(bs) /\ (fp[h].mode = "r" => n = 0) /\ Len(bs) \in Nat
  BY <1>6
<1>9. bytes \in Seq(Bytes) /\ Len(bytes) = n
  <2>1. ASSUME NEW k \in 1 .. n
        PROVE  bs[k] % 256 \in Bytes
    <3>1. k \in 1 .. Len(bs)
      BY <1>8
    <3>2. bs[k] \in Nat
      BY <3>1, ElementOfSeq
    <3>3. QED
      BY <3>2, LowByte
  <2>2. bytes \in [1 .. n -> Bytes]
    BY <2>1
  <2>3. bytes \in Seq(Bytes)
    BY <1>8, <2>2, SeqDef
  <2>4. DOMAIN bytes = 1 .. n
    OBVIOUS
  <2> HIDE DEF bytes
  <2>5. DOMAIN bytes = 1 .. Len(bytes) /\ Len(bytes) \in Nat
    BY <2>3
  <2>6. QED
    BY <1>8, <2>3, <2>4, <2>5
<1>10. ASSUME Taken(h, bs, n)
       PROVE  bytes = bs /\ bs \in Seq(Bytes) /\ n = Len(bs)
  <2>1. n = Len(bs) /\ \A k \in 1 .. n : bs[k] \in Bytes
    BY <1>10 DEF Taken
  <2>2. bs = [k \in 1 .. n |-> bs[k]]
    BY <2>1
  <2>3. ASSUME NEW k \in 1 .. n
        PROVE  bs[k] % 256 = bs[k]
    <3>1. k \in 1 .. Len(bs) /\ bs[k] \in Bytes
      BY <1>8, <2>1
    <3>2. bs[k] \in Nat
      BY <3>1, ElementOfSeq
    <3>3. QED
      BY <3>1, <3>2, LowByte
  <2>4. bytes = bs
    BY <2>2, <2>3
  <2>5. QED
    BY <1>9, <2>1, <2>4
<1>11. fp' = [fp EXCEPT ![h] = F]
  BY <1>6
<1>12. /\ Taken(h, bs, n) =>
            told' = [told EXCEPT ![i] = Overlay(told[i], fp[h].pos, bs)] /\ doubted' = doubted
       /\ ~ Taken(h, bs, n) =>
            told' = told /\ doubted' = (IF n = 0 THEN doubted ELSE doubted \union {i})
  BY <1>6
<1> HIDE DEF bytes
<1>13. buf \in Seq(Bytes) /\ Len(buf) = Len(fp[h].buf) + n
  BY <1>3, <1>8, <1>9, ConcatProperties, ZenonT(60)
<1> HIDE DEF buf
<1>14. pos \in Nat /\ pos - Len(buf) = a /\ Len(buf) <= pos
  <2> DEFINE p == fp[h].pos
             l == Len(fp[h].buf)
             m == Len(buf)
  <2>1. p \in Nat /\ l \in Nat /\ p - l \in Nat /\ m = l + n
    BY <1>3, <1>13
  <2> HIDE DEF p, l, m
  <2>2. p + n \in Nat /\ (p + n) - m = p - l /\ m <= p + n
    BY <1>8, <2>1
  <2>3. QED
    BY <2>2 DEF p, l, m
<1> HIDE DEF pos
<1>15. /\ F \in FILE /\ F.ino = i /\ F.mode = fp[h].mode
       /\ F.pos = pos /\ F.buf = buf
  BY <1>1, <1>2, <1>4, <1>13, <1>14, AtFile
<1> HIDE DEF F
<1>16. n = 0 => buf = fp[h].buf
  <2>1. ASSUME n = 0
        PROVE  bytes = <<>>
    BY <1>9, <2>1, EmptySeq
  <2>2. QED
    BY <1>3, <2>1 DEF buf
<1>17. told' \in [Inodes -> Seq(Bytes)]
  <2>1. CASE Taken(h, bs, n)
    <3>1. told[i] \in Seq(Bytes)
      BY <1>3, <1>5
    <3>2. Overlay(told[i], fp[h].pos, bs) \in Seq(Bytes)
      BY <1>3, <1>10, <2>1, <3>1, OverlayType
    <3>3. QED
      BY <1>3, <1>5, <1>12, <2>1, <3>2
  <2>2. QED
    BY <1>5, <1>12, <2>1
<1>18. Uses(h, F)
  <2>1. \A k \in Inodes : k # i => told'[k] = told[k]
    BY <1>3, <1>5, <1>12
  <2>2. doubted \subseteq doubted' /\ doubted' \subseteq Inodes
    BY <1>3, <1>5, <1>12
  <2>3. F.mode = "r" => F.buf = <<>>
    BY <1>2, <1>3, <1>8, <1>15, <1>16 DEF ReadersPlain
  <2>4. Len(F.buf) <= F.pos
    BY <1>14, <1>15
  <2>5. QED
    BY <1>5, <1>7, <1>11, <1>15, <1>17, <2>1, <2>2, <2>3, <2>4 DEF Uses
<1>19. Keeps(h, F)
  <2>1. CASE ~ Taken(h, bs, n)
    BY <1>7, <1>12, <1>14, <1>15, <1>16, <2>1 DEF Keeps, Unsure
  <2>2. CASE Taken(h, bs, n) /\ n = 0
    <3>1. bs = <<>>
      BY <1>10, <2>2, EmptySeq
    <3>2. told' = told
      BY <1>3, <1>5, <1>12, <2>2, <3>1, OverlayNothing
    <3>3. QED
      BY <1>7, <1>14, <1>15, <1>16, <2>2, <3>2 DEF Keeps
  <2>3. CASE Taken(h, bs, n) /\ n # 0
    <3>1. F.mode # "r"
      BY <1>8, <1>15, <2>3
    <3>2. buf = fp[h].buf \o bs /\ bs \in Seq(Bytes)
      BY <1>10, <2>3 DEF buf
    <3>3. data[i] \in Seq(Bytes) /\ a + Len(fp[h].buf) = fp[h].pos
      BY <1>3, <1>5
    <3>4. Overlay(Overlay(data[i], a, fp[h].buf), a + Len(fp[h].buf), bs)
            = Overlay(data[i], a, fp[h].buf \o bs)
      <4> HIDE DEF a, i
      <4>1. QED
        BY <1>3, <3>2, <3>3, OverlayAppended, ZenonT(60)
    <3>5. told'[i] = Overlay(told[i], fp[h].pos, bs)
      BY <1>3, <1>5, <1>12, <2>3
    <3>6. ASSUME told[i] = Overlay(data[i], a, fp[h].buf)
          PROVE  told'[i] = Overlay(data'[i], F.pos - Len(F.buf), F.buf)
      <4>1. told'[i] = Overlay(data[i], a, buf)
        BY <3>2, <3>3, <3>4, <3>5, <3>6
      <4>2. QED
        BY <1>7, <1>14, <1>15, <4>1
    <3>7. QED
      BY <3>1, <3>6 DEF Keeps
  <2>4. QED
    BY <2>1, <2>2, <2>3
<1>20. QED
  BY <1>1, <1>18, <1>19, Used

LEMMA Written ==
  ASSUME FileInv, NEW h \in Files, NEW bs \in Seq(Nat), doWrite(h, bs)
  PROVE  FileInv' /\ Spared({})
BY Put, NotDone DEF doWrite

-----------------------------------------------------------------------------
\* Closing

LEMMA ClosedFile ==
  Closed \in FILE /\ Closed.ino = none /\ Closed.mode = "r" /\ Closed.buf = <<>> /\ Closed.pos = 0
<1>1. <<>> \in Seq(Bytes)
  OBVIOUS
<1>2. QED
  BY <1>1 DEF Closed, Opened, FILE

LEMMA OneClosed ==
  ASSUME FileInv, NEW h \in Files, doClose(h)
  PROVE  FileInv' /\ Spared({})
<1> DEFINE j == fp[h].ino
<1>1. h \in Open /\ fp' = [fp EXCEPT ![h] = Closed] /\ UNCHANGED <<dir, folders, pend, told, lost>>
  BY DEF doClose
<1>2. FileTypes /\ Distinct /\ ReadersPlain /\ Said
  BY DEF FileInv
<1>3. /\ h \in Files /\ j \in Inodes /\ j \notin Free /\ fp \in [Files -> FILE] /\ j # none
  BY <1>1, <1>2, OpenFields, NoneIsNoInode DEF FileTypes
<1>4. fp'[h] = Closed /\ \A g \in Files : g # h => fp'[g] = fp[g]
  BY <1>1, <1>3
<1>6. /\ data' \in [Inodes -> Seq(Bytes)] /\ doubted \subseteq doubted' /\ doubted' \subseteq Inodes
      /\ \A k \in Inodes : k # j => data'[k] = data[k]
      /\ fp[h].mode = "r" => data'[j] = data[j]
      /\ fp[h].mode # "r" /\ j \notin doubted' =>
           data'[j] = Overlay(data[j], fp[h].pos - Len(fp[h].buf), fp[h].buf)
  <2>1. CASE data' = Flushed(h) /\ doubted' = doubted
    <3>1. /\ data' \in [Inodes -> Seq(Bytes)]
          /\ \A k \in Inodes : k # j => data'[k] = data[k]
          /\ data'[j] = Overlay(data[j], fp[h].pos - Len(fp[h].buf), fp[h].buf)
          /\ fp[h].mode = "r" => data'[j] = data[j]
      BY <1>1, <2>1, Flushing
    <3>2. QED
      BY <1>2, <2>1, <3>1 DEF FileTypes
  <2>2. CASE /\ fp[h].mode # "r" /\ doubted' = doubted \union {j}
             /\ \E n \in 0 .. Len(fp[h].buf) : data' = Part(h, n)
    <3>1. /\ data' \in [Inodes -> Seq(Bytes)]
          /\ \A k \in Inodes : k # j => data'[k] = data[k]
      BY <1>1, <2>2, Parted
    <3>2. doubted \subseteq Inodes
      BY <1>2 DEF FileTypes
    <3>3. QED
      BY <1>3, <2>2, <3>1, <3>2
  <2>3. QED
    BY <2>1, <2>2 DEF doClose
<1>7. \A i \in Inodes : Writers(i)' = Writers(i) \ {h}
  <2>1. ASSUME NEW i \in Inodes, NEW g \in Files
        PROVE  g \in Writers(i)' <=> g \in Writers(i) /\ g # h
    <3>1. CASE g = h
      BY <1>4, <2>1, <3>1, ClosedFile, NoneIsNoInode DEF Writers
    <3>2. CASE g # h
      BY <1>4, <3>2 DEF Writers
    <3>3. QED
      BY <3>1, <3>2
  <2>2. \A i \in Inodes : Writers(i) \subseteq Files /\ Writers(i)' \subseteq Files
    BY DEF Writers
  <2>3. QED
    BY <2>1, <2>2
<1>8. Free \subseteq Free'
  BY <1>1, <1>4, ClosedFile, NoneIsNoInode DEF Free
<1>9. FileTypes'
  <2>1. fp' \in [Files -> FILE]
    BY <1>1, <1>3, ClosedFile
  <2>2. \A g \in Files : Len(fp'[g].buf) <= fp'[g].pos
    BY <1>2, <1>4, ClosedFile DEF FileTypes
  <2>3. QED
    BY <1>1, <1>2, <1>6, <2>1, <2>2 DEF FileTypes
<1>10. Distinct'
  BY <1>1, <1>2 DEF Distinct
<1>11. ReadersPlain'
  BY <1>2, <1>4, ClosedFile DEF ReadersPlain
<1>12. Spared({})
  <2>1. ASSUME NEW i \in Inodes, Writers(i) = {}
        PROVE  data'[i] = data[i]
    <3>1. CASE i = j
      <4>1. fp[h].mode = "r"
        BY <1>3, <2>1, <3>1 DEF Writers
      <4>2. QED
        BY <1>6, <3>1, <4>1
    <3>2. QED
      BY <1>6, <3>1
  <2>2. QED
    BY <1>1, <1>7, <2>1 DEF Spared
<1>13. ASSUME NEW i \in Inodes \ Free', i \notin Unsure'
       PROVE  SaidOf(i)'
  <2>1. i \in Inodes \ Free /\ i \notin Unsure /\ Writers(i)' = Writers(i) \ {h}
    BY <1>1, <1>6, <1>7, <1>8, <1>13 DEF Unsure
  <2>2. /\ Writers(i) = {} => data[i] = told[i]
        /\ \A g \in Writers(i) : told[i] = Overlay(data[i], fp[g].pos - Len(fp[g].buf), fp[g].buf)
        /\ \A f, g \in Writers(i) : f = g
    BY <1>2, <2>1 DEF Said, SaidOf
  <2>3. \A g \in Writers(i) \ {h} : fp'[g] = fp[g]
    BY <1>4 DEF Writers
  <2>4. told' = told
    BY <1>1
  <2>5. CASE h \notin Writers(i)
    <3>1. data'[i] = data[i]
      <4>1. CASE i = j
        BY <1>3, <1>6, <2>5, <4>1 DEF Writers
      <4>2. QED
        BY <1>6, <2>1, <4>1
    <3>2. Writers(i) \ {h} = Writers(i)
      BY <2>5
    <3>3. QED
      BY <2>1, <2>2, <2>3, <2>4, <3>1, <3>2 DEF SaidOf
  <2>6. CASE h \in Writers(i)
    <3>1. i = j /\ fp[h].mode # "r"
      BY <2>6 DEF Writers
    <3>2. data'[i] = told[i]
      BY <1>6, <1>13, <2>2, <2>6, <3>1 DEF Unsure
    <3>3. Writers(i)' = {}
      BY <2>1, <2>2, <2>6
    <3>4. QED
      BY <2>4, <3>2, <3>3 DEF SaidOf
  <2>7. QED
    BY <2>5, <2>6
<1>14. QED
  BY <1>9, <1>10, <1>11, <1>12, <1>13 DEF FileInv, Said

\* All FILEs go at once: at exit with empty buffers, at a kill with what the
\* buffers held in doubt.
LEMMA AllClosed ==
  ASSUME FileInv, fp' = [h \in Files |-> Closed], pend' = <<>>,
         UNCHANGED <<dir, folders, data, told, lost>>,
         doubted \subseteq doubted', doubted' \subseteq Inodes,
         \A h \in Files : fp[h].ino \in Inodes \ doubted' => fp[h].buf = <<>>
  PROVE  FileInv' /\ Spared({})
<1>1. FileTypes /\ Distinct /\ ReadersPlain /\ Said
  BY DEF FileInv
<1>2. \A h \in Files : fp'[h] = Closed
  OBVIOUS
<1>3. \A i \in Inodes : Writers(i)' = {}
  BY <1>2, ClosedFile DEF Writers
<1>4. Free \subseteq Free'
  BY <1>2, ClosedFile, NoneIsNoInode DEF Free
<1>5. FileTypes'
  <2>1. fp' \in [Files -> FILE]
    BY ClosedFile
  <2>2. \A g \in Files : Len(fp'[g].buf) <= fp'[g].pos
    BY <1>2, ClosedFile
  <2>3. QED
    BY <1>1, <2>1, <2>2 DEF FileTypes
<1>6. Distinct'
  BY <1>1 DEF Distinct
<1>7. ReadersPlain'
  BY <1>2, ClosedFile DEF ReadersPlain
<1>8. Spared({})
  BY <1>3 DEF Spared
<1>9. ASSUME NEW i \in Inodes \ Free', i \notin Unsure'
      PROVE  SaidOf(i)'
  <2>1. i \in Inodes \ Free /\ i \notin Unsure /\ i \notin doubted'
    BY <1>4, <1>9 DEF Unsure
  <2>2. SaidOf(i)
    BY <1>1, <2>1 DEF Said
  <2>3. CASE Writers(i) = {}
    BY <1>3, <2>2, <2>3 DEF SaidOf
  <2>4. CASE Writers(i) # {}
    <3>1. PICK g \in Writers(i) : TRUE
      BY <2>4
    <3>2. g \in Files /\ fp[g].ino = i
      BY <3>1 DEF Writers
    <3>3. fp[g].buf = <<>>
      BY <2>1, <3>2
    <3>4. told[i] = data[i]
      BY <2>2, <3>1, <3>3, OverlayNothing DEF SaidOf
    <3>5. QED
      BY <1>3, <3>4 DEF SaidOf
  <2>5. QED
    BY <2>3, <2>4
<1>10. QED
  BY <1>5, <1>6, <1>7, <1>8, <1>9 DEF FileInv, Said

LEMMA ExitCloses ==
  ASSUME FileInv, Exited
  PROVE  FileInv' /\ Spared({})
<1>1. /\ fp' = [h \in Files |-> Closed] /\ pend' = <<>>
      /\ UNCHANGED <<dir, folders, data, told, lost>> /\ doubted' = doubted
      /\ \A h \in Files : fp[h].buf = <<>>
  BY DEF Exited
<1>2. doubted \subseteq Inodes
  BY DEF FileInv, FileTypes
<1>3. QED
  BY <1>1, <1>2, AllClosed

LEMMA KillCloses ==
  ASSUME FileInv, Killed
  PROVE  FileInv' /\ Spared({})
<1>1. /\ fp' = [h \in Files |-> Closed] /\ pend' = <<>>
      /\ UNCHANGED <<dir, folders, data, told, lost>>
      /\ doubted' = doubted \union
           { i \in Inodes : \E h \in Files : fp[h].ino = i /\ fp[h].buf # <<>> }
  BY DEF Killed
<1>2. doubted \subseteq Inodes
  BY DEF FileInv, FileTypes
<1>3. doubted' \subseteq Inodes /\ doubted \subseteq doubted'
  BY <1>1, <1>2
<1>4. \A h \in Files : fp[h].ino \in Inodes \ doubted' => fp[h].buf = <<>>
  BY <1>1
<1>5. QED
  BY <1>1, <1>3, <1>4, AllClosed

-----------------------------------------------------------------------------
\* Opening

LEMMA OpenedFile ==
  ASSUME NEW i \in Inodes, NEW mode \in {"r", "w", "m"}
  PROVE  /\ Opened(i, mode) \in FILE
         /\ Opened(i, mode).ino = i /\ Opened(i, mode).mode = mode
         /\ Opened(i, mode).pos = 0 /\ Opened(i, mode).buf = <<>>
<1>1. <<>> \in Seq(Bytes) /\ FALSE \in BOOLEAN
  OBVIOUS
<1>2. QED
  BY <1>1 DEF Opened, FILE

\* A FILE is opened on inode j, or has failed to be; j may be new, and may be
\* cut down to nothing.
OpensOn(h, j, mode) ==
  /\ fp' = fp \/ fp' = [fp EXCEPT ![h] = Opened(j, mode)]
  /\ pend' = pend
  /\ data' \in [Inodes -> Seq(Bytes)] /\ told' \in [Inodes -> Seq(Bytes)]
  /\ doubted' \subseteq Inodes /\ lost' \subseteq Inodes
  /\ \A i \in Inodes : i # j =>
       /\ data'[i] = data[i] /\ told'[i] = told[i]
       /\ (i \in doubted => i \in doubted') /\ (i \in lost => i \in lost')

\* What is said of j stands behind it, if one FILE at most writes it.
SaysOf(j, mode) ==
  j \notin Unsure' =>
    \/ mode = "r" /\ data'[j] = data[j] /\ told'[j] = told[j] /\ j \notin Unsure
    \/ Writers(j) = {} /\ data'[j] = told'[j]

\* The name leads to j, or comes to.
Leads(n, j) ==
  \/ dir' = dir /\ dir[n] = j
  \/ dir[n] = none /\ j \in Free /\ dir' = [dir EXCEPT ![n] = j]

LEMMA OpenedOn ==
  ASSUME FileInv, NEW n \in Names, NEW h \in Files \ Open, NEW j \in Inodes,
         NEW mode \in {"r", "w", "m"},
         OpensOn(h, j, mode), SaysOf(j, mode), Leads(n, j),
         folders' \subseteq UNION { FoldersOf[m] : m \in Names },
         mode = "r" => j \notin Free
  PROVE  FileInv' /\ Spared({j})
<1> DEFINE F == Opened(j, mode)
<1>1. FileTypes /\ Distinct /\ ReadersPlain /\ Said
  BY DEF FileInv
<1>2. h \in Files /\ fp[h].ino = none /\ fp \in [Files -> FILE] /\ j # none
  BY <1>1, NoneIsNoInode DEF Open, FileTypes
<1>3. F \in FILE /\ F.ino = j /\ F.mode = mode /\ F.pos = 0 /\ F.buf = <<>>
  BY OpenedFile
<1> HIDE DEF F
<1>4. (\A g \in Files : g # h => fp'[g] = fp[g]) /\ (fp'[h] = fp[h] \/ fp'[h] = F)
  BY <1>2 DEF OpensOn, F
<1>5. \A i \in Inodes : i # j => Writers(i)' = Writers(i)
  <2>1. ASSUME NEW i \in Inodes, i # j, NEW g \in Files
        PROVE  g \in Writers(i)' <=> g \in Writers(i)
    <3>1. CASE g = h
      BY <1>2, <1>3, <1>4, <2>1, <3>1, NoneIsNoInode DEF Writers
    <3>2. CASE g # h
      BY <1>4, <3>2 DEF Writers
    <3>3. QED
      BY <3>1, <3>2
  <2>2. \A i \in Inodes : Writers(i) \subseteq Files /\ Writers(i)' \subseteq Files
    BY DEF Writers
  <2>3. QED
    BY <2>1, <2>2
<1>6. Writers(j)' \subseteq Writers(j) \union {h} /\ (mode = "r" => Writers(j)' = Writers(j))
  <2>1. ASSUME NEW g \in Files
        PROVE  /\ g \in Writers(j)' => g \in Writers(j) \/ g = h
               /\ mode = "r" => (g \in Writers(j)' <=> g \in Writers(j))
    <3>1. CASE g = h
      BY <1>2, <1>3, <1>4, <2>1, <3>1, NoneIsNoInode DEF Writers
    <3>2. CASE g # h
      BY <1>4, <3>2 DEF Writers
    <3>3. QED
      BY <3>1, <3>2
  <2>2. Writers(j) \subseteq Files /\ Writers(j)' \subseteq Files
    BY DEF Writers
  <2>3. QED
    BY <2>1, <2>2
<1>7. Free' \subseteq Free /\ Free \ {j} \subseteq Free'
  <2>1. dir \in [Names -> Inodes \union {none}]
    BY <1>1 DEF FileTypes
  <2>2. ASSUME NEW i \in Inodes, i \notin Free
        PROVE  i \notin Free'
    <3>1. CASE \E m \in Names : dir[m] = i
      <4>1. PICK m \in Names : dir[m] = i
        BY <3>1
      <4>2. i # none
        BY NoneIsNoInode
      <4>3. dir'[m] = i
        BY <2>1, <4>1, <4>2 DEF Leads
      <4>4. QED
        BY <4>3 DEF Free
    <3>2. CASE \E g \in Files : fp[g].ino = i
      <4>1. PICK g \in Files : fp[g].ino = i
        BY <3>2
      <4>2. g # h
        BY <1>2, <4>1, NoneIsNoInode
      <4>3. fp'[g].ino = i
        BY <1>4, <4>1, <4>2
      <4>4. QED
        BY <4>3 DEF Free
    <3>3. QED
      BY <2>2, <3>1, <3>2 DEF Free
  <2>3. ASSUME NEW i \in Free, i # j
        PROVE  i \in Free'
    <3>1. i \in Inodes /\ (\A m \in Names : dir[m] # i) /\ (\A g \in Files : fp[g].ino # i)
      BY DEF Free
    <3>2. \A m \in Names : dir'[m] # i
      BY <2>1, <2>3, <3>1 DEF Leads
    <3>3. \A g \in Files : fp'[g].ino # i
      BY <1>3, <1>4, <2>3, <3>1
    <3>4. QED
      BY <3>1, <3>2, <3>3 DEF Free
  <2>4. Free \subseteq Inodes /\ Free' \subseteq Inodes
    BY DEF Free
  <2>5. QED
    BY <2>2, <2>3, <2>4
<1>8. FileTypes'
  <2>1. fp' \in [Files -> FILE]
    BY <1>2, <1>3 DEF OpensOn, F
  <2>2. ASSUME NEW g \in Files
        PROVE  Len(fp'[g].buf) <= fp'[g].pos
    <3>1. CASE g # h \/ fp'[h] = fp[h]
      <4>1. fp'[g] = fp[g]
        BY <1>4, <3>1
      <4>2. QED
        BY <1>1, <4>1 DEF FileTypes
    <3>2. CASE g = h /\ fp'[h] = F
      <4>1. fp'[g].buf = <<>> /\ fp'[g].pos = 0
        BY <1>3, <3>2
      <4>2. Len(fp'[g].buf) = 0
        BY <4>1
      <4>3. QED
        BY <4>1, <4>2
    <3>3. QED
      BY <1>4, <3>1, <3>2
  <2>3. dir' \in [Names -> Inodes \union {none}]
    BY <1>1 DEF FileTypes, Leads
  <2>4. QED
    BY <1>1, <2>1, <2>2, <2>3 DEF OpensOn, FileTypes
<1>9. Distinct'
  <2>1. CASE dir' = dir
    BY <1>1, <2>1 DEF Distinct
  <2>2. CASE j \in Free /\ dir' = [dir EXCEPT ![n] = j]
    <3>1. dir'[n] = j /\ \A m \in Names : m # n => dir'[m] = dir[m] /\ dir[m] # j
      BY <1>1, <2>2 DEF FileTypes, Free
    <3>2. QED
      BY <1>1, <3>1 DEF Distinct
  <2>3. QED
    BY <2>1, <2>2 DEF Leads
<1>10. ReadersPlain'
  BY <1>1, <1>3, <1>4 DEF ReadersPlain
<1>11. Spared({j})
  BY <1>5 DEF Spared, OpensOn
<1>12. ASSUME NEW i \in Inodes \ Free', i \notin Unsure'
       PROVE  SaidOf(i)'
  <2>1. CASE i # j
    <3>1. i \in Inodes \ Free /\ i \notin Unsure
      BY <1>7, <1>12, <2>1 DEF OpensOn, Unsure
    <3>2. SaidOf(i)
      BY <1>1, <3>1 DEF Said
    <3>3. Writers(i)' = Writers(i) /\ data'[i] = data[i] /\ told'[i] = told[i]
      BY <1>5, <2>1 DEF OpensOn
    <3>4. \A g \in Writers(i) : fp'[g] = fp[g]
      BY <1>2, <1>4, NoneIsNoInode DEF Writers
    <3>5. QED
      BY <3>2, <3>3, <3>4 DEF SaidOf
  <2>2. CASE i = j /\ Writers(j) = {} /\ data'[j] = told'[j]
    <3>1. \A g \in Writers(j)' : g = h
      BY <1>6, <2>2
    <3>2. ASSUME NEW g \in Writers(j)'
          PROVE  fp'[g].buf = <<>>
      <4>1. g = h /\ g \notin Writers(j)
        BY <2>2, <3>1
      <4>2. fp'[g].ino = j
        BY DEF Writers
      <4>3. fp'[h] = F
        BY <1>2, <1>4, <4>1, <4>2
      <4>4. QED
        BY <1>3, <4>1, <4>3
    <3>3. \A g \in Writers(j)' :
            told'[j] = Overlay(data'[j], fp'[g].pos - Len(fp'[g].buf), fp'[g].buf)
      BY <2>2, <3>2, OverlayNothing
    <3>4. QED
      BY <2>2, <3>1, <3>3 DEF SaidOf
  <2>3. CASE i = j /\ mode = "r" /\ data'[j] = data[j] /\ told'[j] = told[j] /\ j \notin Unsure
    <3>1. SaidOf(i) /\ Writers(i)' = Writers(i)
      BY <1>1, <1>6, <2>3 DEF Said
    <3>2. \A g \in Writers(i) : fp'[g] = fp[g]
      BY <1>2, <1>4, NoneIsNoInode DEF Writers
    <3>3. QED
      BY <2>3, <3>1, <3>2 DEF SaidOf
  <2>4. QED
    BY <1>12, <2>1, <2>2, <2>3 DEF SaysOf
<1>13. QED
  BY <1>8, <1>9, <1>10, <1>11, <1>12 DEF FileInv, Said

LEMMA OpenedToRead ==
  ASSUME FileInv, NEW n \in Names, NEW h \in Files, doOpenRead(n, h)
  PROVE  FileInv' /\ Spared({})
<1> DEFINE j == dir[n]
<1>1. /\ h \in Files \ Open /\ j # none /\ fp' = [fp EXCEPT ![h] = Opened(j, "r")]
      /\ UNCHANGED <<dir, folders, data, pend, told, doubted, lost>>
  BY DEF doOpenRead
<1>2. FileTypes
  BY DEF FileInv
<1>3. j \in Inodes
  BY <1>1, <1>2 DEF FileTypes
<1>4. j \notin Free
  BY DEF Free
<1>5. OpensOn(h, j, "r") /\ SaysOf(j, "r") /\ Leads(n, j)
  BY <1>1, <1>2 DEF OpensOn, SaysOf, Leads, FileTypes, Unsure
<1>6. folders' \subseteq UNION { FoldersOf[m] : m \in Names }
  BY <1>1, <1>2 DEF FileTypes
<1>7. FileInv' /\ Spared({j})
  <2> HIDE DEF j
  <2>1. QED
    BY <1>1, <1>3, <1>4, <1>5, <1>6, OpenedOn
<1>8. Writers(j)' = Writers(j)
  <2>1. fp[h].ino = none /\ fp \in [Files -> FILE]
    BY <1>1, <1>2 DEF Open, FileTypes
  <2>2. fp'[h].mode = "r" /\ \A g \in Files : g # h => fp'[g] = fp[g]
    BY <1>1, <1>3, <2>1, OpenedFile
  <2>3. ASSUME NEW g \in Files
        PROVE  g \in Writers(j)' <=> g \in Writers(j)
    <3>1. CASE g = h
      <4>1. fp[h].ino # j /\ fp'[h].mode = "r"
        BY <1>3, <2>1, <2>2, NoneIsNoInode
      <4>2. QED
        BY <3>1, <4>1 DEF Writers
    <3>2. CASE g # h
      BY <1>1, <2>2, <3>2 DEF Writers
    <3>3. QED
      BY <3>1, <3>2
  <2>4. Writers(j) \subseteq Files /\ Writers(j)' \subseteq Files
    BY DEF Writers
  <2>5. QED
    BY <2>3, <2>4
<1>9. QED
  BY <1>1, <1>7, <1>8 DEF Spared

LEMMA FoldersMade ==
  ASSUME FileTypes, NEW n \in Names
  PROVE  folders \union FoldersOf[n] \subseteq UNION { FoldersOf[m] : m \in Names }
BY DEF FileTypes

\* A name without an inode gets a free one.
LEMMA Created ==
  ASSUME FileInv, NEW n \in Names, NEW h \in Files \ Open, NEW j \in Free, Create(n, j),
         dir[n] = none, NEW mode \in {"w", "m"},
         fp' \in { fp, [fp EXCEPT ![h] = Opened(j, mode)] }, pend' = pend,
         folders' \subseteq UNION { FoldersOf[m] : m \in Names }
  PROVE  FileInv' /\ Spared({j})
<1>1. /\ dir' = [dir EXCEPT ![n] = j] /\ data' = [data EXCEPT ![j] = <<>>]
      /\ told' = [told EXCEPT ![j] = <<>>] /\ doubted' = doubted \ {j} /\ lost' = lost \ {j}
  BY DEF Create
<1>2. j \in Inodes /\ Writers(j) = {}
  BY DEF Free, Writers
<1>3. /\ data \in [Inodes -> Seq(Bytes)] /\ told \in [Inodes -> Seq(Bytes)]
      /\ doubted \subseteq Inodes /\ lost \subseteq Inodes /\ <<>> \in Seq(Bytes)
  BY DEF FileInv, FileTypes
<1>4. data'[j] = <<>> /\ told'[j] = <<>>
  BY <1>1, <1>2, <1>3
<1>5. OpensOn(h, j, mode)
  BY <1>1, <1>2, <1>3 DEF OpensOn
<1>6. SaysOf(j, mode) /\ Leads(n, j)
  BY <1>1, <1>2, <1>4 DEF SaysOf, Leads
<1>7. QED
  BY <1>2, <1>5, <1>6, OpenedOn

LEMMA OpenedToWrite ==
  ASSUME FileInv, NEW n \in Names, NEW h \in Files, doOpenWrite(n, h)
  PROVE  FileInv' /\ Spared({dir[n]} \union Free)
<1>1. /\ h \in Files \ Open /\ folders' = folders \union FoldersOf[n] /\ pend' = pend
      /\ \/ /\ IF dir[n] = none
               THEN \E i \in Free : Create(n, i) /\ fp' = [fp EXCEPT ![h] = Opened(i, "w")]
               ELSE Truncate(dir[n]) /\ fp' = [fp EXCEPT ![h] = Opened(dir[n], "w")]
         \/ UNCHANGED <<dir, data, fp, told, doubted, lost>>
  BY DEF doOpenWrite
<1>2. FileTypes
  BY DEF FileInv
<1>3. folders' \subseteq UNION { FoldersOf[m] : m \in Names }
  BY <1>1, <1>2, FoldersMade
<1>4. CASE UNCHANGED <<dir, data, fp, told, doubted, lost>>
  <2>1. Free' = Free /\ \A i \in Inodes : Writers(i)' = Writers(i)
    BY <1>4, SameWriters
  <2>2. Spared({})
    BY <1>4, <2>1 DEF Spared
  <2>3. FileTypes'
    BY <1>1, <1>2, <1>3, <1>4 DEF FileTypes
  <2>4. Said'
    BY <1>4, <2>1 DEF FileInv, Said, SaidOf, Unsure
  <2>5. Distinct' /\ ReadersPlain'
    BY <1>4 DEF FileInv, Distinct, ReadersPlain
  <2>6. QED
    BY <2>2, <2>3, <2>4, <2>5 DEF FileInv, Spared
<1>5. ASSUME dir[n] = none, NEW i \in Free, Create(n, i), fp' = [fp EXCEPT ![h] = Opened(i, "w")]
      PROVE  FileInv' /\ Spared({i})
  <2> DEFINE mode == "w"
  <2>1. mode \in {"w", "m"} /\ fp' \in { fp, [fp EXCEPT ![h] = Opened(i, mode)] }
    BY <1>5
  <2> HIDE DEF mode
  <2>2. QED
    BY <1>1, <1>3, <1>5, <2>1, Created
<1>6. ASSUME dir[n] # none, Truncate(dir[n]), fp' = [fp EXCEPT ![h] = Opened(dir[n], "w")]
      PROVE  FileInv' /\ Spared({dir[n]})
  <2> DEFINE j == dir[n]
             mode == "w"
  <2>1. j \in Inodes
    BY <1>2, <1>6 DEF FileTypes
  <2>2. /\ data' = [data EXCEPT ![j] = <<>>] /\ told' = [told EXCEPT ![j] = <<>>] /\ dir' = dir
        /\ doubted' = IF Writers(j) = {} THEN doubted \ {j} ELSE doubted \union {j}
        /\ lost' = lost \ {j}
    BY <1>6 DEF Truncate
  <2>3. /\ data \in [Inodes -> Seq(Bytes)] /\ told \in [Inodes -> Seq(Bytes)]
        /\ doubted \subseteq Inodes /\ lost \subseteq Inodes /\ <<>> \in Seq(Bytes)
    BY <1>2 DEF FileTypes
  <2>4. data'[j] = <<>> /\ told'[j] = <<>>
    BY <2>1, <2>2, <2>3
  <2>5. mode \in {"r", "w", "m"} /\ mode # "r" /\ fp' = [fp EXCEPT ![h] = Opened(j, mode)]
    BY <1>6
  <2>6. Leads(n, j)
    BY <2>2 DEF Leads
  <2> HIDE DEF j, mode
  <2>7. OpensOn(h, j, mode)
    BY <1>1, <2>1, <2>2, <2>3, <2>5 DEF OpensOn
  <2>8. SaysOf(j, mode)
    BY <2>1, <2>2, <2>4 DEF SaysOf, Unsure
  <2>9. FileInv' /\ Spared({j})
    BY <1>1, <1>3, <2>1, <2>5, <2>6, <2>7, <2>8, OpenedOn
  <2>10. QED
    BY <2>9 DEF j
<1>7. QED
  BY <1>1, <1>4, <1>5, <1>6 DEF Spared

LEMMA OpenedToModify ==
  ASSUME FileInv, NEW n \in Names, NEW h \in Files, doOpenModify(n, h)
  PROVE  FileInv' /\ Spared({dir[n]} \union Free)
<1>1. /\ h \in Files \ Open /\ UNCHANGED <<folders, pend>>
      /\ IF dir[n] = none
         THEN \E i \in Free : /\ Create(n, i)
                              /\ fp' \in { fp, [fp EXCEPT ![h] = Opened(i, "m")] }
         ELSE /\ fp' = [fp EXCEPT ![h] = Opened(dir[n], "m")]
              /\ doubted' = IF Writers(dir[n]) = {} THEN doubted ELSE doubted \union {dir[n]}
              /\ UNCHANGED <<dir, data, told, lost>>
  BY DEF doOpenModify
<1>2. FileTypes
  BY DEF FileInv
<1>3. folders' \subseteq UNION { FoldersOf[m] : m \in Names }
  BY <1>1, <1>2 DEF FileTypes
<1>4. ASSUME dir[n] = none, NEW i \in Free, Create(n, i),
             fp' \in { fp, [fp EXCEPT ![h] = Opened(i, "m")] }
      PROVE  FileInv' /\ Spared({i})
  <2> DEFINE mode == "m"
  <2>1. mode \in {"w", "m"} /\ fp' \in { fp, [fp EXCEPT ![h] = Opened(i, mode)] }
    BY <1>4
  <2> HIDE DEF mode
  <2>2. pend' = pend
    BY <1>1
  <2>3. QED
    BY <1>1, <1>3, <1>4, <2>1, <2>2, Created
<1>5. ASSUME dir[n] # none
      PROVE  FileInv' /\ Spared({dir[n]})
  <2> DEFINE j == dir[n]
             mode == "m"
  <2>1. j \in Inodes /\ j \notin Free
    BY <1>2, <1>5 DEF FileTypes, Free
  <2>2. /\ data' = data /\ told' = told /\ dir' = dir /\ lost' = lost
        /\ doubted' = IF Writers(j) = {} THEN doubted ELSE doubted \union {j}
        /\ fp' = [fp EXCEPT ![h] = Opened(j, mode)] /\ pend' = pend
    BY <1>1, <1>5
  <2>3. /\ data \in [Inodes -> Seq(Bytes)] /\ told \in [Inodes -> Seq(Bytes)]
        /\ doubted \subseteq Inodes /\ lost \subseteq Inodes
    BY <1>2 DEF FileTypes
  <2>4. mode \in {"r", "w", "m"} /\ mode # "r"
    OBVIOUS
  <2>5. Leads(n, j)
    BY <2>2 DEF Leads
  <2> HIDE DEF j, mode
  <2>6. OpensOn(h, j, mode)
    BY <2>1, <2>2, <2>3 DEF OpensOn
  <2>7. SaysOf(j, mode)
    <3>1. ASSUME j \notin Unsure'
          PROVE  Writers(j) = {} /\ data'[j] = told'[j]
      <4>1. Writers(j) = {} /\ j \notin Unsure
        BY <2>2, <3>1 DEF Unsure
      <4>2. data[j] = told[j]
        BY <2>1, <4>1 DEF FileInv, Said, SaidOf
      <4>3. QED
        BY <2>2, <4>1, <4>2
    <3>2. QED
      BY <3>1 DEF SaysOf
  <2>8. FileInv' /\ Spared({j})
    BY <1>1, <1>3, <2>1, <2>4, <2>5, <2>6, <2>7, OpenedOn
  <2>9. QED
    BY <2>8 DEF j
<1>6. QED
  BY <1>1, <1>4, <1>5 DEF Spared

-----------------------------------------------------------------------------
\* Names that go and come

\* Some names lost their inode or took another name's; nothing else happened
\* to files.
Renames ==
  /\ UNCHANGED <<folders, data, fp, told, doubted, lost>>
  /\ \/ dir' = dir
     \/ \E n \in Names : dir' = Removed(dir, n)
     \/ \E from, to \in Names : dir' = Moved(dir, from, to)

LEMMA RenamedFrom ==
  ASSUME FileTypes, NEW from \in Names, NEW to \in Names, dir' = Moved(dir, from, to)
  PROVE  \/ dir' = dir
         \/ /\ dir[from] # none /\ from # to
            /\ dir'[to] = dir[from] /\ dir'[from] = none
            /\ \A n \in Names \ {from, to} : dir'[n] = dir[n]
<1>1. dir \in [Names -> Inodes \union {none}]
  BY DEF FileTypes
<1>2. CASE dir[from] = none \/ ~Reachable(to) \/ dir[from] = dir[to]
  BY <1>2 DEF Moved
<1>3. CASE ~ (dir[from] = none \/ ~Reachable(to) \/ dir[from] = dir[to])
  <2>1. dir' = [dir EXCEPT ![to] = dir[from], ![from] = none]
    BY <1>3 DEF Moved
  <2>2. from # to
    BY <1>3
  <2>3. QED
    BY <1>1, <1>3, <2>1, <2>2
<1>4. QED
  BY <1>2, <1>3

LEMMA Renamed ==
  ASSUME FileInv, Renames, pend' \in { <<>> } \union Names \X Names
  PROVE  FileInv' /\ \A i \in Inodes : Writers(i)' = Writers(i)
<1>1. FileTypes /\ Distinct /\ ReadersPlain /\ Said
  BY DEF FileInv
<1>2. dir \in [Names -> Inodes \union {none}] /\ UNCHANGED <<folders, data, fp, told, doubted, lost>>
  BY <1>1 DEF FileTypes, Renames
<1>3. /\ dir' \in [Names -> Inodes \union {none}]
      /\ \A n \in Names : dir'[n] # none => \E m \in Names : dir[m] = dir'[n]
      /\ Distinct'
  <2>1. CASE dir' = dir
    BY <1>1, <1>2, <2>1 DEF Distinct
  <2>2. ASSUME NEW n \in Names, dir' = Removed(dir, n)
        PROVE  <1>3!1 /\ <1>3!2 /\ <1>3!3
    <3>1. dir' = [dir EXCEPT ![n] = none]
      BY <2>2 DEF Removed
    <3>2. dir'[n] = none /\ \A m \in Names : m # n => dir'[m] = dir[m]
      BY <1>2, <3>1
    <3>3. dir' \in [Names -> Inodes \union {none}]
      BY <1>2, <3>1
    <3>4. Distinct'
      BY <1>1, <3>2 DEF Distinct
    <3>5. QED
      BY <3>2, <3>3, <3>4
  <2>3. ASSUME NEW from \in Names, NEW to \in Names, dir' = Moved(dir, from, to)
        PROVE  <1>3!1 /\ <1>3!2 /\ <1>3!3
    <3>1. CASE dir' = dir
      BY <2>1, <3>1
    <3>2. CASE /\ dir[from] # none /\ from # to
               /\ dir'[to] = dir[from] /\ dir'[from] = none
               /\ \A n \in Names \ {from, to} : dir'[n] = dir[n]
      <4>1. dir' \in [Names -> Inodes \union {none}]
        BY <1>2, <2>3 DEF Moved
      <4>2. Distinct'
        BY <1>1, <3>2 DEF Distinct
      <4>3. QED
        BY <3>2, <4>1, <4>2
    <3>3. QED
      BY <1>1, <2>3, <3>1, <3>2, RenamedFrom
  <2>4. QED
    BY <2>1, <2>2, <2>3 DEF Renames
<1>4. \A i \in Inodes : Writers(i)' = Writers(i)
  BY <1>2 DEF Writers
<1>5. Free \subseteq Free'
  <2>1. ASSUME NEW i \in Free
        PROVE  i \in Free'
    <3>1. i \in Inodes /\ (\A m \in Names : dir[m] # i) /\ (\A g \in Files : fp[g].ino # i)
      BY DEF Free
    <3>2. \A n \in Names : dir'[n] # i
      BY <1>3, <3>1, NoneIsNoInode
    <3>3. QED
      BY <1>2, <3>1, <3>2 DEF Free
  <2>2. QED
    BY <2>1
<1>6. FileTypes'
  BY <1>1, <1>2, <1>3 DEF FileTypes
<1>7. ReadersPlain'
  BY <1>1, <1>2 DEF ReadersPlain
<1>8. ASSUME NEW i \in Inodes \ Free', i \notin Unsure'
      PROVE  SaidOf(i)'
  <2>1. SaidOf(i)
    BY <1>1, <1>2, <1>5, <1>8 DEF Said, Unsure
  <2>2. QED
    BY <1>2, <1>4, <2>1 DEF SaidOf
<1>9. QED
  BY <1>3, <1>4, <1>6, <1>7, <1>8 DEF FileInv, Said

-----------------------------------------------------------------------------
\* The files that the VM looks for

\* Inodes that the VM may find stay whole and unwritten.
LEMMA StillGood ==
  ASSUME NEW i \in Inodes, NEW S, i \notin S, Good(i), Spared(S)
  PROVE  Good(i)'
BY DEF Good, Spared

\* A call on an open FILE, and the end of the process.
LEMMA KeptByUses ==
  ASSUME KeptAreGood, Spared({}), dir' = dir, pend' \in { pend, <<>> }
  PROVE  KeptAreGood'
<1>1. ASSUME NEW n \in Names, NEW i \in Inodes, Kept(n)', dir'[n] = i
      PROVE  Good(i)'
  <2>1. Kept(n)
    BY <1>1 DEF Kept
  <2>2. Good(i)
    BY <1>1, <2>1 DEF KeptAreGood
  <2>3. QED
    BY <2>2, StillGood
<1>2. QED
  BY <1>1 DEF KeptAreGood

\* A file of the application's own is opened to be written, or made.
LEMMA KeptByOpens ==
  ASSUME FileInv, KeptAreGood, pend = <<>>, pend' = <<>>, NEW n \in Own,
         NEW S, S = {dir[n]} \union Free, Spared(S),
         \A m \in Names : m # n => dir'[m] = dir[m]
  PROVE  KeptAreGood'
<1>1. ASSUME NEW m \in Names, NEW i \in Inodes, Kept(m)', dir'[m] = i
      PROVE  Good(i)'
  <2>1. Kept(m)
    BY <1>1 DEF Kept
  <2>2. m # n /\ n \in Names
    BY <2>1, NameFacts DEF Kept
  <2>3. dir[m] = i
    BY <1>1, <2>2
  <2>4. Good(i)
    BY <1>1, <2>1, <2>3 DEF KeptAreGood
  <2>5. i # dir[n] /\ i \notin Free
    BY <1>1, <2>2, <2>3, NoneIsNoInode DEF FileInv, Distinct, Free
  <2>6. i \notin S
    BY <2>5
  <2>7. QED
    BY <2>4, <2>6, StillGood
<1>2. QED
  BY <1>1 DEF KeptAreGood

\* Names change: every name that is kept now leads where a good one led.
LEMMA KeptByRenames ==
  ASSUME FileInv, Renames, pend' \in { <<>> } \union Names \X Names,
         \A n \in Names, i \in Inodes : Kept(n)' /\ dir'[n] = i => Good(i)
  PROVE  KeptAreGood'
<1>1. \A i \in Inodes : Writers(i)' = Writers(i)
  BY Renamed
<1>2. data' = data /\ lost' = lost
  BY DEF Renames
<1>3. ASSUME NEW n \in Names, NEW i \in Inodes, Kept(n)', dir'[n] = i
      PROVE  Good(i)'
  <2>1. Good(i)
    BY <1>3
  <2>2. QED
    BY <1>1, <1>2, <2>1 DEF Good
<1>4. QED
  BY <1>3 DEF KeptAreGood

\* A file that may be staged is whole, as far as the natives said.
LEMMA StagedIsGood ==
  ASSUME FileInv, NEW n \in Names, MayStage(n)
  PROVE  dir[n] # none /\ Good(dir[n])
<1>1. /\ dir[n] # none /\ Writers(dir[n]) = {} /\ dir[n] \notin doubted
      /\ Len(told[dir[n]]) = ImageSize
  BY DEF MayStage
<1>2. dir[n] \in Inodes \ Free
  BY <1>1 DEF FileInv, FileTypes, Free
<1>3. dir[n] \notin lost => data[dir[n]] = told[dir[n]]
  BY <1>1, <1>2 DEF FileInv, Said, SaidOf, Unsure
<1>4. QED
  BY <1>1, <1>3 DEF Good

-----------------------------------------------------------------------------
\* What happens to files while the process runs

\* An unfinished rename of the application's: of a file of its own, to a name
\* that is not an installed file's.
OwnRename(p) == p # <<>> => p[1] \in Own /\ p[2] \in Names \ Staged

\* The invariant of files holds on, the installed files keep their names, and
\* an unfinished rename is the application's.
FilesHold ==
  /\ FileInv' /\ KeptAreGood'
  /\ \A f \in Staged : dir'[f] = dir[f]
  /\ OwnRename(pend')

LEMMA FilesUnchanged ==
  ASSUME FileInv, KeptAreGood, UNCHANGED fileVars
  PROVE  FileInv' /\ KeptAreGood'
<1>1. UNCHANGED <<dir, folders, data, fp, pend, told, doubted, lost>>
  BY DEF fileVars
<1>2. Free' = Free /\ \A i \in Inodes : Writers(i)' = Writers(i)
  BY <1>1, SameWriters
<1>3. FileTypes' /\ Distinct' /\ ReadersPlain'
  BY <1>1 DEF FileInv, FileTypes, Distinct, ReadersPlain
<1>4. Said'
  BY <1>1, <1>2 DEF FileInv, Said, SaidOf, Unsure
<1>5. Spared({})
  BY <1>1, <1>2 DEF Spared
<1>6. KeptAreGood'
  BY <1>1, <1>5, KeptByUses
<1>7. QED
  BY <1>3, <1>4, <1>6 DEF FileInv

LEMMA LibraryHolds ==
  ASSUME FileInv, KeptAreGood, OwnRename(pend), NEW h \in Files, StdioDrains(h)
  PROVE  FilesHold
<1>1. FileInv' /\ Spared({})
  BY Drained
<1>2. dir' = dir /\ pend' = pend
  BY DEF StdioDrains
<1>3. KeptAreGood'
  BY <1>1, <1>2, KeptByUses
<1>4. QED
  BY <1>1, <1>2, <1>3 DEF FilesHold

LEMMA UsesHold ==
  ASSUME FileInv, KeptAreGood, OwnRename(pend), AppUses
  PROVE  FilesHold
<1>1. ASSUME FileInv', Spared({}), dir' = dir, pend' = pend
      PROVE  FilesHold
  <2>1. KeptAreGood'
    BY <1>1, KeptByUses
  <2>2. QED
    BY <1>1, <2>1 DEF FilesHold
<1>2. ASSUME NEW h \in Files, NEW len \in 1 .. 2, doRead(h, len)
      PROVE  FilesHold
  <2>1. FileInv' /\ Spared({})
    BY <1>2, ReadFrom
  <2>2. dir' = dir /\ pend' = pend
    BY <1>2 DEF doRead
  <2>3. QED
    BY <1>1, <2>1, <2>2
<1>3. ASSUME NEW h \in Files, NEW bs \in Blocks, doWrite(h, bs)
      PROVE  FilesHold
  <2>1. bs \in Seq(Nat)
    BY FileAssumption DEF FileAssumption
  <2>2. FileInv' /\ Spared({})
    BY <1>3, <2>1, Written
  <2>3. dir' = dir /\ pend' = pend
    BY <1>3 DEF doWrite, Puts, Refused
  <2>4. QED
    BY <1>1, <2>2, <2>3
<1>4. ASSUME NEW h \in Files, NEW pos \in 0 .. MaxSize, doSeek(h, pos)
      PROVE  FilesHold
  <2>1. pos \in Nat
    OBVIOUS
  <2>2. FileInv' /\ Spared({})
    BY <1>4, <2>1, SoughtIn
  <2>3. dir' = dir /\ pend' = pend
    BY <1>4 DEF doSeek, Moves, Refused
  <2>4. QED
    BY <1>1, <2>2, <2>3
<1>5. ASSUME NEW h \in Files, doFlush(h)
      PROVE  FilesHold
  BY <1>5, LibraryHolds DEF doFlush
<1>6. ASSUME NEW h \in Files, doClose(h)
      PROVE  FilesHold
  <2>1. FileInv' /\ Spared({})
    BY <1>6, OneClosed
  <2>2. dir' = dir /\ pend' = pend
    BY <1>6 DEF doClose
  <2>3. QED
    BY <1>1, <2>1, <2>2
<1>7. QED
  BY <1>2, <1>3, <1>4, <1>5, <1>6 DEF AppUses

LEMMA OpensHold ==
  ASSUME FileInv, KeptAreGood, pend = <<>>, AppOpens
  PROVE  FilesHold
<1>1. ASSUME NEW n \in Names, NEW h \in Files, doOpenRead(n, h)
      PROVE  FilesHold
  <2>1. FileInv' /\ Spared({})
    BY <1>1, OpenedToRead
  <2>2. dir' = dir /\ pend' = pend
    BY <1>1 DEF doOpenRead
  <2>3. KeptAreGood'
    BY <2>1, <2>2, KeptByUses
  <2>4. QED
    BY <2>1, <2>2, <2>3 DEF FilesHold, OwnRename
<1>2. ASSUME NEW n \in Own, NEW h \in Files, FileInv', Spared({dir[n]} \union Free), pend' = pend,
             \A m \in Names : m # n => dir'[m] = dir[m]
      PROVE  FilesHold
  <2>1. KeptAreGood'
    BY <1>2, KeptByOpens
  <2>2. \A f \in Staged : f \in Names /\ f # n
    BY NameFacts
  <2>3. QED
    BY <1>2, <2>1, <2>2 DEF FilesHold, OwnRename
<1>3. \A n \in Own : n \in Names
  BY NameFacts
<1>4. dir \in [Names -> Inodes \union {none}]
  BY DEF FileInv, FileTypes
<1>5. ASSUME NEW n \in Own, NEW h \in Files, doOpenWrite(n, h)
      PROVE  FilesHold
  <2>1. FileInv' /\ Spared({dir[n]} \union Free)
    BY <1>3, <1>5, OpenedToWrite
  <2>2. pend' = pend /\ \A m \in Names : m # n => dir'[m] = dir[m]
    BY <1>3, <1>4, <1>5 DEF doOpenWrite, Create, Truncate
  <2>3. QED
    BY <1>2, <2>1, <2>2
<1>6. ASSUME NEW n \in Own, NEW h \in Files, doOpenModify(n, h)
      PROVE  FilesHold
  <2>1. FileInv' /\ Spared({dir[n]} \union Free)
    BY <1>3, <1>6, OpenedToModify
  <2>2. pend' = pend /\ \A m \in Names : m # n => dir'[m] = dir[m]
    BY <1>3, <1>4, <1>6 DEF doOpenModify, Create
  <2>3. QED
    BY <1>2, <2>1, <2>2
<1>7. QED
  BY <1>1, <1>5, <1>6 DEF AppOpens

\* A file leads the way of FileStore.rename, or takes it in one step.
LEMMA RenamesHold ==
  ASSUME FileInv, KeptAreGood, pend = <<>>, AppRenames
  PROVE  FilesHold
<1>1. PICK from \in Own, to \in Names \ Staged :
        /\ to \in Own \/ MayStage(from)
        /\ renameRemoves(from, to) \/ File_rename(from, to)
  BY DEF AppRenames
<1>2. from \in Names \ Staged /\ \A f \in Staged : f \in Names /\ StageOf[f] # from
  BY NameFacts
<1>3. FileTypes
  BY DEF FileInv
<1>4. dir \in [Names -> Inodes \union {none}]
  BY <1>3 DEF FileTypes
<1>5. \A i \in Inodes : to \notin Own /\ dir[from] = i => Good(i)
  BY <1>1, <1>2, StagedIsGood
<1>6. CASE renameRemoves(from, to)
  <2>1. /\ dir' = Removed(dir, to) /\ pend' = <<from, to>>
        /\ UNCHANGED <<folders, data, fp, told, doubted, lost>>
    BY <1>6 DEF renameRemoves
  <2>2. dir'[to] = none /\ \A n \in Names : n # to => dir'[n] = dir[n]
    BY <1>4, <2>1 DEF Removed
  <2>3. Renames
    BY <2>1 DEF Renames
  <2>4. pend' # <<>> /\ pend'[1] = from /\ pend'[2] = to /\ pend' \in Names \X Names
    BY <1>2, <2>1
  <2>5. FileInv'
    BY <2>3, <2>4, Renamed
  <2>6. ASSUME NEW n \in Names, NEW i \in Inodes, Kept(n)', dir'[n] = i
        PROVE  Good(i)
    <3>1. dir[n] = i
      BY <2>2, <2>6, NoneIsNoInode
    <3>2. Kept(n) \/ (n = from /\ to \notin Own)
      BY <2>4, <2>6 DEF Kept
    <3>3. QED
      BY <1>5, <3>1, <3>2 DEF KeptAreGood
  <2>7. KeptAreGood'
    BY <2>3, <2>4, <2>6, KeptByRenames
  <2>8. QED
    BY <1>2, <2>2, <2>4, <2>5, <2>7 DEF FilesHold, OwnRename
<1>7. CASE File_rename(from, to)
  <2>1. dir' = Moved(dir, from, to) /\ pend' = pend /\ UNCHANGED <<folders, data, fp, told, doubted, lost>>
    BY <1>7 DEF File_rename
  <2>2. Renames
    BY <1>2, <2>1 DEF Renames
  <2>3. \/ dir' = dir
        \/ /\ dir'[to] = dir[from] /\ dir'[from] = none
           /\ \A n \in Names \ {from, to} : dir'[n] = dir[n]
    BY <1>2, <1>3, <2>1, RenamedFrom
  <2>4. FileInv'
    BY <2>1, <2>2, Renamed
  <2>5. ASSUME NEW n \in Names, NEW i \in Inodes, Kept(n)', dir'[n] = i
        PROVE  Good(i)
    <3>1. Kept(n) /\ n \notin Own
      BY <2>1, <2>5, NameFacts DEF Kept
    <3>2. dir[n] = i \/ (n = to /\ dir[from] = i)
      BY <2>3, <2>5, NoneIsNoInode
    <3>3. QED
      BY <1>5, <3>1, <3>2 DEF KeptAreGood
  <2>6. KeptAreGood'
    BY <2>1, <2>2, <2>5, KeptByRenames
  <2>7. QED
    BY <1>2, <2>1, <2>3, <2>4, <2>6 DEF FilesHold, OwnRename
<1>8. QED
  BY <1>1, <1>6, <1>7

LEMMA MovesHold ==
  ASSUME FileInv, KeptAreGood, OwnRename(pend), renameMoves
  PROVE  FilesHold
<1>1. /\ pend # <<>> /\ dir' \in { dir, Moved(dir, pend[1], pend[2]) } /\ pend' = <<>>
      /\ UNCHANGED <<folders, data, fp, told, doubted, lost>>
  BY DEF renameMoves
<1>2. PICK from \in Own, to \in Names \ Staged : from = pend[1] /\ to = pend[2]
  BY <1>1 DEF OwnRename
<1>3. from \in Names \ Staged /\ \A f \in Staged : f \in Names /\ StageOf[f] # from
  BY NameFacts
<1>4. FileTypes
  BY DEF FileInv
<1>5. dir' = dir \/ dir' = Moved(dir, from, to)
  BY <1>1, <1>2
<1>6. Renames
  BY <1>1, <1>3, <1>5 DEF Renames
<1>7. \/ dir' = dir
      \/ /\ dir'[to] = dir[from] /\ dir'[from] = none
         /\ \A n \in Names \ {from, to} : dir'[n] = dir[n]
  BY <1>3, <1>4, <1>5, RenamedFrom
<1>8. FileInv'
  BY <1>1, <1>6, Renamed
<1>9. ASSUME NEW n \in Names, NEW i \in Inodes, Kept(n)', dir'[n] = i
      PROVE  Good(i)
  <2>1. Kept(n) /\ n \notin Own
    BY <1>1, <1>9, NameFacts DEF Kept
  <2>2. dir[n] = i \/ (n = to /\ dir[from] = i)
    BY <1>7, <1>9, NoneIsNoInode
  <2>3. n = to => Kept(from)
    BY <1>1, <1>2, <2>1 DEF Kept
  <2>4. QED
    BY <1>3, <2>1, <2>2, <2>3 DEF KeptAreGood
<1>10. KeptAreGood'
  BY <1>1, <1>6, <1>9, KeptByRenames
<1>11. QED
  BY <1>1, <1>3, <1>7, <1>8, <1>10 DEF FilesHold, OwnRename

-----------------------------------------------------------------------------
\* The steps of the process

LEMMA FromIInv ==
  ASSUME IInv
  PROVE  FileInv /\ FileTypes /\ ProcTypes /\ KeptAreGood /\ Pending /\ Present /\ OwnRename(pend)
BY Types DEF IInv, FileInv, Pending, OwnRename

LEMMA ToIInv ==
  ASSUME FileInv', KeptAreGood', ProcTypes', Pending', Present'
  PROVE  IInv'
<1>1. FileTypes'
  BY DEF FileInv
<1>2. TypeOK'
  BY <1>1 DEF TypeOK, FileTypes, ProcTypes, FILE
<1>3. QED
  BY <1>2 DEF IInv, FileInv

\* A step of the process that leaves files alone.
LEMMA Beside ==
  ASSUME IInv, UNCHANGED fileVars, ProcTypes', Pending', Present'
  PROVE  IInv'
BY FilesUnchanged, FromIInv, ToIInv

LEMMA StartHolds ==
  ASSUME IInv, Start
  PROVE  IInv'
<1>1. /\ pc = "off" /\ pc' = (IF plat THEN "check" ELSE "load") /\ file' = scode /\ runs' = 0
      /\ size' = 0 /\ UNCHANGED <<plat, failed>> /\ UNCHANGED fileVars
      /\ dir' = dir /\ pend' = pend
  BY DEF Start, fileVars
<1>2. ProcTypes /\ Pending /\ Present
  BY FromIInv
<1>3. ProcTypes'
  BY <1>1, <1>2, NameFacts DEF ProcTypes
<1>4. Pending'
  BY <1>1, <1>2 DEF Pending
<1>5. Present'
  BY <1>1, <1>2, NameFacts DEF Present, StagedIsRun
<1>6. QED
  BY <1>1, <1>3, <1>4, <1>5, Beside

LEMMA CheckHolds ==
  ASSUME IInv, checkStaged
  PROVE  IInv'
<1>1. /\ pc = "check" /\ UNCHANGED <<plat, size, runs, failed>> /\ UNCHANGED fileVars
      /\ dir' = dir /\ pend' = pend
      /\ IF dir[StageOf[file]] = none
         THEN IF file = scode THEN file' = app /\ pc' = "check" ELSE pc' = "load" /\ file' = file
         ELSE pc' = "remove" /\ file' = file
  BY DEF checkStaged, Checked, Goes, fileVars
<1>2. ProcTypes /\ Pending /\ Present
  BY FromIInv
<1>3. ProcTypes'
  BY <1>1, <1>2, NameFacts DEF ProcTypes
<1>4. Pending'
  BY <1>1, <1>2 DEF Pending
<1>5. file \in Staged /\ (file = scode \/ file = app)
  BY <1>2, NameFacts DEF ProcTypes
<1>6. Present'
  BY <1>1, <1>2, <1>5, NameFacts DEF Present, StagedIsRun
<1>7. QED
  BY <1>1, <1>3, <1>4, <1>6, Beside

\* What a change of a staged file's names leaves true.
LEMMA StagesMove ==
  ASSUME IInv, dir' = Removed(dir, file) \/ dir' = Moved(dir, StageOf[file], file) \/ dir' = dir,
         UNCHANGED <<folders, data, fp, pend, told, doubted, lost>>
  PROVE  FileInv' /\ KeptAreGood'
<1>1. FileInv /\ FileTypes /\ KeptAreGood /\ ProcTypes
  BY FromIInv
<1>2. file \in Staged /\ file \in Names /\ StageOf[file] \in Names
  BY <1>1, NameFacts DEF ProcTypes
<1>3. Renames
  BY <1>2 DEF Renames
<1>4. pend' \in { <<>> } \union Names \X Names
  BY <1>1 DEF FileTypes
<1>5. FileInv'
  BY <1>1, <1>3, <1>4, Renamed
<1>6. \/ \A n \in Names : dir'[n] = dir[n] \/ dir'[n] = none
      \/ dir'[file] = dir[StageOf[file]]
           /\ \A n \in Names : n # file => dir'[n] = dir[n] \/ dir'[n] = none
  <2>1. CASE dir' = Removed(dir, file)
    BY <1>1, <1>2, <2>1 DEF Removed, FileTypes
  <2>2. CASE dir' = Moved(dir, StageOf[file], file)
    BY <1>1, <1>2, <2>2, RenamedFrom
  <2>3. QED
    BY <2>1, <2>2
<1>7. ASSUME NEW n \in Names, NEW i \in Inodes, Kept(n)', dir'[n] = i
      PROVE  Good(i)
  <2>1. Kept(n) /\ Kept(StageOf[file])
    BY <1>2, <1>7 DEF Kept
  <2>2. dir[n] = i \/ dir[StageOf[file]] = i
    BY <1>6, <1>7, NoneIsNoInode
  <2>3. QED
    BY <1>1, <1>2, <2>1, <2>2 DEF KeptAreGood
<1>8. KeptAreGood'
  BY <1>1, <1>3, <1>4, <1>7, KeptByRenames
<1>9. QED
  BY <1>5, <1>8

LEMMA RemoveHolds ==
  ASSUME IInv, checkStaged_remove
  PROVE  IInv'
<1>1. /\ pc = "remove" /\ pc' = "rename" /\ UNCHANGED <<plat, file, size, runs, failed>>
      /\ dir' = dir \/ dir' = Removed(dir, file)
      /\ UNCHANGED <<folders, data, fp, pend, told, doubted, lost>>
  BY DEF checkStaged_remove, Goes
<1>2. FileTypes /\ ProcTypes /\ Pending /\ Present
  BY FromIInv
<1>3. FileInv' /\ KeptAreGood'
  BY <1>1, StagesMove
<1>4. ProcTypes'
  BY <1>1, <1>2 DEF ProcTypes
<1>5. Pending'
  BY <1>1, <1>2 DEF Pending
<1>6. /\ file \in Staged /\ file \in Names /\ plat
      /\ \A n \in Names : n # file => dir'[n] = dir[n]
  BY <1>1, <1>2, NameFacts DEF Removed, FileTypes, ProcTypes, Pending
<1>7. \A f \in Staged : dir'[StageOf[f]] = dir[StageOf[f]] /\ (f # file => dir'[f] = dir[f])
  BY <1>6, NameFacts
<1>8. Present'
  BY <1>1, <1>2, <1>6, <1>7, NameFacts DEF Present, StagedIsRun
<1>9. QED
  BY <1>3, <1>4, <1>5, <1>8, ToIInv

LEMMA RenameHolds ==
  ASSUME IInv, checkStaged_rename
  PROVE  IInv'
<1>1. /\ pc = "rename" /\ UNCHANGED <<plat, size, runs>>
      /\ IF file = scode THEN file' = app /\ pc' = "check" ELSE pc' = "load" /\ file' = file
      /\ \/ dir' = Moved(dir, StageOf[file], file) /\ failed' = failed
         \/ dir' = dir /\ failed' = TRUE
      /\ UNCHANGED <<folders, data, fp, pend, told, doubted, lost>>
  BY DEF checkStaged_rename, Checked
<1>2. FileInv /\ FileTypes /\ ProcTypes /\ Pending /\ Present
  BY FromIInv
<1>3. FileInv' /\ KeptAreGood'
  BY <1>1, StagesMove
<1>4. ProcTypes'
  BY <1>1, <1>2, NameFacts DEF ProcTypes
<1>5. Pending'
  BY <1>1, <1>2 DEF Pending
<1>6. file \in Staged /\ (file = scode \/ file = app) /\ plat
  BY <1>1, <1>2, NameFacts DEF ProcTypes, Pending
<1>7. ASSUME ~failed'
      PROVE  /\ dir'[file] # none /\ dir'[StageOf[file]] = none /\ ~failed
             /\ \A n \in Names \ {file, StageOf[file]} : dir'[n] = dir[n]
  <2>1. ~failed /\ dir' = Moved(dir, StageOf[file], file) /\ dir[StageOf[file]] # none
    BY <1>1, <1>2, <1>7 DEF Present
  <2>2. file \in Names /\ StageOf[file] \in Names /\ StageOf[file] # file /\ Reachable(file)
    BY <1>6, NameFacts DEF Reachable
  <2>3. dir[StageOf[file]] # dir[file]
    BY <1>2, <2>1, <2>2 DEF FileInv, Distinct
  <2>4. dir' = [dir EXCEPT ![file] = dir[StageOf[file]], ![StageOf[file]] = none]
    BY <2>1, <2>2, <2>3 DEF Moved
  <2>5. QED
    BY <1>2, <2>1, <2>2, <2>4 DEF FileTypes
<1>8. ASSUME ~failed'
      PROVE  \A f \in Staged : f # file => dir'[f] = dir[f] /\ dir'[StageOf[f]] = dir[StageOf[f]]
  BY <1>6, <1>7, <1>8, NameFacts
<1>9. Present'
  BY <1>1, <1>2, <1>6, <1>7, <1>8, NameFacts DEF Present, StagedIsRun
<1>10. QED
  BY <1>3, <1>4, <1>5, <1>9, ToIInv

LEMMA LoadHolds ==
  ASSUME IInv, commonVmSetup
  PROVE  IInv'
<1>1. /\ pc = "load" /\ pc' \in { "init", "exit" } /\ UNCHANGED <<plat, file, runs, failed>>
      /\ size' = size \/ (dir[scode] # none /\ size' = Len(data[dir[scode]]))
      /\ UNCHANGED fileVars /\ dir' = dir /\ pend' = pend
  BY DEF commonVmSetup, loadFile, Goes, fileVars
<1>2. FileTypes /\ ProcTypes /\ Pending /\ Present
  BY FromIInv
<1>3. size' \in Nat
  <2>1. CASE size' = size
    BY <1>2, <2>1 DEF ProcTypes
  <2>2. CASE dir[scode] # none /\ size' = Len(data[dir[scode]])
    <3>1. dir[scode] \in Inodes
      BY <1>2, <2>2, NameFacts DEF FileTypes
    <3>2. data[dir[scode]] \in Seq(Bytes)
      BY <1>2, <3>1 DEF FileTypes
    <3>3. QED
      BY <2>2, <3>2
  <2>3. QED
    BY <1>1, <2>1, <2>2
<1>4. ProcTypes'
  BY <1>1, <1>2, <1>3 DEF ProcTypes
<1>5. Pending'
  BY <1>1, <1>2 DEF Pending
<1>6. Present'
  BY <1>1, <1>2 DEF Present, StagedIsRun
<1>7. QED
  BY <1>1, <1>4, <1>5, <1>6, Beside

LEMMA RunHolds ==
  ASSUME IInv, vmRun
  PROVE  IInv'
<1>1. /\ pc = "init" /\ UNCHANGED <<plat, file, size, failed>>
      /\ (pc' = "run" /\ runs' = runs + 1) \/ (pc' = "exit" /\ runs' = runs)
      /\ UNCHANGED fileVars /\ dir' = dir /\ pend' = pend
  BY DEF vmRun, Goes, fileVars
<1>2. ProcTypes /\ Pending /\ Present
  BY FromIInv
<1>3. ProcTypes'
  BY <1>1, <1>2 DEF ProcTypes
<1>4. Pending'
  BY <1>1, <1>2 DEF Pending
<1>5. Present'
  BY <1>1, <1>2 DEF Present, StagedIsRun
<1>6. QED
  BY <1>1, <1>3, <1>4, <1>5, Beside

LEMMA ReturnHolds ==
  ASSUME IInv, mainReturns
  PROVE  IInv'
<1>1. /\ pc = "run" /\ pend = <<>> /\ UNCHANGED <<plat, size, runs, failed>>
      /\ \/ pc' \in { "run", "exit" } /\ file' = file
         \/ plat /\ pc' = "check" /\ file' = scode
      /\ UNCHANGED fileVars /\ dir' = dir /\ pend' = pend
  BY DEF mainReturns, runInPlatformMode, runInStandaloneMode, Goes, fileVars
<1>2. ProcTypes /\ Pending /\ Present
  BY FromIInv
<1>3. ProcTypes'
  BY <1>1, <1>2, NameFacts DEF ProcTypes
<1>4. Pending'
  BY <1>1, <1>2 DEF Pending
<1>5. Present'
  BY <1>1, <1>2, NameFacts DEF Present, StagedIsRun
<1>6. QED
  BY <1>1, <1>3, <1>4, <1>5, Beside

LEMMA VmExitHolds ==
  ASSUME IInv, vmExit
  PROVE  IInv'
<1>1. /\ pc' = "exit" /\ UNCHANGED <<plat, file, size, runs, failed>>
      /\ UNCHANGED fileVars /\ dir' = dir /\ pend' = pend
  BY DEF vmExit, Goes, fileVars
<1>2. ProcTypes /\ Pending /\ Present
  BY FromIInv
<1>3. ProcTypes'
  BY <1>1, <1>2 DEF ProcTypes
<1>4. Pending'
  BY <1>1, <1>2 DEF Pending
<1>5. Present'
  BY <1>1, <1>2 DEF Present, StagedIsRun
<1>6. QED
  BY <1>1, <1>3, <1>4, <1>5, Beside

LEMMA EndHolds ==
  ASSUME IInv, Exit \/ Kill
  PROVE  IInv'
<1>1. Exited \/ Killed
  BY DEF Exit, Kill
<1>2. /\ pc' = "off" /\ UNCHANGED <<plat, file, size, runs, failed>>
      /\ dir' = dir /\ pend' = <<>>
  BY DEF Exit, Kill, Goes, Exited, Killed
<1>3. FileInv /\ KeptAreGood /\ ProcTypes /\ Pending /\ Present
  BY FromIInv
<1>4. FileInv' /\ Spared({})
  BY <1>1, <1>3, ExitCloses, KillCloses
<1>5. KeptAreGood'
  BY <1>2, <1>3, <1>4, KeptByUses
<1>6. ProcTypes'
  BY <1>2, <1>3 DEF ProcTypes
<1>7. Pending'
  BY <1>2 DEF Pending
<1>8. Present'
  BY <1>2, <1>3 DEF Present, StagedIsRun
<1>9. QED
  BY <1>4, <1>5, <1>6, <1>7, <1>8, ToIInv

LEMMA RunningHolds ==
  ASSUME IInv, Application
  PROVE  IInv'
<1>1. pc = "run" /\ UNCHANGED <<pc, plat, file, size, runs, failed>>
  BY DEF Application, AppOpens, AppUses, AppRenames, procVars
<1>2. /\ FileInv /\ KeptAreGood /\ ProcTypes /\ Pending /\ Present /\ OwnRename(pend)
  BY FromIInv
<1>3. FilesHold
  <2>1. CASE pend # <<>>
    BY <1>2, <2>1, MovesHold DEF Application
  <2>2. CASE pend = <<>>
    BY <1>2, <2>2, OpensHold, UsesHold, RenamesHold DEF Application
  <2>3. QED
    BY <2>1, <2>2
<1>4. FileInv' /\ KeptAreGood' /\ (\A f \in Staged : dir'[f] = dir[f]) /\ OwnRename(pend')
  BY <1>3 DEF FilesHold
<1>5. ProcTypes'
  BY <1>1, <1>2 DEF ProcTypes
<1>6. Pending'
  BY <1>1, <1>4 DEF Pending, OwnRename
<1>7. Present'
  BY <1>1, <1>2, <1>4 DEF Present, StagedIsRun
<1>8. QED
  BY <1>4, <1>5, <1>6, <1>7, ToIInv

LEMMA DrainHolds ==
  ASSUME IInv, Library
  PROVE  IInv'
<1>1. /\ UNCHANGED <<pc, plat, file, size, runs, failed>>
      /\ \E h \in Files : StdioDrains(h) /\ dir' = dir /\ pend' = pend
  BY DEF Library, procVars, StdioDrains
<1>2. FileInv /\ KeptAreGood /\ ProcTypes /\ Pending /\ Present /\ OwnRename(pend)
  BY FromIInv
<1>3. FileInv' /\ KeptAreGood'
  BY <1>1, <1>2, LibraryHolds DEF FilesHold
<1>4. ProcTypes'
  BY <1>1, <1>2 DEF ProcTypes
<1>5. Pending'
  BY <1>1, <1>2 DEF Pending
<1>6. Present'
  BY <1>1, <1>2 DEF Present, StagedIsRun
<1>7. QED
  BY <1>3, <1>4, <1>5, <1>6, ToIInv

-----------------------------------------------------------------------------
\* Theorems

\* When the process is started for the first time, image and application are
\* there under their own names, whole, and nothing else is.
LEMMA Initially ==
  ASSUME Init
  PROVE  IInv
<1> DEFINE image == [k \in 1 .. ImageSize |-> 1]
<1>1. /\ dir \in [Names -> Inodes \union {none}] /\ (\A n \in Names : dir[n] # none <=> n \in Staged)
      /\ dir[scode] # dir[app] /\ folders = {} /\ pend = <<>> /\ told = data
      /\ doubted = {} /\ lost = {}
      /\ fp = [h \in Files |-> Closed]
      /\ data = [i \in Inodes |-> IF i \in { dir[scode], dir[app] } THEN image ELSE <<>>]
  BY DEF Init
<1>2. /\ pc = "off" /\ file = scode /\ plat \in BOOLEAN /\ size = 0 /\ runs = 0 /\ failed = FALSE
  BY DEF Init
<1>3. image \in Seq(Bytes) /\ Len(image) = ImageSize
  <2>1. ImageSize \in Nat /\ 1 \in Bytes
    BY PlatformAssumption, FileAssumption DEF PlatformAssumption, FileAssumption, Bytes
  <2>2. image \in [1 .. ImageSize -> Bytes]
    BY <2>1
  <2>3. QED
    BY <2>1, <2>2
<1> HIDE DEF image
<1>4. /\ \A h \in Files : fp[h] = Closed
      /\ Closed \in FILE /\ Closed.ino = none /\ Closed.mode = "r" /\ Closed.buf = <<>>
      /\ Closed.pos = 0
  BY <1>1, ClosedFile
<1>5. FileTypes
  <2>1. data \in [Inodes -> Seq(Bytes)]
    <3>1. <<>> \in Seq(Bytes)
      OBVIOUS
    <3>2. QED
      BY <1>1, <1>3, <3>1
  <2>2. fp \in [Files -> FILE] /\ \A h \in Files : Len(fp[h].buf) <= fp[h].pos
    BY <1>1, <1>4
  <2>3. QED
    BY <1>1, <2>1, <2>2 DEF FileTypes
<1>6. Distinct
  BY <1>1, NameFacts DEF Distinct
<1>7. ReadersPlain
  BY <1>4 DEF ReadersPlain
<1>8. \A i \in Inodes : Writers(i) = {}
  BY <1>4 DEF Writers
<1>9. Said
  BY <1>1, <1>8 DEF Said, SaidOf
<1>10. KeptAreGood
  <2>1. ASSUME NEW n \in Names, NEW i \in Inodes, dir[n] = i
        PROVE  Good(i)
    <3>1. n = scode \/ n = app
      BY <1>1, <2>1, NameFacts, NoneIsNoInode
    <3>2. data[i] = image
      BY <1>1, <2>1, <3>1
    <3>3. QED
      BY <1>3, <1>8, <3>2 DEF Good
  <2>2. QED
    BY <2>1 DEF KeptAreGood
<1>11. ProcTypes
  BY <1>2, NameFacts DEF ProcTypes
<1>12. Pending
  BY <1>1, <1>2 DEF Pending
<1>13. Present
  BY <1>1, <1>2, NameFacts DEF Present, StagedIsRun
<1>14. QED
  BY <1>5, <1>6, <1>7, <1>9, <1>10, <1>11, <1>12, <1>13, Types DEF IInv

LEMMA Invariance == IInv /\ [Next]_vars => IInv'
<1> SUFFICES ASSUME IInv, [Next]_vars
             PROVE  IInv'
  OBVIOUS
<1>1. CASE UNCHANGED vars
  <2>1. UNCHANGED fileVars /\ UNCHANGED procVars
    BY <1>1 DEF vars
  <2>2. dir' = dir /\ pend' = pend /\ UNCHANGED <<pc, plat, file, size, runs, failed>>
    BY <2>1 DEF fileVars, procVars
  <2>3. ProcTypes' /\ Pending' /\ Present'
    BY <2>2, FromIInv DEF ProcTypes, Pending, Present, StagedIsRun
  <2>4. QED
    BY <2>1, <2>3, Beside
<1>2. CASE Start
  BY <1>2, StartHolds
<1>3. CASE checkStaged
  BY <1>3, CheckHolds
<1>4. CASE checkStaged_remove
  BY <1>4, RemoveHolds
<1>5. CASE checkStaged_rename
  BY <1>5, RenameHolds
<1>6. CASE commonVmSetup
  BY <1>6, LoadHolds
<1>7. CASE vmRun
  BY <1>7, RunHolds
<1>8. CASE mainReturns
  BY <1>8, ReturnHolds
<1>9. CASE vmExit
  BY <1>9, VmExitHolds
<1>10. CASE Exit \/ Kill
  BY <1>10, EndHolds
<1>11. CASE Application
  BY <1>11, RunningHolds
<1>12. CASE Library
  BY <1>12, DrainHolds
<1>13. QED
  BY <1>1, <1>2, <1>3, <1>4, <1>5, <1>6, <1>7, <1>8, <1>9, <1>10, <1>11, <1>12 DEF Next

LEMMA Always == Spec => []IInv
<1>1. Init => IInv
  BY Initially
<1>2. QED
  BY <1>1, Invariance, PTL DEF Spec

\* Variables keep their range; no buffer is longer than its position.
THEOREM TypeCorrect == Spec => []TypeOK
<1>1. IInv => TypeOK
  BY DEF IInv
<1>2. QED
  BY <1>1, Always, PTL

\* Wherever main.c is killed, the next start finds image and application, and
\* whole but for bytes lost without a word, unless the rename of a staged file
\* failed.
THEOREM FilesAreWhole == Spec => []Recoverable
<1>1. ASSUME IInv, ~failed, NEW f \in Staged
      PROVE  NextFile(f) # none /\ (NextFile(f) \notin lost => Len(data[NextFile(f)]) = ImageSize)
  <2>1. FileTypes /\ KeptAreGood /\ Present
    BY <1>1, FromIInv
  <2>2. dir[f] # none \/ dir[StageOf[f]] # none
    BY <1>1, <2>1 DEF Present
  <2>3. PICK n \in {f, StageOf[f]} : NextFile(f) = dir[n] /\ dir[n] # none
    BY <2>2 DEF NextFile
  <2>4. n \in Names /\ Kept(n)
    BY NameFacts DEF Kept
  <2>5. dir[n] \in Inodes
    BY <2>1, <2>3, <2>4 DEF FileTypes
  <2>6. Good(dir[n])
    BY <2>1, <2>4, <2>5 DEF KeptAreGood
  <2>7. QED
    BY <2>3, <2>6 DEF Good
<1>2. IInv => Recoverable
  BY <1>1 DEF Recoverable
<1>3. QED
  BY <1>2, Always, PTL

\* checkStaged leaves nothing staged behind before the image is loaded.
THEOREM NothingStaysStaged == Spec => []StagedIsRun
<1>1. IInv => StagedIsRun
  BY DEF IInv, Present, StagedIsRun
<1>2. QED
  BY <1>1, Always, PTL

\* What the natives said of a file is in it once nobody writes it any more,
\* unless bytes of it were lost without a word.
THEOREM ClosedFilesKeep == Spec => []ClosedMeansKept
<1>1. IInv => ClosedMeansKept
  BY DEF IInv, Said, SaidOf, Unsure, ClosedMeansKept
<1>2. QED
  BY <1>1, Always, PTL

=============================================================================
