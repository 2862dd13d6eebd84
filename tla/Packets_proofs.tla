--------------------------- MODULE Packets_proofs ---------------------------
(***************************************************************************)
(* Proofs about module Packets, for all items, estimates, commands and     *)
(* bounds.  The inductive invariant says what the blocks hold: a packet    *)
(* holds its header and what was appended to it, a part of a list what was *)
(* appended to the part.                                                   *)
(***************************************************************************)
EXTENDS Packets, SequenceTheorems, Recursion, TLAPS

Writing == { "part of answer", "part of events", "answer", "composite" }

Sending == { "answer", "composite" }

\* From position start on, q holds the bytes b and nothing more.
Holds(q, start, b) ==
  /\ q.offset = start + Len(b)
  /\ \A k \in 1 .. Len(b) : q.data[start + k - 1] = b[k]

\* A list of packets, with what each of them holds.
Lists(plist, contents) ==
  /\ \E S : plist \in Seq(S) /\ \A q \in S : IsPacket(q)
  /\ contents \in Seq(Seq(Byte))
  /\ Len(plist) = Len(contents)
  /\ \A k \in 1 .. Len(plist) : Holds(plist[k], 0, contents[k])

\* The bytes from ID_POS on.
HasId(q, id) ==
  /\ q.data[4] = id[1] /\ q.data[5] = id[2]
  /\ q.data[6] = id[3] /\ q.data[7] = id[4]

IsId(id) == id \in Seq(Byte) /\ Len(id) = 4

\* Id, flags and two more bytes.
IsAsked(h) == h \in Seq(Byte) /\ Len(h) = 7

HasHeader(q, h) ==
  /\ HasId(q, h)
  /\ q.data[8] = h[5] /\ q.data[9] = h[6] /\ q.data[10] = h[7]

Flow ==
  /\ todo # <<>> => pc \in Writing
  /\ rest # <<>> => pc \in Sending /\ list = <<>> /\ todo = <<>>

Headed ==
  pc \in Sending =>
    /\ IsAsked(head)
    /\ HasHeader(p, head)
    /\ p.length >= MIN_PACKET_SIZE

Appends ==
  pc \in Writing => Holds(p, IF pc \in Sending THEN MIN_PACKET_SIZE ELSE 0, body)

Parts ==
  /\ rest = <<>> => Lists(list, parts)
  /\ rest # <<>> => Lists(rest, parts)

Reads ==
  /\ req \in Requests
  /\ pc \in { "handle", "part of answer" } =>
       /\ in.length \in Nat
       /\ in.length >= MIN_PACKET_SIZE
       /\ HasId(in, req.id)

IInv ==
  /\ TypeOK
  /\ InBlock
  /\ SentAsWritten
  /\ Flow
  /\ Headed
  /\ Appends
  /\ Parts
  /\ Reads

-----------------------------------------------------------------------------
\* Blocks

LEMMA NewRaw ==
  ASSUME NEW n \in Nat
  PROVE  IsPacket(newRawPacket(n)) /\ newRawPacket(n).length = n /\ newRawPacket(n).offset = 0
BY DEF newRawPacket, IsPacket, Unset

\* realloc keeps what the block held.
LEMMA Realloc ==
  ASSUME NEW q, IsPacket(q), NEW n \in Nat, n >= q.length
  PROVE  /\ IsPacket(realloc(q, n))
         /\ realloc(q, n).length = n
         /\ realloc(q, n).offset = q.offset
         /\ \A i \in 0 .. q.length - 1 : realloc(q, n).data[i] = q.data[i]
<1> DEFINE r == realloc(q, n)
           d == [i \in 0 .. n - 1 |-> IF i < q.length THEN q.data[i] ELSE Unset]
<1>1. q.length \in Nat /\ q.offset \in Nat /\ q.offset <= q.length
  BY DEF IsPacket
<1>2. \A i \in 0 .. q.length - 1 : q.data[i] \in Byte \cup {Unset}
  BY DEF IsPacket
<1>3. \A i \in 0 .. n - 1 : d[i] = IF i < q.length THEN q.data[i] ELSE Unset
  OBVIOUS
<1>4. d \in [0 .. n - 1 -> Byte \cup {Unset}]
  BY <1>1, <1>2
<1>5. r.length = n /\ r.offset = q.offset /\ r.data = d
  BY DEF realloc
<1> HIDE DEF d, r
<1>6. IsPacket(r)
  BY <1>1, <1>4, <1>5 DEF IsPacket
<1>7. \A i \in 0 .. q.length - 1 : d[i] = q.data[i]
  BY <1>1, <1>3
<1>8. QED
  BY <1>5, <1>6, <1>7 DEF r

\* ensurePacketCap makes room for n bytes and keeps what the block held.
LEMMA Ensure ==
  ASSUME NEW q, IsPacket(q), NEW n \in Nat
  PROVE  LET e == ensurePacketCap(q, n)
         IN  /\ IsPacket(e)
             /\ e.offset = q.offset
             /\ e.length >= q.length
             /\ e.offset + n <= e.length
             /\ \A i \in 0 .. q.length - 1 : e.data[i] = q.data[i]
<1>1. q.length \in Nat /\ q.offset \in Nat /\ q.offset <= q.length
  BY DEF IsPacket
<1>2. CASE q.offset + n >= q.length
  <2>1. n + 2 * q.length \in Nat /\ n + 2 * q.length >= q.length
    BY <1>1
  <2>2. ensurePacketCap(q, n) = realloc(q, n + 2 * q.length)
    BY <1>2 DEF ensurePacketCap
  <2>3. QED
    BY <1>1, <2>1, <2>2, Realloc
<1>3. CASE ~ (q.offset + n >= q.length)
  <2>1. ensurePacketCap(q, n) = q
    BY <1>3 DEF ensurePacketCap
  <2>2. QED
    BY <1>1, <1>3, <2>1
<1>4. QED
  BY <1>2, <1>3

LEMMA Store ==
  ASSUME NEW q, IsPacket(q), NEW at \in Nat, NEW new \in Seq(Byte)
  PROVE  LET s == Stored(q, at, new)
         IN  /\ IsPacket(s)
             /\ s.length = q.length
             /\ s.offset = q.offset
             /\ \A i \in 0 .. q.length - 1 :
                  i < at \/ i >= at + Len(new) => s.data[i] = q.data[i]
             /\ \A k \in 1 .. Len(new) : at + k - 1 < q.length => s.data[at + k - 1] = new[k]
<1> DEFINE s == Stored(q, at, new)
           d == [i \in 0 .. q.length - 1 |->
                   IF i - at + 1 \in 1 .. Len(new) THEN new[i - at + 1] ELSE q.data[i]]
<1>1. Len(new) \in Nat /\ \A k \in 1 .. Len(new) : new[k] \in Byte
  OBVIOUS
<1>2. q.length \in Nat /\ q.offset \in 0 .. q.length
  BY DEF IsPacket
<1>3. \A i \in 0 .. q.length - 1 : q.data[i] \in Byte \cup {Unset}
  BY DEF IsPacket
<1>4. \A i \in 0 .. q.length - 1 :
        d[i] = IF i - at + 1 \in 1 .. Len(new) THEN new[i - at + 1] ELSE q.data[i]
  OBVIOUS
<1>5. d \in [0 .. q.length - 1 -> Byte \cup {Unset}]
  <2>1. \A i \in 0 .. q.length - 1 : d[i] \in Byte \cup {Unset}
    BY <1>1, <1>3, <1>4
  <2>2. QED
    BY <2>1
<1>6. s.length = q.length /\ s.offset = q.offset /\ s.data = d
  BY DEF Stored
<1> HIDE DEF d, s
<1>7. IsPacket(s)
  BY <1>2, <1>5, <1>6 DEF IsPacket
<1>8. ASSUME NEW i \in 0 .. q.length - 1, i < at \/ i >= at + Len(new)
      PROVE  d[i] = q.data[i]
  <2>1. ~ (i - at + 1 \in 1 .. Len(new))
    BY <1>1, <1>8
  <2>2. QED
    BY <1>4, <2>1
<1>9. ASSUME NEW k \in 1 .. Len(new), at + k - 1 < q.length
      PROVE  d[at + k - 1] = new[k]
  <2> DEFINE i == at + k - 1
  <2>1. i \in 0 .. q.length - 1 /\ i - at + 1 = k
    BY <1>1, <1>2, <1>9
  <2> HIDE DEF i
  <2>2. d[i] = new[i - at + 1]
    BY <1>4, <2>1
  <2>3. QED
    BY <2>1, <2>2 DEF i
<1>10. QED
  BY <1>6, <1>7, <1>8, <1>9 DEF s

\* A writer appends its word, whatever the block held, and stays inside it.
LEMMA Append1 ==
  ASSUME NEW q, IsPacket(q), NEW word \in Seq(Byte)
  PROVE  LET a == Appended(q, word)
         IN  /\ IsPacket(a)
             /\ a.offset = q.offset + Len(word)
             /\ a.length >= q.length
             /\ AppendFits(q, word)
             /\ \A i \in 0 .. q.offset - 1 : a.data[i] = q.data[i]
             /\ \A k \in 1 .. Len(word) : a.data[q.offset + k - 1] = word[k]
<1> DEFINE e == ensurePacketCap(q, Len(word))
           s == Stored(e, e.offset, word)
<1>1. Len(word) \in Nat
  OBVIOUS
<1>2. /\ IsPacket(e) /\ e.offset = q.offset /\ e.length >= q.length
      /\ e.offset + Len(word) <= e.length
      /\ \A i \in 0 .. q.length - 1 : e.data[i] = q.data[i]
  BY <1>1, Ensure
<1>3. q.length \in Nat /\ q.offset \in Nat /\ q.offset <= q.length /\ e.length \in Nat
  BY <1>2 DEF IsPacket
<1>4. /\ IsPacket(s) /\ s.length = e.length /\ s.offset = e.offset
      /\ \A i \in 0 .. e.length - 1 :
           i < e.offset \/ i >= e.offset + Len(word) => s.data[i] = e.data[i]
      /\ \A k \in 1 .. Len(word) :
           e.offset + k - 1 < e.length => s.data[e.offset + k - 1] = word[k]
  <2> HIDE DEF e
  <2>1. e.offset \in Nat
    BY <1>2, <1>3
  <2>2. QED
    BY <1>2, <2>1, Store
<1>5. Appended(q, word) = Moved(s, e.offset + Len(word))
  BY DEF Appended
<1> HIDE DEF e, s
<1>6. IsPacket(Moved(s, e.offset + Len(word)))
  BY <1>1, <1>2, <1>3, <1>4 DEF IsPacket, Moved
<1>7. AppendFits(q, word)
  BY <1>2 DEF AppendFits, Fits, e
<1>8. \A i \in 0 .. q.offset - 1 : s.data[i] = q.data[i]
  BY <1>1, <1>2, <1>3, <1>4
<1>9. \A k \in 1 .. Len(word) : s.data[q.offset + k - 1] = word[k]
  BY <1>1, <1>2, <1>3, <1>4
<1>10. QED
  BY <1>1, <1>2, <1>3, <1>4, <1>5, <1>6, <1>7, <1>8, <1>9 DEF Moved
-----------------------------------------------------------------------------
\* Packets with a header

\* One byte is written.
LEMMA StoreByte ==
  ASSUME NEW q, IsPacket(q), NEW at \in Nat, NEW v \in Byte
  PROVE  LET s == Stored(q, at, <<v>>)
         IN  /\ IsPacket(s)
             /\ s.length = q.length
             /\ at < q.length => s.data[at] = v
             /\ \A i \in 0 .. q.length - 1 : i # at => s.data[i] = q.data[i]
<1> DEFINE w == <<v>>
           s == Stored(q, at, w)
<1>1. q.length \in Nat
  BY DEF IsPacket
<1>0. w \in Seq(Byte)
  OBVIOUS
<1>2. Len(w) = 1 /\ w[1] = v
  OBVIOUS
<1> HIDE DEF w
<1>3. /\ IsPacket(s) /\ s.length = q.length
      /\ \A i \in 0 .. q.length - 1 : i < at \/ i >= at + Len(w) => s.data[i] = q.data[i]
      /\ \A k \in 1 .. Len(w) : at + k - 1 < q.length => s.data[at + k - 1] = w[k]
  BY <1>0, Store, ZenonT(60)
<1> HIDE DEF s
<1>4. ASSUME at < q.length
      PROVE  s.data[at] = v
  <2>1. 1 \in 1 .. Len(w) /\ at + 1 - 1 < q.length /\ at + 1 - 1 = at
    BY <1>1, <1>2, <1>4
  <2>2. QED
    BY <1>2, <1>3, <2>1
<1>5. ASSUME NEW i \in 0 .. q.length - 1, i # at
      PROVE  s.data[i] = q.data[i]
  BY <1>1, <1>2, <1>3, <1>5
<1>6. QED
  BY <1>3, <1>4, <1>5 DEF s, w

LEMMA FourBytes ==
  ASSUME NEW id \in [1 .. 4 -> Byte]
  PROVE  IsId(id)
<1>1. id \in UNION { [1 .. n -> Byte] : n \in Nat }
  OBVIOUS
<1>2. id \in Seq(Byte)
  BY <1>1, SeqDef
<1>3. QED
  BY <1>2, LenProperties DEF IsId

LEMMA StoreId ==
  ASSUME NEW q, IsPacket(q), NEW id, IsId(id)
  PROVE  LET s == Stored(q, ID_POS, id)
         IN  /\ IsPacket(s)
             /\ s.length = q.length
             /\ q.length >= MIN_PACKET_SIZE => HasId(s, id)
             /\ \A i \in 0 .. q.length - 1 : i < 4 \/ i >= 8 => s.data[i] = q.data[i]
<1> DEFINE at == ID_POS
           s == Stored(q, at, id)
<1>0. at \in Nat /\ id \in Seq(Byte)
  BY DEF ID_POS, IsId
<1>1. at = 4 /\ Len(id) = 4
  BY DEF ID_POS, IsId
<1>2. q.length \in Nat
  BY DEF IsPacket
<1> HIDE DEF at
<1>3. /\ IsPacket(s) /\ s.length = q.length
      /\ \A i \in 0 .. q.length - 1 : i < at \/ i >= at + Len(id) => s.data[i] = q.data[i]
      /\ \A k \in 1 .. Len(id) : at + k - 1 < q.length => s.data[at + k - 1] = id[k]
  BY <1>0, Store
<1> HIDE DEF s
<1>4. ASSUME q.length >= MIN_PACKET_SIZE
      PROVE  s.data[4] = id[1] /\ s.data[5] = id[2] /\ s.data[6] = id[3] /\ s.data[7] = id[4]
  BY <1>1, <1>2, <1>3, <1>4 DEF MIN_PACKET_SIZE
<1>5. q.length >= MIN_PACKET_SIZE => HasId(s, id)
  BY <1>4 DEF HasId
<1>6. QED
  BY <1>1, <1>3, <1>5 DEF s, at

\* The bytes after the length of an answer are its id, its flags and 0, 0.
LEMMA ReplyHeader ==
  ASSUME NEW id, IsId(id), NEW n \in Nat
  PROVE  LET r == newReplyPacket(id, n)
         IN  /\ IsPacket(r)
             /\ r.offset = MIN_PACKET_SIZE
             /\ r.length = n + MIN_PACKET_SIZE
             /\ HasId(r, id)
             /\ r.data[8] = REPLY_FLAG /\ r.data[9] = 0 /\ r.data[10] = 0
<1> DEFINE a == newPacket(n)
           b == Stored(a, ID_POS, id)
           c == Stored(b, FLAGS_POS, <<REPLY_FLAG>>)
           d == Stored(c, ERROR_CODE_POS, << 0, 0 >>)
<1>1. IsPacket(a) /\ a.length = n + 11 /\ a.length >= MIN_PACKET_SIZE
  BY NewRaw DEF newPacket, MIN_PACKET_SIZE
<1>2. newReplyPacket(id, n) = Moved(d, MIN_PACKET_SIZE)
  BY DEF newReplyPacket
<1> HIDE DEF a
<1>3. IsPacket(b) /\ b.length = n + 11 /\ HasId(b, id)
  BY <1>1, StoreId
<1> HIDE DEF b
<1>4. IsPacket(c) /\ c.length = n + 11 /\ HasId(c, id) /\ c.data[8] = REPLY_FLAG
  <2>0. IsPacket(b)
    BY <1>3
  <2>1. FLAGS_POS \in Nat /\ REPLY_FLAG \in Byte
    BY DEF FLAGS_POS, REPLY_FLAG, Byte
  <2>2. /\ IsPacket(c) /\ c.length = b.length
        /\ FLAGS_POS < b.length => c.data[FLAGS_POS] = REPLY_FLAG
        /\ \A i \in 0 .. b.length - 1 : i # FLAGS_POS => c.data[i] = b.data[i]
    BY <2>0, <2>1, StoreByte
  <2> HIDE DEF c
  <2>3. QED
    BY <1>3, <2>2 DEF HasId, FLAGS_POS
<1> HIDE DEF c
<1>5. /\ IsPacket(d) /\ d.length = n + 11 /\ HasId(d, id)
      /\ d.data[8] = REPLY_FLAG /\ d.data[9] = 0 /\ d.data[10] = 0
  <2> DEFINE z == << 0, 0 >>
             at == ERROR_CODE_POS
             s == Stored(c, at, z)
  <2>0. z \in Seq(Byte) /\ at \in Nat
    BY DEF Byte, ERROR_CODE_POS
  <2>1. Len(z) = 2 /\ z[1] = 0 /\ z[2] = 0 /\ at = 9
    BY DEF ERROR_CODE_POS
  <2>4a. IsPacket(c)
    BY <1>4
  <2> HIDE DEF z, at
  <2>2. /\ IsPacket(s) /\ s.length = c.length
        /\ \A i \in 0 .. c.length - 1 : i < at \/ i >= at + Len(z) => s.data[i] = c.data[i]
        /\ \A k \in 1 .. Len(z) : at + k - 1 < c.length => s.data[at + k - 1] = z[k]
    BY <2>0, <2>4a, Store, SMTT(60)
  <2> HIDE DEF s
  <2>3. s.data[9] = 0 /\ s.data[10] = 0
    BY <1>4, <2>1, <2>2
  <2>4. HasId(s, id) /\ s.data[8] = REPLY_FLAG
    BY <1>4, <2>1, <2>2 DEF HasId
  <2>5. QED
    BY <1>4, <2>2, <2>3, <2>4 DEF s, z, at
<1> HIDE DEF d
<1>6. IsPacket(Moved(d, MIN_PACKET_SIZE)) /\ HasId(Moved(d, MIN_PACKET_SIZE), id)
  BY <1>5 DEF Moved, MIN_PACKET_SIZE, IsPacket, HasId
<1>7. QED
  BY <1>2, <1>5, <1>6 DEF Moved, MIN_PACKET_SIZE

LEMMA CommandHeader ==
  ASSUME NEW id, IsId(id), NEW n \in Nat
  PROVE  LET r == newCommandPacket(id, n, 100, 64)
         IN  /\ IsPacket(r)
             /\ r.offset = MIN_PACKET_SIZE
             /\ r.length = n + MIN_PACKET_SIZE
             /\ HasId(r, id)
             /\ r.data[8] = CMD_FLAG /\ r.data[9] = 64 /\ r.data[10] = 100
<1> DEFINE a == newPacket(n)
           b == Stored(a, ID_POS, id)
           c == Stored(b, COMMAND_POS, <<100>>)
           d == Stored(c, COMMAND_SET_POS, <<64>>)
           e == Stored(d, FLAGS_POS, <<CMD_FLAG>>)
<1>1. IsPacket(a) /\ a.length = n + 11 /\ a.length >= MIN_PACKET_SIZE
  BY NewRaw DEF newPacket, MIN_PACKET_SIZE
<1>2. newCommandPacket(id, n, 100, 64) = Moved(e, MIN_PACKET_SIZE)
  BY DEF newCommandPacket
<1> HIDE DEF a
<1>3. IsPacket(b) /\ b.length = n + 11 /\ HasId(b, id)
  BY <1>1, StoreId
<1> HIDE DEF b
<1>4. IsPacket(c) /\ c.length = n + 11 /\ HasId(c, id) /\ c.data[10] = 100
  <2>0. IsPacket(b)
    BY <1>3
  <2>1. COMMAND_POS \in Nat /\ 100 \in Byte
    BY DEF COMMAND_POS, Byte
  <2>2. /\ IsPacket(c) /\ c.length = b.length
        /\ COMMAND_POS < b.length => c.data[COMMAND_POS] = 100
        /\ \A i \in 0 .. b.length - 1 : i # COMMAND_POS => c.data[i] = b.data[i]
    BY <2>0, <2>1, StoreByte, ZenonT(60)
  <2> HIDE DEF c
  <2>3. QED
    BY <1>3, <2>2 DEF HasId, COMMAND_POS
<1> HIDE DEF c
<1>5. IsPacket(d) /\ d.length = n + 11 /\ HasId(d, id) /\ d.data[9] = 64 /\ d.data[10] = 100
  <2>0. IsPacket(c)
    BY <1>4
  <2>1. COMMAND_SET_POS \in Nat /\ 64 \in Byte
    BY DEF COMMAND_SET_POS, Byte
  <2>2. /\ IsPacket(d) /\ d.length = c.length
        /\ COMMAND_SET_POS < c.length => d.data[COMMAND_SET_POS] = 64
        /\ \A i \in 0 .. c.length - 1 : i # COMMAND_SET_POS => d.data[i] = c.data[i]
    BY <2>0, <2>1, StoreByte, ZenonT(60)
  <2> HIDE DEF d
  <2>3. QED
    BY <1>4, <2>2 DEF HasId, COMMAND_SET_POS
<1> HIDE DEF d
<1>6. /\ IsPacket(e) /\ e.length = n + 11 /\ HasId(e, id)
      /\ e.data[8] = CMD_FLAG /\ e.data[9] = 64 /\ e.data[10] = 100
  <2>0. IsPacket(d)
    BY <1>5
  <2>1. FLAGS_POS \in Nat /\ CMD_FLAG \in Byte
    BY DEF FLAGS_POS, Byte, CMD_FLAG
  <2>2. /\ IsPacket(e) /\ e.length = d.length
        /\ FLAGS_POS < d.length => e.data[FLAGS_POS] = CMD_FLAG
        /\ \A i \in 0 .. d.length - 1 : i # FLAGS_POS => e.data[i] = d.data[i]
    BY <2>0, <2>1, StoreByte
  <2> HIDE DEF e
  <2>3. QED
    BY <1>5, <2>2 DEF HasId, FLAGS_POS
<1> HIDE DEF e
<1>7. IsPacket(Moved(e, MIN_PACKET_SIZE)) /\ HasId(Moved(e, MIN_PACKET_SIZE), id)
  BY <1>6 DEF Moved, MIN_PACKET_SIZE, IsPacket, HasId
<1>8. QED
  BY <1>2, <1>6, <1>7 DEF Moved, MIN_PACKET_SIZE

\* What the fixed positions of a header hold is the sequence asked for.
LEMMA Asked ==
  ASSUME NEW id, IsId(id), NEW a \in Byte, NEW b \in Byte, NEW c \in Byte
  PROVE  LET h == id \o << a, b, c >>
         IN  /\ h \in Seq(Byte)
             /\ Len(h) = 7
             /\ h[1] = id[1] /\ h[2] = id[2] /\ h[3] = id[3] /\ h[4] = id[4]
             /\ h[5] = a /\ h[6] = b /\ h[7] = c
<1> DEFINE z == << a, b, c >>
           h == id \o z
<1>0. z \in Seq(Byte)
  OBVIOUS
<1>1. Len(z) = 3 /\ z[1] = a /\ z[2] = b /\ z[3] = c
  OBVIOUS
<1> HIDE DEF z
<1>a. id \in Seq(Byte) /\ Len(id) = 4
  BY DEF IsId
<1>2. /\ h \in Seq(Byte)
      /\ Len(h) = Len(id) + Len(z)
      /\ \A k \in 1 .. Len(id) + Len(z) :
           h[k] = IF k <= Len(id) THEN id[k] ELSE z[k - Len(id)]
  BY <1>0, <1>a, ConcatProperties
<1> HIDE DEF h
<1>3. h[1] = id[1] /\ h[2] = id[2] /\ h[3] = id[3] /\ h[4] = id[4]
  BY <1>1, <1>2, <1>a
<1>4. h[5] = z[1] /\ h[6] = z[2] /\ h[7] = z[3]
  BY <1>1, <1>2, <1>a
<1>5. QED
  BY <1>1, <1>2, <1>3, <1>4, <1>a DEF z, h

LEMMA ReadId ==
  ASSUME Reads, PacketsAssumption, pc = "handle"
  PROVE  read_id(in) = req.id /\ req.id \in [1 .. 4 -> Byte]
<1>1. req.id \in [1 .. 4 -> Byte]
  BY DEF Reads, PacketsAssumption
<1>2. in.length \in Nat /\ in.length >= 11 /\ HasId(in, req.id)
  BY DEF Reads, MIN_PACKET_SIZE
<1>3. \A k \in 1 .. 4 : read_id(in)[k] = in.data[4 + k - 1]
  BY <1>2 DEF read_id, WordFrom, ID_POS
<1>4. \A k \in 1 .. 4 : in.data[4 + k - 1] = req.id[k]
  <2>1. \A k \in 1 .. 4 : k = 1 \/ k = 2 \/ k = 3 \/ k = 4
    OBVIOUS
  <2>2. QED
    BY <1>2, <2>1 DEF HasId
<1>5. read_id(in) = [k \in 1 .. 4 |-> read_id(in)[k]]
  BY DEF read_id, WordFrom
<1>6. QED
  BY <1>1, <1>3, <1>4, <1>5

-----------------------------------------------------------------------------
\* The command that was received

Sized(q) == q.length \in Nat

\* Storing any words, bytes or not.
LEMMA StoreAny ==
  ASSUME NEW q, Sized(q), NEW at \in Nat, NEW new, Len(new) \in Nat
  PROVE  LET s == Stored(q, at, new)
         IN  /\ Sized(s)
             /\ s.length = q.length
             /\ s.offset = q.offset
             /\ \A i \in 0 .. q.length - 1 :
                  i < at \/ i >= at + Len(new) => s.data[i] = q.data[i]
             /\ \A k \in 1 .. Len(new) : at + k - 1 < q.length => s.data[at + k - 1] = new[k]
<1> DEFINE s == Stored(q, at, new)
           d == [i \in 0 .. q.length - 1 |->
                   IF i - at + 1 \in 1 .. Len(new) THEN new[i - at + 1] ELSE q.data[i]]
<1>2. q.length \in Nat
  BY DEF Sized
<1>4. \A i \in 0 .. q.length - 1 :
        d[i] = IF i - at + 1 \in 1 .. Len(new) THEN new[i - at + 1] ELSE q.data[i]
  OBVIOUS
<1>6. s.length = q.length /\ s.offset = q.offset /\ s.data = d
  BY DEF Stored
<1> HIDE DEF d, s
<1>8. ASSUME NEW i \in 0 .. q.length - 1, i < at \/ i >= at + Len(new)
      PROVE  d[i] = q.data[i]
  <2>1. ~ (i - at + 1 \in 1 .. Len(new))
    BY <1>8
  <2>2. QED
    BY <1>4, <2>1
<1>9. ASSUME NEW k \in 1 .. Len(new), at + k - 1 < q.length
      PROVE  d[at + k - 1] = new[k]
  <2> DEFINE i == at + k - 1
  <2>1. i \in 0 .. q.length - 1 /\ i - at + 1 = k
    BY <1>2, <1>9
  <2> HIDE DEF i
  <2>2. d[i] = new[i - at + 1]
    BY <1>4, <2>1
  <2>3. QED
    BY <2>1, <2>2 DEF i
<1>10. QED
  BY <1>2, <1>6, <1>8, <1>9 DEF s, Sized

LEMMA U4Bytes ==
  ASSUME NEW n \in Nat
  PROVE  U4(n) \in Seq(Nat) /\ Len(U4(n)) = 4
BY DEF U4

LEMMA IdNats ==
  ASSUME NEW id \in [1 .. 4 -> Byte]
  PROVE  id \in Seq(Nat) /\ Len(id) = 4
<1>1. id \in [1 .. 4 -> Nat]
  BY DEF Byte
<1>2. id \in UNION { [1 .. n -> Nat] : n \in Nat }
  BY <1>1
<1>3. id \in Seq(Nat)
  BY <1>2, SeqDef
<1>4. QED
  BY <1>3, LenProperties

\* A command keeps its id where answers look for it.
LEMMA CommandRead ==
  ASSUME PacketsAssumption, NEW r \in Requests
  PROVE  LET q == FromHeaderPayload(r)
         IN  /\ q.length \in Nat
             /\ q.length >= MIN_PACKET_SIZE
             /\ HasId(q, r.id)
<1> DEFINE size == MIN_PACKET_SIZE + Len(r.payload)
           z == << CMD_FLAG, 1, 1 >>
           g == U4(size) \o r.id
           header == g \o z
           a == newRawPacket(size)
           b == Stored(a, 0, header)
           c == Stored(b, DATA_VARIABLE_POS, r.payload)
<1>1. r.id \in [1 .. 4 -> Byte] /\ r.payload \in Seq(Byte)
  BY DEF PacketsAssumption
<1>2. size \in Nat /\ size >= 11
  BY <1>1 DEF MIN_PACKET_SIZE
<1>3. FromHeaderPayload(r) = Moved(c, DATA_VARIABLE_POS)
  BY DEF FromHeaderPayload
<1> HIDE DEF size
<1>4. Sized(a) /\ a.length = size
  BY <1>2 DEF newRawPacket, Sized
<1>5. z \in Seq(Nat) /\ Len(z) = 3
  BY DEF CMD_FLAG
<1> HIDE DEF z
<1>6. U4(size) \in Seq(Nat) /\ Len(U4(size)) = 4
  BY <1>2, U4Bytes
<1>7. r.id \in Seq(Nat) /\ Len(r.id) = 4
  BY <1>1, IdNats
<1>8. /\ g \in Seq(Nat) /\ Len(g) = Len(U4(size)) + Len(r.id)
      /\ \A k \in 1 .. Len(U4(size)) + Len(r.id) :
           g[k] = IF k <= Len(U4(size)) THEN U4(size)[k] ELSE r.id[k - Len(U4(size))]
  <2>1. U4(size) \in Seq(Nat) /\ r.id \in Seq(Nat)
    BY <1>6, <1>7
  <2>2. QED
    BY <2>1, ConcatProperties
<1> HIDE DEF g
<1>9. Len(g) = 8 /\ g[5] = r.id[1] /\ g[6] = r.id[2] /\ g[7] = r.id[3] /\ g[8] = r.id[4]
  BY <1>6, <1>7, <1>8
<1>10. /\ header \in Seq(Nat) /\ Len(header) = Len(g) + Len(z)
       /\ \A k \in 1 .. Len(g) + Len(z) :
            header[k] = IF k <= Len(g) THEN g[k] ELSE z[k - Len(g)]
  <2>1. g \in Seq(Nat) /\ z \in Seq(Nat)
    BY <1>8, <1>5
  <2>2. QED
    BY <2>1, ConcatProperties
<1> HIDE DEF header
<1>11. Len(header) = 11 /\ header[5] = r.id[1] /\ header[6] = r.id[2]
       /\ header[7] = r.id[3] /\ header[8] = r.id[4]
  BY <1>5, <1>9, <1>10
<1> HIDE DEF a
<1>12. /\ Sized(b) /\ b.length = a.length
       /\ \A k \in 1 .. Len(header) : 0 + k - 1 < a.length => b.data[0 + k - 1] = header[k]
  <2> DEFINE at == 0
  <2>1. at \in Nat /\ Len(header) \in Nat /\ Sized(a)
    BY <1>4, <1>10
  <2> HIDE DEF at
  <2>2. LET s == Stored(a, at, header)
        IN  /\ Sized(s) /\ s.length = a.length
            /\ \A k \in 1 .. Len(header) : at + k - 1 < a.length => s.data[at + k - 1] = header[k]
    BY <2>1, StoreAny
  <2>3. QED
    BY <2>2 DEF at
<1> HIDE DEF b
<1>13. b.data[4] = r.id[1] /\ b.data[5] = r.id[2] /\ b.data[6] = r.id[3] /\ b.data[7] = r.id[4]
  <2>1. \A k \in 1 .. 11 : b.data[k - 1] = header[k]
    BY <1>2, <1>4, <1>11, <1>12
  <2>2. b.data[5 - 1] = header[5] /\ b.data[6 - 1] = header[6]
        /\ b.data[7 - 1] = header[7] /\ b.data[8 - 1] = header[8]
    BY <2>1
  <2>3. QED
    BY <1>11, <2>2
<1>14. /\ Sized(c) /\ c.length = b.length
       /\ \A i \in 0 .. b.length - 1 : i < DATA_VARIABLE_POS => c.data[i] = b.data[i]
  <2>1. DATA_VARIABLE_POS \in Nat /\ Len(r.payload) \in Nat /\ Sized(b)
    BY <1>1, <1>12 DEF DATA_VARIABLE_POS
  <2>2. QED
    BY <2>1, StoreAny, SMTT(60)
<1> HIDE DEF c
<1>15. c.length \in Nat /\ c.length >= 11
  BY <1>2, <1>4, <1>12, <1>14
<1>16. HasId(c, r.id)
  BY <1>2, <1>4, <1>12, <1>13, <1>14 DEF HasId, DATA_VARIABLE_POS
<1>17. QED
  BY <1>3, <1>15, <1>16 DEF Moved, HasId, MIN_PACKET_SIZE

-----------------------------------------------------------------------------
\* What packets hold

\* What a writer or a copy does to what a packet holds.
LEMMA HoldsMore ==
  ASSUME NEW q, NEW a, NEW start \in Nat, NEW b \in Seq(Byte), NEW word \in Seq(Byte),
         Holds(q, start, b), a.offset = q.offset + Len(word),
         \A i \in 0 .. q.offset - 1 : a.data[i] = q.data[i],
         \A k \in 1 .. Len(word) : a.data[q.offset + k - 1] = word[k]
  PROVE  Holds(a, start, b \o word)
<1> DEFINE c == b \o word
<1>1. Len(b) \in Nat /\ Len(word) \in Nat
  OBVIOUS
<1>2. /\ Len(c) = Len(b) + Len(word)
      /\ \A k \in 1 .. Len(b) + Len(word) :
           c[k] = IF k <= Len(b) THEN b[k] ELSE word[k - Len(b)]
  BY ConcatProperties
<1> HIDE DEF c
<1>3. q.offset = start + Len(b) /\ \A k \in 1 .. Len(b) : q.data[start + k - 1] = b[k]
  BY DEF Holds
<1>4. a.offset = start + Len(c)
  BY <1>1, <1>2, <1>3
<1>5. ASSUME NEW k \in 1 .. Len(c)
      PROVE  a.data[start + k - 1] = c[k]
  <2>1. CASE k <= Len(b)
    <3>1. c[k] = b[k] /\ k \in 1 .. Len(b)
      BY <1>1, <1>2, <2>1
    <3>2. start + k - 1 \in 0 .. q.offset - 1
      BY <1>1, <1>3, <3>1
    <3>3. a.data[start + k - 1] = q.data[start + k - 1]
      BY <3>2
    <3>4. QED
      BY <1>3, <3>1, <3>3
  <2>2. CASE ~ (k <= Len(b))
    <3> DEFINE j == k - Len(b)
    <3>1. c[k] = word[j] /\ j \in 1 .. Len(word)
      BY <1>1, <1>2, <2>2
    <3>2. q.offset + j - 1 = start + k - 1
      BY <1>1, <1>3
    <3> HIDE DEF j
    <3>3. a.data[q.offset + j - 1] = word[j]
      BY <3>1
    <3>4. QED
      BY <3>1, <3>2, <3>3
  <2>3. QED
    BY <2>1, <2>2
<1>6. QED
  BY <1>4, <1>5 DEF Holds, c

\* What is copied out of a part is what was appended to it.
LEMMA PartContents ==
  ASSUME NEW q, NEW b \in Seq(Byte), Holds(q, 0, b)
  PROVE  Contents(q) = b
<1>1. Len(b) \in Nat /\ q.offset = Len(b) /\ \A k \in 1 .. Len(b) : q.data[k - 1] = b[k]
  BY DEF Holds
<1>2. Contents(q) = [k \in 1 .. Len(b) |-> b[k]]
  BY <1>1 DEF Contents
<1>3. b = [k \in 1 .. Len(b) |-> b[k]]
  OBVIOUS
<1>4. QED
  BY <1>2, <1>3

\* The bytes that come after one another from position m on.
LEMMA SubSeqIs ==
  ASSUME NEW T, NEW w, NEW m \in Nat, NEW c \in Seq(T),
         \A k \in 1 .. Len(c) : w[m + k - 1] = c[k]
  PROVE  SubSeq(w, m, m + Len(c) - 1) = c
<1> DEFINE n == m + Len(c) - 1
           t == SubSeq(w, m, n)
<1>1. Len(c) \in Nat /\ \A k \in 1 .. Len(c) : c[k] \in T
  OBVIOUS
<1>a. n \in Int /\ n = m + Len(c) - 1
  BY <1>1
<1> HIDE DEF n
<1>2. \A i \in m .. n : w[i] \in T
  <2> SUFFICES ASSUME NEW i \in m .. n PROVE w[i] \in T
    OBVIOUS
  <2>1. i - m + 1 \in 1 .. Len(c) /\ m + (i - m + 1) - 1 = i
    BY <1>1, <1>a
  <2>2. QED
    BY <1>1, <2>1
<1>3. /\ t \in Seq(T) /\ Len(t) = (IF m <= n THEN n - m + 1 ELSE 0)
      /\ \A i \in 1 .. n - m + 1 : t[i] = w[m + i - 1]
  <2>1. m \in Int /\ n \in Int
    BY <1>a
  <2>2. QED
    BY <1>2, <2>1, SubSeqProperties
<1> HIDE DEF t
<1>4. Len(t) = Len(c)
  BY <1>1, <1>3, <1>a
<1>5. \A i \in 1 .. Len(t) : t[i] = c[i]
  BY <1>1, <1>3, <1>4, <1>a
<1>6. t = c
  BY <1>3, <1>4, <1>5, SeqEqual
<1>7. QED
  BY <1>6 DEF t, n

\* The length is written in the first four bytes.
LEMMA StoreLength ==
  ASSUME NEW q, Sized(q), NEW n \in Nat
  PROVE  LET s == Stored(q, LENGTH_POS, U4(n))
         IN  /\ s.offset = q.offset
             /\ \A i \in 0 .. q.length - 1 : i >= 4 => s.data[i] = q.data[i]
             /\ \A k \in 1 .. 4 : k - 1 < q.length => s.data[k - 1] = U4(n)[k]
<1> DEFINE u == U4(n)
           at == LENGTH_POS
           s == Stored(q, at, u)
<1>0. u \in Seq(Nat) /\ Len(u) = 4
  BY U4Bytes
<1>1. at \in Nat /\ Len(u) \in Nat
  BY <1>0 DEF LENGTH_POS
<1>2. at = 0 /\ Len(u) = 4
  BY <1>0 DEF LENGTH_POS
<1>3. q.length \in Nat
  BY DEF Sized
<1> HIDE DEF at, u
<1>4. /\ Sized(s)
      /\ s.length = q.length
      /\ s.offset = q.offset
      /\ \A i \in 0 .. q.length - 1 : i < at \/ i >= at + Len(u) => s.data[i] = q.data[i]
      /\ \A k \in 1 .. Len(u) : at + k - 1 < q.length => s.data[at + k - 1] = u[k]
  BY <1>1, StoreAny, SMTT(60)
<1> HIDE DEF s
<1>5. /\ s.offset = q.offset
      /\ \A i \in 0 .. q.length - 1 : i >= 4 => s.data[i] = q.data[i]
      /\ \A k \in 1 .. 4 : k - 1 < q.length => s.data[k - 1] = u[k]
  BY <1>2, <1>3, <1>4
<1>6. QED
  BY <1>5 DEF s, u, at

\* What jdwpSend sends.
LEMMA SentBytes ==
  ASSUME NEW q, IsPacket(q), NEW h, IsAsked(h), NEW b \in Seq(Byte), HasHeader(q, h), Holds(q, MIN_PACKET_SIZE, b)
  PROVE  LET w == Contents(Stored(q, LENGTH_POS, U4(q.offset)))
         IN  /\ SubSeq(w, 5, Len(w)) = h \o b
             /\ SubSeq(w, 1, 4) = U4(Len(w))
<1> DEFINE n == q.offset
           u == U4(n)
           s == Stored(q, LENGTH_POS, u)
           w == Contents(s)
           c == h \o b
<1>1. n \in Nat /\ n = 11 + Len(b) /\ Len(b) \in Nat /\ q.length \in Nat /\ n <= q.length
  BY DEF Holds, IsPacket, MIN_PACKET_SIZE
<1>2. \A k \in 1 .. Len(b) : q.data[11 + k - 1] = b[k]
  BY DEF Holds, MIN_PACKET_SIZE
<1>h. h \in Seq(Byte) /\ Len(h) = 7
  BY DEF IsAsked
<1>3. /\ Len(c) = Len(h) + Len(b) /\ c \in Seq(Byte)
      /\ \A k \in 1 .. Len(h) + Len(b) : c[k] = IF k <= Len(h) THEN h[k] ELSE b[k - Len(h)]
  <2>1. h \in Seq(Byte)
    BY <1>h
  <2>2. QED
    BY <2>1, ConcatProperties
<1> HIDE DEF n, c
<1>4. u \in Seq(Nat) /\ Len(u) = 4
  BY <1>1, U4Bytes
<1> HIDE DEF u
<1>5. /\ s.offset = n
      /\ \A i \in 0 .. q.length - 1 : i >= 4 => s.data[i] = q.data[i]
      /\ \A k \in 1 .. 4 : k - 1 < q.length => s.data[k - 1] = u[k]
  <2>1. Sized(q)
    BY <1>1 DEF Sized
  <2>2. QED
    BY <1>1, <2>1, StoreLength DEF n, u
<1> HIDE DEF s
<1>6. Len(w) = n /\ \A k \in 1 .. n : w[k] = s.data[k - 1]
  <2>1. w = [k \in 1 .. n |-> s.data[k - 1]]
    BY <1>5 DEF Contents
  <2> DEFINE S == { s.data[k - 1] : k \in 1 .. n }
  <2>2. w \in [1 .. n -> S]
    BY <2>1
  <2>3. w \in Seq(S)
    BY <1>1, <2>2, SeqDef, SMTT(60)
  <2>4. QED
    BY <1>1, <2>1, <2>2, <2>3, LenProperties
<1> HIDE DEF w
<1>7. SubSeq(w, 1, 4) = u
  <2>1. \A k \in 1 .. Len(u) : w[1 + k - 1] = u[k]
    BY <1>1, <1>4, <1>5, <1>6
  <2> DEFINE m == 1
  <2>2. u \in Seq(Nat) /\ m \in Nat /\ \A k \in 1 .. Len(u) : w[m + k - 1] = u[k]
    BY <1>4, <2>1
  <2>3. m = 1
    OBVIOUS
  <2> HIDE DEF m
  <2>4. SubSeq(w, m, m + Len(u) - 1) = u
    BY <2>2, SubSeqIs
  <2>5. m + Len(u) - 1 = 4
    BY <1>4, <2>3
  <2>6. QED
    BY <2>3, <2>4, <2>5
<1>8. ASSUME NEW k \in 1 .. Len(c)
      PROVE  w[5 + k - 1] = c[k]
  <2>1. k \in Nat /\ k >= 1 /\ k <= 7 + Len(b) /\ 5 + k - 1 \in 5 .. n
    BY <1>1, <1>3, <1>h
  <2>2. w[5 + k - 1] = q.data[k + 3]
    <3>1. w[5 + k - 1] = s.data[(5 + k - 1) - 1]
      BY <1>6, <2>1
    <3>2. (5 + k - 1) - 1 = k + 3 /\ k + 3 \in 0 .. q.length - 1 /\ k + 3 >= 4
      BY <1>1, <2>1
    <3>3. QED
      BY <1>5, <3>1, <3>2
  <2>3. CASE k <= 7
    <3>1. c[k] = h[k]
      BY <1>3, <1>h, <2>1, <2>3
    <3>2. k = 1 \/ k = 2 \/ k = 3 \/ k = 4 \/ k = 5 \/ k = 6 \/ k = 7
      BY <2>1, <2>3
    <3>3. q.data[k + 3] = h[k]
      BY <3>2, SMTT(60) DEF HasHeader, HasId
    <3>4. QED
      BY <2>2, <3>1, <3>3
  <2>4. CASE ~ (k <= 7)
    <3> DEFINE j == k - 7
    <3>1. c[k] = b[j] /\ j \in 1 .. Len(b) /\ 11 + j - 1 = k + 3
      BY <1>1, <1>3, <1>h, <2>1, <2>4
    <3> HIDE DEF j
    <3>2. q.data[11 + j - 1] = b[j]
      BY <1>2, <3>1
    <3>3. QED
      BY <2>2, <3>1, <3>2
  <2>5. QED
    BY <2>3, <2>4
<1>9. SubSeq(w, 5, n) = c
  <2> DEFINE m == 5
  <2>1. c \in Seq(Byte) /\ m \in Nat /\ \A k \in 1 .. Len(c) : w[m + k - 1] = c[k]
    BY <1>3, <1>8
  <2>2. m = 5
    OBVIOUS
  <2> HIDE DEF m
  <2>3. SubSeq(w, m, m + Len(c) - 1) = c
    BY <2>1, SubSeqIs
  <2>4. m + Len(c) - 1 = n
    BY <1>1, <1>3, <1>h, <2>2
  <2>5. QED
    BY <2>2, <2>3, <2>4
<1>10. QED
  BY <1>6, <1>7, <1>9 DEF n, u, s, w, c

\* Making room changes nothing of what a packet holds.
LEMMA HoldsSame ==
  ASSUME NEW q, IsPacket(q), NEW a, NEW start \in Nat, NEW b \in Seq(Byte),
         Holds(q, start, b), a.offset = q.offset,
         \A i \in 0 .. q.length - 1 : a.data[i] = q.data[i]
  PROVE  Holds(a, start, b)
<1>1. Len(b) \in Nat /\ q.offset = start + Len(b) /\ q.length \in Nat /\ q.offset <= q.length
  BY DEF Holds, IsPacket
<1>2. ASSUME NEW k \in 1 .. Len(b)
      PROVE  a.data[start + k - 1] = b[k]
  <2>1. start + k - 1 \in 0 .. q.length - 1
    BY <1>1
  <2>2. q.data[start + k - 1] = b[k]
    BY DEF Holds
  <2>3. QED
    BY <2>1, <2>2
<1>3. QED
  BY <1>1, <1>2 DEF Holds

LEMMA HeaderKept ==
  ASSUME NEW q, NEW a, NEW h, NEW n \in Nat, HasHeader(q, h), n >= MIN_PACKET_SIZE,
         \A i \in 0 .. n - 1 : a.data[i] = q.data[i]
  PROVE  HasHeader(a, h)
<1>1. /\ a.data[4] = q.data[4] /\ a.data[5] = q.data[5] /\ a.data[6] = q.data[6]
      /\ a.data[7] = q.data[7] /\ a.data[8] = q.data[8] /\ a.data[9] = q.data[9]
      /\ a.data[10] = q.data[10]
  BY DEF MIN_PACKET_SIZE
<1>2. QED
  BY <1>1 DEF HasHeader, HasId

-----------------------------------------------------------------------------
\* Lists of parts

LEMMA ListsOver ==
  ASSUME NEW S, \A q \in S : IsPacket(q), NEW l \in Seq(S), NEW c \in Seq(Seq(Byte)),
         Len(l) = Len(c), \A k \in 1 .. Len(l) : Holds(l[k], 0, c[k])
  PROVE  Lists(l, c)
BY DEF Lists

LEMMA ListsEmpty == Lists(<<>>, <<>>)
<1> DEFINE S == {}
           l == <<>>
<1>1. l \in Seq(S) /\ l \in Seq(Seq(Byte)) /\ Len(l) = 0
  OBVIOUS
<1>2. \A q \in S : IsPacket(q)
  OBVIOUS
<1> HIDE DEF S, l
<1>3. Len(l) = Len(l) /\ \A k \in 1 .. Len(l) : Holds(l[k], 0, l[k])
  BY <1>1
<1>4. Lists(l, l)
  BY <1>1, <1>2, <1>3, ListsOver
<1>5. QED
  BY <1>4 DEF l

LEMMA ListsTyped ==
  ASSUME NEW l, NEW c, Lists(l, c)
  PROVE  \A k \in 1 .. Len(l) : IsPacket(l[k])
<1>1. PICK S : l \in Seq(S) /\ \A q \in S : IsPacket(q)
  BY DEF Lists
<1>2. \A k \in 1 .. Len(l) : l[k] \in S
  BY <1>1, ElementOfSeq
<1>3. QED
  BY <1>1, <1>2

LEMMA ListsCons ==
  ASSUME NEW l, NEW c, Lists(l, c), NEW q, IsPacket(q), NEW b \in Seq(Byte), Holds(q, 0, b)
  PROVE  Lists(<<q>> \o l, <<b>> \o c)
<1>1. PICK S : l \in Seq(S) /\ \A r \in S : IsPacket(r)
  BY DEF Lists
<1> DEFINE T == S \cup {q}
           u == <<q>>
           v == <<b>>
           m == u \o l
           d == v \o c
<1>2. \A r \in T : IsPacket(r)
  BY <1>1
<1>3. u \in Seq(T) /\ Len(u) = 1 /\ u[1] = q
  OBVIOUS
<1>4. v \in Seq(Seq(Byte)) /\ Len(v) = 1 /\ v[1] = b
  OBVIOUS
<1>5. l \in Seq(T)
  BY <1>1
<1>6. /\ c \in Seq(Seq(Byte)) /\ Len(l) = Len(c) /\ Len(l) \in Nat
      /\ \A k \in 1 .. Len(l) : Holds(l[k], 0, c[k])
  BY <1>1, LenProperties DEF Lists
<1> HIDE DEF T, u, v
<1>7. /\ m \in Seq(T) /\ Len(m) = Len(u) + Len(l)
      /\ \A k \in 1 .. Len(u) + Len(l) : m[k] = IF k <= Len(u) THEN u[k] ELSE l[k - Len(u)]
  <2>1. u \in Seq(T) /\ l \in Seq(T)
    BY <1>3, <1>5
  <2>2. QED
    BY <2>1, ConcatProperties
<1>8. /\ d \in Seq(Seq(Byte)) /\ Len(d) = Len(v) + Len(c)
      /\ \A k \in 1 .. Len(v) + Len(c) : d[k] = IF k <= Len(v) THEN v[k] ELSE c[k - Len(v)]
  <2>1. v \in Seq(Seq(Byte)) /\ c \in Seq(Seq(Byte))
    BY <1>4, <1>6
  <2>2. QED
    BY <2>1, ConcatProperties
<1> HIDE DEF m, d
<1>9. Len(m) = Len(d)
  BY <1>3, <1>4, <1>6, <1>7, <1>8
<1>10. ASSUME NEW k \in 1 .. Len(m)
       PROVE  Holds(m[k], 0, d[k])
  <2>1. CASE k = 1
    <3>1. m[1] = q /\ d[1] = b
      BY <1>3, <1>4, <1>6, <1>7, <1>8
    <3>2. QED
      BY <2>1, <3>1
  <2>2. CASE k # 1
    <3> DEFINE j == k - 1
    <3>1. m[k] = l[j] /\ d[k] = c[j] /\ j \in 1 .. Len(l)
      BY <1>3, <1>4, <1>6, <1>7, <1>8, <2>2
    <3> HIDE DEF j
    <3>2. QED
      BY <1>6, <3>1
  <2>3. QED
    BY <2>1, <2>2
<1>11. QED
  BY <1>2, <1>7, <1>8, <1>9, <1>10 DEF Lists, m, d, u, v

LEMMA ListsHeadTail ==
  ASSUME NEW l, NEW c, Lists(l, c), l # <<>>
  PROVE  /\ IsPacket(Head(l))
         /\ Head(c) \in Seq(Byte)
         /\ Holds(Head(l), 0, Head(c))
         /\ Lists(Tail(l), Tail(c))
<1>1. PICK S : l \in Seq(S) /\ \A r \in S : IsPacket(r)
  BY DEF Lists
<1>2. /\ c \in Seq(Seq(Byte)) /\ Len(l) = Len(c)
      /\ \A k \in 1 .. Len(l) : Holds(l[k], 0, c[k])
  BY DEF Lists
<1>3. Len(l) \in Nat /\ Len(l) > 0
  BY <1>1, EmptySeq, LenProperties
<1>4. c # <<>>
  BY <1>2, <1>3
<1>5. Head(l) = l[1] /\ Head(l) \in S
  BY <1>1, <1>3, ElementOfSeq
<1>6. Head(c) = c[1] /\ Head(c) \in Seq(Byte)
  BY <1>2, <1>3, ElementOfSeq
<1>7. /\ Tail(l) \in Seq(S) /\ Len(Tail(l)) = Len(l) - 1
      /\ \A k \in 1 .. Len(Tail(l)) : Tail(l)[k] = l[k + 1]
  BY <1>1, <1>3, HeadTailProperties
<1>8. /\ Tail(c) \in Seq(Seq(Byte)) /\ Len(Tail(c)) = Len(c) - 1
      /\ \A k \in 1 .. Len(Tail(c)) : Tail(c)[k] = c[k + 1]
  BY <1>2, <1>4, HeadTailProperties
<1>9. ASSUME NEW k \in 1 .. Len(Tail(l))
      PROVE  Holds(Tail(l)[k], 0, Tail(c)[k])
  <2> DEFINE j == k + 1
  <2>1. Tail(l)[k] = l[j] /\ Tail(c)[k] = c[j] /\ j \in 1 .. Len(l)
    BY <1>2, <1>3, <1>7, <1>8
  <2> HIDE DEF j
  <2>2. QED
    BY <1>2, <2>1
<1>10. Lists(Tail(l), Tail(c))
  BY <1>1, <1>2, <1>7, <1>8, <1>9 DEF Lists
<1>11. Holds(l[1], 0, c[1])
  BY <1>2, <1>3
<1>12. QED
  BY <1>1, <1>5, <1>6, <1>10, <1>11

LEMMA ListsNone ==
  ASSUME NEW c, Lists(<<>>, c)
  PROVE  c = <<>>
<1>1. c \in Seq(Seq(Byte)) /\ Len(c) = 0
  BY DEF Lists
<1>2. QED
  BY <1>1, EmptySeq

-----------------------------------------------------------------------------
\* The inductive invariant

LEMMA Initially == Init => IInv
<1> SUFFICES ASSUME Init PROVE IInv
  OBVIOUS
<1>1. IsPacket(None)
  BY NewRaw DEF None
<1>2. TypeOK
  <2>1. todo \in Seq(Seq(Byte)) /\ body \in Seq(Byte) /\ Len(list) = 0 /\ Len(rest) = 0
    BY DEF Init
  <2>2. pc = "idle" /\ IsPacket(p) /\ bytes \in Nat /\ over \in BOOLEAN /\ rest = <<>>
    BY <1>1 DEF Init
  <2>3. /\ \A k \in 1 .. Len(list) : IsPacket(list[k])
        /\ \A k \in 1 .. Len(rest) : IsPacket(rest[k])
    BY <2>1
  <2>4. QED
    BY <2>1, <2>2, <2>3 DEF TypeOK
<1>3. InBlock /\ SentAsWritten
  BY DEF Init, InBlock, SentAsWritten, Silence
<1>4. Flow /\ Headed /\ Appends /\ Reads
  BY DEF Init, Flow, Headed, Appends, Reads, Writing, Sending
<1>5. Parts
  BY ListsEmpty DEF Init, Parts
<1>6. QED
  BY <1>2, <1>3, <1>4, <1>5 DEF IInv

\* A command comes; nothing is being written.
LEMMA OnReceive == ASSUME IInv, onReceive PROVE IInv'
<1>1. UNCHANGED <<p, todo, list, bytes, rest, head, body, parts, over>> /\ pc = "idle"
      /\ pc' = "handle" /\ wire' = Silence
  BY DEF onReceive
<1>2. PICK r \in Requests : req' = r /\ in' = FromHeaderPayload(r)
  BY DEF onReceive
<1>3. TypeOK' /\ InBlock' /\ Parts'
  BY <1>1 DEF IInv, TypeOK, InBlock, Parts
<1>4. SentAsWritten'
  BY <1>1 DEF SentAsWritten, Silence
<1>5. Flow' /\ Headed' /\ Appends'
  BY <1>1 DEF IInv, Flow, Headed, Appends, Writing, Sending
<1>6. Reads'
  <2>1. /\ in'.length \in Nat /\ in'.length >= MIN_PACKET_SIZE /\ HasId(in', r.id)
    BY <1>2, CommandRead, PacketsAssumption
  <2>2. QED
    BY <1>2, <2>1 DEF Reads
<1>7. QED
  BY <1>3, <1>4, <1>5, <1>6 DEF IInv

\* A field is read: the position moves, the bytes stay.
LEMMA ReadsNext == ASSUME IInv, ReadNext PROVE IInv'
<1>1. /\ pc = "handle"
      /\ UNCHANGED <<pc, req, p, todo, list, bytes, rest, head, body, parts, over, wire>>
  BY DEF ReadNext
<1>2. TypeOK' /\ InBlock' /\ Parts' /\ SentAsWritten'
  BY <1>1 DEF IInv, TypeOK, InBlock, Parts, SentAsWritten
<1>3. Flow' /\ Headed' /\ Appends'
  BY <1>1 DEF IInv, Flow, Headed, Appends
<1>4. Reads'
  <2> DEFINE f == req.fields[Len(got) + 1]
  <2>1. PICK n : in' = Moved(in, n)
    BY DEF ReadNext, ReadField
  <2>2. in'.length = in.length /\ in'.data = in.data
    BY <2>1 DEF Moved
  <2>3. QED
    BY <1>1, <2>2 DEF IInv, Reads, HasId
<1>5. QED
  BY <1>2, <1>3, <1>4 DEF IInv

LEMMA DispatchAll == ASSUME IInv, dispatchAll PROVE IInv'
<1>1. /\ pc = "idle" /\ pc' = "events" /\ wire' = Silence
      /\ UNCHANGED <<in, req, got, p, todo, list, bytes, rest, head, body, parts, over>>
  BY DEF dispatchAll
<1>2. TypeOK' /\ InBlock' /\ Parts'
  BY <1>1 DEF IInv, TypeOK, InBlock, Parts
<1>3. SentAsWritten'
  BY <1>1 DEF SentAsWritten, Silence
<1>4. Flow' /\ Headed' /\ Appends' /\ Reads'
  BY <1>1 DEF IInv, Flow, Headed, Appends, Reads, Writing, Sending
<1>5. QED
  BY <1>2, <1>3, <1>4 DEF IInv

LEMMA NewPartMade == ASSUME IInv, NewPart PROVE IInv'
<1>1. /\ pc \in { "handle", "events" }
      /\ pc' = IF pc = "handle" THEN "part of answer" ELSE "part of events"
      /\ body' = <<>>
      /\ UNCHANGED <<in, req, got, todo, list, bytes, rest, head, parts, over, wire>>
  BY DEF NewPart
<1>2. PICK n \in Estimates : p' = newRawPacket(n)
  BY DEF NewPart
<1>3. IsPacket(p') /\ p'.offset = 0
  <2>1. n \in Nat
    BY PacketsAssumption DEF PacketsAssumption
  <2>2. QED
    BY <1>2, <2>1, NewRaw
<1>4. body' \in Seq(Byte) /\ Len(body') = 0
  <2>1. body' = <<>>
    BY <1>1
  <2>2. QED
    BY <2>1
<1>5. TypeOK'
  <2>1. /\ pc' \in { "part of answer", "part of events" }
        /\ UNCHANGED <<todo, list, bytes, rest, over>>
    BY <1>1
  <2>2. QED
    BY <1>3, <1>4, <2>1 DEF IInv, TypeOK
<1>6. InBlock' /\ Parts' /\ SentAsWritten'
  BY <1>1 DEF IInv, InBlock, Parts, SentAsWritten
<1>7. Flow' /\ Headed' /\ Reads'
  BY <1>1 DEF IInv, Flow, Headed, Reads, Writing, Sending
<1>8. Appends'
  <2>1. pc' \notin Sending
    BY <1>1 DEF Sending
  <2>2. Holds(p', 0, body')
    BY <1>3, <1>4 DEF Holds
  <2>3. QED
    BY <2>1, <2>2 DEF Appends
<1>9. QED
  BY <1>5, <1>6, <1>7, <1>8 DEF IInv

LEMMA AddPacket == ASSUME IInv, add_Packet PROVE IInv'
<1>1. /\ pc \in { "part of answer", "part of events" }
      /\ todo = <<>>
      /\ list' = <<p>> \o list
      /\ bytes' = bytes + p.offset
      /\ parts' = <<body>> \o parts
      /\ pc' = IF pc = "part of answer" THEN "handle" ELSE "events"
      /\ UNCHANGED <<in, req, got, p, todo, rest, head, body, over, wire>>
  BY DEF add_Packet
<1>2. rest = <<>>
  BY <1>1 DEF IInv, Flow, Sending
<1>3. IsPacket(p) /\ body \in Seq(Byte) /\ bytes \in Nat
  BY DEF IInv, TypeOK
<1>4. Holds(p, 0, body)
  BY <1>1 DEF IInv, Appends, Writing, Sending
<1>5. Lists(list', parts')
  <2>1. Lists(list, parts)
    BY <1>2 DEF IInv, Parts
  <2>2. QED
    BY <1>1, <1>3, <1>4, <2>1, ListsCons
<1>6. TypeOK'
  <2>1. \A k \in 1 .. Len(list') : IsPacket(list'[k])
    BY <1>5, ListsTyped
  <2>2. p.offset \in Nat
    BY <1>3 DEF IsPacket
  <2>a. bytes' = bytes + p.offset
    BY <1>1
  <2>3. bytes' \in Nat
    BY <1>3, <2>2, <2>a
  <2>b. pc' \in { "handle", "events" }
    BY <1>1
  <2>4. UNCHANGED <<p, todo, rest, body, over>>
    BY <1>1
  <2>5. /\ \A k \in 1 .. Len(rest') : IsPacket(rest'[k])
        /\ todo' # <<>> => rest' = <<>>
    BY <2>4 DEF IInv, TypeOK
  <2>6. IsPacket(p') /\ todo' \in Seq(Seq(Byte)) /\ body' \in Seq(Byte) /\ over' \in BOOLEAN
    BY <2>4 DEF IInv, TypeOK
  <2>7. QED
    BY <2>1, <2>3, <2>b, <2>5, <2>6 DEF TypeOK
<1>7. Parts'
  BY <1>1, <1>2, <1>5 DEF Parts
<1>8. InBlock' /\ SentAsWritten' /\ Flow' /\ Headed' /\ Appends' /\ Reads'
  BY <1>1, <1>2 DEF IInv, InBlock, SentAsWritten, Flow, Headed, Appends, Reads, Writing, Sending
<1>9. QED
  BY <1>6, <1>7, <1>8 DEF IInv

\* A fresh packet takes its header.
LEMMA HeaderFits ==
  ASSUME NEW n \in Nat
  PROVE  Fits(newPacket(n), 0, MIN_PACKET_SIZE)
BY DEF Fits, newPacket, newRawPacket, MIN_PACKET_SIZE

\* What newReply and NewComposite have in common.
LEMMA PacketMade ==
  ASSUME IInv, NEW n \in Nat,
         pc' \in Sending,
         IsPacket(p'), p'.offset = MIN_PACKET_SIZE, p'.length >= MIN_PACKET_SIZE,
         IsAsked(head'), HasHeader(p', head'),
         over' = (over \/ ~Fits(newPacket(n), 0, MIN_PACKET_SIZE)),
         body' = <<>>, rest = <<>>,
         UNCHANGED <<in, req, got, todo, list, bytes, rest, parts, wire>>
  PROVE  IInv'
<1>1. ~over' /\ over' \in BOOLEAN
  <2>1. ~over
    BY DEF IInv, InBlock
  <2>2. QED
    BY <2>1, HeaderFits
<1>2. body' \in Seq(Byte) /\ Len(body') = 0
  OBVIOUS
<1>3. pc' \in { "idle", "handle", "events", "part of answer", "part of events",
                "answer", "composite" } /\ pc' \in Writing
  BY DEF Sending, Writing
<1>4. UNCHANGED <<todo, list, bytes, rest>>
  OBVIOUS
<1>5. TypeOK'
  BY <1>1, <1>2, <1>3, <1>4 DEF IInv, TypeOK
<1>6. InBlock'
  BY <1>1 DEF InBlock
<1>7. SentAsWritten' /\ Parts'
  BY DEF IInv, SentAsWritten, Parts
<1>8. Flow'
  BY <1>3 DEF Flow
<1>9. Headed'
  BY DEF Headed
<1>10. Appends'
  <2>1. Holds(p', MIN_PACKET_SIZE, body')
    BY <1>2 DEF Holds, MIN_PACKET_SIZE
  <2>2. QED
    BY <2>1 DEF Appends
<1>11. Reads'
  <2>1. pc' \notin { "handle", "part of answer" }
    BY DEF Sending
  <2>2. QED
    BY <2>1 DEF IInv, Reads
<1>12. QED
  BY <1>5, <1>6, <1>7, <1>8, <1>9, <1>10, <1>11 DEF IInv

LEMMA NewReplyMade == ASSUME IInv, newReply PROVE IInv'
<1>1. PICK m \in Estimates :
        /\ p' = newReplyPacket(read_id(in), m + bytes)
        /\ over' = (over \/ ~Fits(newPacket(m + bytes), 0, MIN_PACKET_SIZE))
  BY DEF newReply, NewPacket, get_ByteSize
<1>2. /\ pc = "handle" /\ pc' = "answer"
      /\ head' = req.id \o << REPLY_FLAG, 0, 0 >>
      /\ body' = <<>>
      /\ UNCHANGED <<in, req, got, todo, list, bytes, rest, parts, wire>>
  BY DEF newReply, NewPacket
<1> DEFINE n == m + bytes
<1>3. n \in Nat
  <2>1. m \in Nat
    BY PacketsAssumption DEF PacketsAssumption
  <2>2. bytes \in Nat
    BY DEF IInv, TypeOK
  <2>3. QED
    BY <2>1, <2>2
<1>4. read_id(in) = req.id /\ IsId(req.id)
  BY <1>2, ReadId, PacketsAssumption, FourBytes DEF IInv
<1> HIDE DEF n
<1>5. LET r == newReplyPacket(req.id, n)
      IN  /\ IsPacket(r)
          /\ r.offset = MIN_PACKET_SIZE
          /\ r.length = n + MIN_PACKET_SIZE
          /\ HasId(r, req.id)
          /\ r.data[8] = REPLY_FLAG /\ r.data[9] = 0 /\ r.data[10] = 0
  BY <1>3, <1>4, ReplyHeader
<1>6. /\ IsPacket(p') /\ p'.offset = MIN_PACKET_SIZE /\ p'.length = n + MIN_PACKET_SIZE
      /\ HasId(p', req.id)
      /\ p'.data[8] = REPLY_FLAG /\ p'.data[9] = 0 /\ p'.data[10] = 0
  BY <1>1, <1>4, <1>5 DEF n
<1>7. /\ IsAsked(head')
      /\ head'[1] = req.id[1] /\ head'[2] = req.id[2]
      /\ head'[3] = req.id[3] /\ head'[4] = req.id[4]
      /\ head'[5] = REPLY_FLAG /\ head'[6] = 0 /\ head'[7] = 0
  <2>1. REPLY_FLAG \in Byte /\ 0 \in Byte
    BY DEF REPLY_FLAG, Byte
  <2>2. QED
    BY <1>2, <1>4, <2>1, Asked DEF IsAsked
<1>8. HasHeader(p', head')
  BY <1>6, <1>7 DEF HasHeader, HasId
<1>9. p'.length >= MIN_PACKET_SIZE
  BY <1>3, <1>6 DEF MIN_PACKET_SIZE
<1>10. pc' \in Sending /\ rest = <<>>
  BY <1>2 DEF Sending, IInv, Flow
<1>11. over' = (over \/ ~Fits(newPacket(n), 0, MIN_PACKET_SIZE))
  BY <1>1 DEF n
<1>12. QED
  BY <1>2, <1>3, <1>6, <1>7, <1>8, <1>9, <1>10, <1>11, PacketMade

LEMMA CompositeMade == ASSUME IInv, NewComposite PROVE IInv'
<1>1. PICK id \in CommandIds, m \in Estimates :
        /\ p' = newCommandPacket(id, m + bytes, 100, 64)
        /\ over' = (over \/ ~Fits(newPacket(m + bytes), 0, MIN_PACKET_SIZE))
        /\ head' = id \o << CMD_FLAG, 64, 100 >>
        /\ body' = <<>>
        /\ UNCHANGED <<in, req, got, todo, list, bytes, rest, parts, wire>>
  BY DEF NewComposite, NewPacket, get_ByteSize
<1>2. pc = "events" /\ pc' = "composite"
  BY DEF NewComposite
<1> DEFINE n == m + bytes
<1>3. n \in Nat
  <2>1. m \in Nat
    BY PacketsAssumption DEF PacketsAssumption
  <2>2. bytes \in Nat
    BY DEF IInv, TypeOK
  <2>3. QED
    BY <2>1, <2>2
<1>4. IsId(id)
  BY PacketsAssumption, FourBytes DEF PacketsAssumption
<1> HIDE DEF n
<1>5. LET r == newCommandPacket(id, n, 100, 64)
      IN  /\ IsPacket(r)
          /\ r.offset = MIN_PACKET_SIZE
          /\ r.length = n + MIN_PACKET_SIZE
          /\ HasId(r, id)
          /\ r.data[8] = CMD_FLAG /\ r.data[9] = 64 /\ r.data[10] = 100
  BY <1>3, <1>4, CommandHeader
<1>6. /\ IsPacket(p') /\ p'.offset = MIN_PACKET_SIZE /\ p'.length = n + MIN_PACKET_SIZE
      /\ HasId(p', id)
      /\ p'.data[8] = CMD_FLAG /\ p'.data[9] = 64 /\ p'.data[10] = 100
  BY <1>1, <1>5 DEF n
<1>7. /\ IsAsked(head')
      /\ head'[1] = id[1] /\ head'[2] = id[2] /\ head'[3] = id[3] /\ head'[4] = id[4]
      /\ head'[5] = CMD_FLAG /\ head'[6] = 64 /\ head'[7] = 100
  <2>1. CMD_FLAG \in Byte /\ 64 \in Byte /\ 100 \in Byte
    BY DEF CMD_FLAG, Byte
  <2>2. QED
    BY <1>1, <1>4, <2>1, Asked DEF IsAsked
<1>8. HasHeader(p', head')
  BY <1>6, <1>7 DEF HasHeader, HasId
<1>9. p'.length >= MIN_PACKET_SIZE
  BY <1>3, <1>6 DEF MIN_PACKET_SIZE
<1>10. pc' \in Sending /\ rest = <<>>
  BY <1>2 DEF Sending, IInv, Flow
<1>11. over' = (over \/ ~Fits(newPacket(n), 0, MIN_PACKET_SIZE))
  BY <1>1 DEF n
<1>12. QED
  BY <1>1, <1>3, <1>6, <1>7, <1>8, <1>9, <1>10, <1>11, PacketMade

\* A packet is changed and keeps its header.
LEMMA HeadKept ==
  ASSUME IInv, pc \in Sending, UNCHANGED <<pc, head>>,
         NEW n \in Nat, n >= MIN_PACKET_SIZE, p'.length >= p.length,
         \A i \in 0 .. n - 1 : p'.data[i] = p.data[i], IsPacket(p')
  PROVE  Headed'
<1>1. HasHeader(p, head) /\ p.length >= MIN_PACKET_SIZE /\ IsAsked(head)
  BY DEF IInv, Headed
<1>2. HasHeader(p', head)
  BY <1>1, HeaderKept
<1>3. p'.length >= MIN_PACKET_SIZE
  <2>1. IsPacket(p)
    BY DEF IInv, TypeOK
  <2>2. p.length \in Nat /\ p'.length \in Nat
    BY <2>1 DEF IsPacket
  <2>3. QED
    BY <1>1, <2>2 DEF MIN_PACKET_SIZE
<1>4. QED
  BY <1>1, <1>2, <1>3 DEF Headed

LEMMA LongEnough ==
  ASSUME IInv, pc \in Sending
  PROVE  p.offset \in Nat /\ p.offset >= MIN_PACKET_SIZE /\ p.length \in Nat /\ p.offset <= p.length
<1>1. IsPacket(p) /\ body \in Seq(Byte)
  BY DEF IInv, TypeOK
<1>2. Holds(p, MIN_PACKET_SIZE, body)
  BY DEF IInv, Appends, Writing, Sending
<1>3. Len(body) \in Nat
  BY <1>1
<1>4. QED
  BY <1>1, <1>2, <1>3 DEF Holds, IsPacket, MIN_PACKET_SIZE

\* A writer that is called makes room.
LEMMA WriteCalled == ASSUME IInv, NEW item \in Items, Write(item) PROVE IInv'
<1> DEFINE start == IF pc \in Sending THEN MIN_PACKET_SIZE ELSE 0
<1>1. /\ pc \in Writing /\ rest = <<>>
      /\ p' = IF item.ensure = 0 THEN p ELSE ensurePacketCap(p, item.ensure)
      /\ todo' = item.words
      /\ UNCHANGED <<pc, in, req, got, list, bytes, rest, head, body, parts, over, wire>>
  BY DEF Write, Writing
<1>2. item.ensure \in Nat /\ item.words \in Seq(Seq(Byte))
  BY PacketsAssumption DEF PacketsAssumption
<1>3. IsPacket(p) /\ body \in Seq(Byte)
  BY DEF IInv, TypeOK
<1>4. p.length \in Nat /\ p.offset \in Nat /\ p.offset <= p.length
  BY <1>3 DEF IsPacket
<1>5. /\ IsPacket(p') /\ p'.offset = p.offset /\ p'.length >= p.length
      /\ \A i \in 0 .. p.length - 1 : p'.data[i] = p.data[i]
  <2>1. CASE item.ensure = 0
    <3>1. p' = p
      BY <1>1, <2>1
    <3>2. QED
      BY <1>3, <1>4, <3>1
  <2>2. CASE item.ensure # 0
    <3>1. p' = ensurePacketCap(p, item.ensure)
      BY <1>1, <2>2
    <3>2. QED
      BY <1>2, <1>3, <3>1, Ensure
  <2>3. QED
    BY <2>1, <2>2
<1>6. TypeOK'
  <2>1. todo' \in Seq(Seq(Byte)) /\ UNCHANGED <<pc, list, bytes, rest, body, over>> /\ rest' = <<>>
    BY <1>1, <1>2
  <2>2. QED
    BY <1>5, <2>1 DEF IInv, TypeOK
<1>7. InBlock' /\ SentAsWritten' /\ Parts' /\ Reads'
  BY <1>1 DEF IInv, InBlock, SentAsWritten, Parts, Reads
<1>8. Flow'
  BY <1>1 DEF Flow
<1>9. Headed'
  <2>1. CASE pc \in Sending
    <3>1. p.length >= MIN_PACKET_SIZE /\ pc' = pc /\ head' = head
      BY <1>1, <2>1 DEF IInv, Headed
    <3>2. QED
      BY <1>4, <1>5, <2>1, <3>1, HeadKept
  <2>2. CASE pc \notin Sending
    BY <1>1, <2>2 DEF Headed
  <2>3. QED
    BY <2>1, <2>2
<1>10. Appends'
  <2>1. start \in Nat /\ Holds(p, start, body)
    BY <1>1 DEF IInv, Appends, MIN_PACKET_SIZE
  <2> HIDE DEF start
  <2>2. Holds(p', start, body)
    BY <1>3, <1>5, <2>1, HoldsSame
  <2>3. pc' = pc /\ body' = body
    BY <1>1
  <2>4. QED
    BY <2>2, <2>3 DEF Appends, start
<1>11. QED
  BY <1>6, <1>7, <1>8, <1>9, <1>10 DEF IInv

LEMMA WordWritten == ASSUME IInv, WriteNext PROVE IInv'
<1> DEFINE start == IF pc \in Sending THEN MIN_PACKET_SIZE ELSE 0
           word == Head(todo)
<1>1. /\ todo # <<>>
      /\ p' = Appended(p, word)
      /\ over' = (over \/ ~AppendFits(p, word))
      /\ body' = body \o word
      /\ todo' = Tail(todo)
      /\ UNCHANGED <<pc, in, req, got, list, bytes, rest, head, parts, wire>>
  BY DEF WriteNext
<1>2. pc \in Writing /\ rest = <<>>
  BY <1>1 DEF IInv, Flow
<1>3. IsPacket(p) /\ body \in Seq(Byte) /\ todo \in Seq(Seq(Byte))
  BY DEF IInv, TypeOK
<1>4. word \in Seq(Byte) /\ Tail(todo) \in Seq(Seq(Byte))
  <2>1. todo \in Seq(Seq(Byte)) /\ todo # <<>>
    BY <1>1, <1>3
  <2>2. QED
    BY <2>1, HeadTailProperties
<1> HIDE DEF word
<1>5. /\ IsPacket(p')
      /\ p'.offset = p.offset + Len(word)
      /\ p'.length >= p.length
      /\ AppendFits(p, word)
      /\ \A i \in 0 .. p.offset - 1 : p'.data[i] = p.data[i]
      /\ \A k \in 1 .. Len(word) : p'.data[p.offset + k - 1] = word[k]
  <2>1. LET a == Appended(p, word)
        IN  /\ IsPacket(a)
            /\ a.offset = p.offset + Len(word)
            /\ a.length >= p.length
            /\ AppendFits(p, word)
            /\ \A i \in 0 .. p.offset - 1 : a.data[i] = p.data[i]
            /\ \A k \in 1 .. Len(word) : a.data[p.offset + k - 1] = word[k]
    BY <1>3, <1>4, Append1
  <2>2. p' = Appended(p, word)
    BY <1>1
  <2>3. QED
    BY <2>1, <2>2
<1>6. ~over' /\ over' \in BOOLEAN
  <2>1. ~over /\ AppendFits(p, word)
    BY <1>5 DEF IInv, InBlock
  <2>2. over' = (over \/ ~AppendFits(p, word))
    BY <1>1
  <2>3. QED
    BY <2>1, <2>2
<1>7. body' \in Seq(Byte)
  <2>1. body' = body \o word
    BY <1>1
  <2>2. QED
    BY <1>3, <1>4, <2>1, ConcatProperties
<1>8. TypeOK'
  <2>1. todo' \in Seq(Seq(Byte)) /\ UNCHANGED <<pc, list, bytes, rest>> /\ rest' = <<>>
    BY <1>1, <1>2, <1>4
  <2>2. QED
    BY <1>5, <1>6, <1>7, <2>1 DEF IInv, TypeOK
<1>9. InBlock'
  BY <1>6 DEF InBlock
<1>10. SentAsWritten' /\ Parts' /\ Reads'
  BY <1>1 DEF IInv, SentAsWritten, Parts, Reads
<1>11. Flow'
  BY <1>1, <1>2 DEF Flow
<1>12. Headed'
  <2>1. CASE pc \in Sending
    <3>1. p.offset \in Nat /\ p.offset >= MIN_PACKET_SIZE /\ pc' = pc /\ head' = head
      BY <1>1, <2>1, LongEnough
    <3>2. QED
      BY <1>5, <2>1, <3>1, HeadKept
  <2>2. CASE pc \notin Sending
    BY <1>1, <2>2 DEF Headed
  <2>3. QED
    BY <2>1, <2>2
<1>13. Appends'
  <2>1. start \in Nat /\ Holds(p, start, body)
    BY <1>2 DEF IInv, Appends, MIN_PACKET_SIZE
  <2> HIDE DEF start
  <2>2. Holds(p', start, body \o word)
    BY <1>3, <1>4, <1>5, <2>1, HoldsMore
  <2>3. pc' = pc /\ body' = body \o word
    BY <1>1
  <2>4. QED
    BY <2>2, <2>3 DEF Appends, start
<1>14. QED
  BY <1>8, <1>9, <1>10, <1>11, <1>12, <1>13 DEF IInv

\* The list is handed over to be copied.
LEMMA ListHanded == ASSUME IInv, write_list PROVE IInv'
<1>1. /\ pc \in Sending /\ todo = <<>> /\ list # <<>>
      /\ rest' = list /\ list' = <<>> /\ bytes' = 0
      /\ UNCHANGED <<pc, in, req, got, p, todo, head, body, parts, over, wire>>
  BY DEF write_list, Sending
<1>2. rest = <<>>
  BY <1>1 DEF IInv, Flow
<1>3. Lists(list, parts)
  BY <1>2 DEF IInv, Parts
<1>4. \A k \in 1 .. Len(list) : IsPacket(list[k])
  BY <1>3, ListsTyped
<1>5. TypeOK'
  <2>1. \A k \in 1 .. Len(rest') : IsPacket(rest'[k])
    BY <1>1, <1>4
  <2>2. \A k \in 1 .. Len(list') : IsPacket(list'[k])
    <3>1. list' = <<>>
      BY <1>1
    <3>2. Len(list') = 0
      BY <3>1
    <3>3. QED
      BY <3>2
  <2>3. UNCHANGED <<pc, p, todo, body, over>> /\ bytes' \in Nat /\ todo' = <<>>
    BY <1>1
  <2>4. QED
    BY <2>1, <2>2, <2>3 DEF IInv, TypeOK
<1>6. InBlock' /\ SentAsWritten' /\ Headed' /\ Appends' /\ Reads'
  BY <1>1 DEF IInv, InBlock, SentAsWritten, Headed, Appends, Reads
<1>7. Flow'
  BY <1>1 DEF Flow
<1>8. Parts'
  BY <1>1, <1>3 DEF Parts
<1>9. QED
  BY <1>5, <1>6, <1>7, <1>8 DEF IInv

\* A packet that is sent has a block.
LEMMA NotWrapped == ASSUME IInv, pc \in Sending PROVE Wrapped(p) = p
BY LongEnough DEF Wrapped, MIN_PACKET_SIZE

LEMMA Grown == ASSUME IInv, Grow PROVE IInv'
<1>1. rest # <<>> /\ p' = Doubles(Wrapped(p))
      /\ UNCHANGED <<pc, in, req, got, todo, list, bytes, rest, head, body, parts, over, wire>>
  BY DEF Grow
<1>2. pc \in Sending /\ pc \in Writing
  BY <1>1 DEF IInv, Flow, Sending, Writing
<1>3. IsPacket(p) /\ body \in Seq(Byte)
  BY DEF IInv, TypeOK
<1>4. p.offset \in Nat /\ p.offset >= MIN_PACKET_SIZE /\ p.length \in Nat /\ p.offset <= p.length
  BY <1>2, LongEnough
<1>5. /\ IsPacket(p') /\ p'.offset = p.offset /\ p'.length >= p.length
      /\ \A i \in 0 .. p.length - 1 : p'.data[i] = p.data[i]
  <2> DEFINE n == 2 * p.length
  <2>1. p' = realloc(p, n)
    BY <1>1, <1>2, NotWrapped DEF Doubles
  <2>2. n \in Nat /\ n >= p.length
    BY <1>4
  <2> HIDE DEF n
  <2>3. QED
    BY <1>3, <2>1, <2>2, Realloc
<1>6. TypeOK'
  <2>1. UNCHANGED <<pc, todo, list, bytes, rest, body, over>>
    BY <1>1
  <2>2. QED
    BY <1>5, <2>1 DEF IInv, TypeOK
<1>7. InBlock' /\ SentAsWritten' /\ Flow' /\ Parts' /\ Reads'
  BY <1>1 DEF IInv, InBlock, SentAsWritten, Flow, Parts, Reads
<1>8. Headed'
  <2>1. pc' = pc /\ head' = head
    BY <1>1
  <2>2. \A i \in 0 .. p.offset - 1 : p'.data[i] = p.data[i]
    BY <1>4, <1>5
  <2>3. QED
    BY <1>2, <1>4, <1>5, <2>1, <2>2, HeadKept
<1>9. Appends'
  <2>1. MIN_PACKET_SIZE \in Nat /\ Holds(p, MIN_PACKET_SIZE, body)
    BY <1>2 DEF IInv, Appends, MIN_PACKET_SIZE
  <2>2. Holds(p', MIN_PACKET_SIZE, body)
    BY <1>3, <1>5, <2>1, HoldsSame
  <2>3. pc' = pc /\ body' = body
    BY <1>1
  <2>4. QED
    BY <1>2, <2>2, <2>3 DEF Appends
<1>10. QED
  BY <1>6, <1>7, <1>8, <1>9 DEF IInv

\* Bytes are stored behind the offset.
LEMMA StoreBehind ==
  ASSUME NEW q, IsPacket(q), NEW w \in Seq(Byte)
  PROVE  LET a == Moved(Stored(q, q.offset, w), q.offset + Len(w))
         IN  q.offset + Len(w) <= q.length =>
               /\ IsPacket(a) /\ a.offset = q.offset + Len(w) /\ a.length = q.length
               /\ \A k \in 0 .. q.offset - 1 : a.data[k] = q.data[k]
               /\ \A k \in 1 .. Len(w) : a.data[q.offset + k - 1] = w[k]
<1> DEFINE at == q.offset
           s == Stored(q, at, w)
<1>1. q.length \in Nat /\ at \in Nat /\ at <= q.length /\ Len(w) \in Nat
  BY DEF IsPacket
<1> HIDE DEF at
<1>2. /\ IsPacket(s)
      /\ s.length = q.length
      /\ s.offset = q.offset
      /\ \A i \in 0 .. q.length - 1 : i < at \/ i >= at + Len(w) => s.data[i] = q.data[i]
      /\ \A k \in 1 .. Len(w) : at + k - 1 < q.length => s.data[at + k - 1] = w[k]
  <2>1. at \in Nat
    BY <1>1
  <2>2. QED
    BY <2>1, Store
<1> HIDE DEF s
<1> SUFFICES ASSUME at + Len(w) <= q.length
             PROVE  /\ IsPacket(Moved(s, at + Len(w)))
                    /\ \A k \in 0 .. at - 1 : s.data[k] = q.data[k]
                    /\ \A k \in 1 .. Len(w) : s.data[at + k - 1] = w[k]
  BY <1>2 DEF Moved, s, at
<1>3. IsPacket(Moved(s, at + Len(w)))
  BY <1>1, <1>2 DEF IsPacket, Moved
<1>4. \A k \in 0 .. at - 1 : s.data[k] = q.data[k]
  BY <1>1, <1>2
<1>5. \A k \in 1 .. Len(w) : s.data[at + k - 1] = w[k]
  BY <1>1, <1>2
<1>6. QED
  BY <1>3, <1>4, <1>5

\* A part is copied behind what is there; an empty one is left out.
LEMMA Copied == ASSUME IInv, Copy PROVE IInv'
<1> DEFINE from == Head(rest)
           part == Head(parts)
<1>1. /\ rest # <<>>
      /\ body' = body \o part /\ rest' = Tail(rest) /\ parts' = Tail(parts)
      /\ UNCHANGED <<pc, in, req, got, todo, list, bytes, head, wire>>
  BY DEF Copy
<1>2. pc \in Sending /\ pc \in Writing /\ list = <<>> /\ todo = <<>>
  BY <1>1 DEF IInv, Flow, Sending, Writing
<1>3. IsPacket(p) /\ body \in Seq(Byte)
  BY DEF IInv, TypeOK
<1>4. p.offset \in Nat /\ p.offset >= MIN_PACKET_SIZE /\ p.length \in Nat /\ p.offset <= p.length
  BY <1>2, LongEnough
<1>5. IsPacket(from) /\ part \in Seq(Byte) /\ Holds(from, 0, part) /\ Lists(rest', parts')
  <2>1. Lists(rest, parts)
    BY <1>1 DEF IInv, Parts
  <2>2. QED
    BY <1>1, <2>1, ListsHeadTail
<1>6. Wrapped(p) = p
  BY <1>2, NotWrapped
<1> HIDE DEF from, part
<1>7. from.offset = Len(part) /\ from.offset \in Nat
  BY <1>5 DEF Holds
<1>8. /\ IsPacket(p') /\ p'.offset = p.offset + Len(part) /\ p'.length >= p.length
      /\ \A i \in 0 .. p.offset - 1 : p'.data[i] = p.data[i]
      /\ \A k \in 1 .. Len(part) : p'.data[p.offset + k - 1] = part[k]
      /\ ~over' /\ over' \in BOOLEAN
  <2>0. ~over
    BY DEF IInv, InBlock
  <2>1. CASE from.offset = 0
    <3>1. p' = p /\ over' = over
      BY <1>6, <2>1 DEF Copy, from
    <3>2. Len(part) = 0
      BY <1>7, <2>1
    <3>3. /\ IsPacket(p') /\ p'.offset = p.offset + Len(part) /\ p'.length >= p.length
          /\ \A i \in 0 .. p.offset - 1 : p'.data[i] = p.data[i]
          /\ \A k \in 1 .. Len(part) : p'.data[p.offset + k - 1] = part[k]
      BY <1>3, <1>4, <3>1, <3>2
    <3>4. over' \in BOOLEAN
      BY <3>1 DEF IInv, TypeOK
    <3>5. ~over'
      BY <2>0, <3>1
    <3>6. QED
      BY <3>3, <3>4, <3>5
  <2>2. CASE from.offset # 0
    <3>1. /\ ~Tight(p, from)
          /\ p' = Moved(Stored(p, p.offset, Contents(from)), p.offset + from.offset)
          /\ over' = (over \/ ~Fits(p, p.offset, from.offset))
      BY <1>6, <2>2 DEF Copy, from, CopyPos
    <3>2. Contents(from) = part
      BY <1>5, PartContents
    <3>3. p.offset + from.offset <= p.length
      BY <1>4, <1>7, <3>1 DEF Tight
    <3>4. p.offset + Len(part) <= p.length
      BY <1>7, <3>3
    <3>5. p' = Moved(Stored(p, p.offset, part), p.offset + Len(part))
      BY <1>7, <3>1, <3>2
    <3>6. /\ IsPacket(p') /\ p'.offset = p.offset + Len(part) /\ p'.length = p.length
          /\ \A k \in 0 .. p.offset - 1 : p'.data[k] = p.data[k]
          /\ \A k \in 1 .. Len(part) : p'.data[p.offset + k - 1] = part[k]
      BY <1>3, <1>5, <3>4, <3>5, StoreBehind
    <3>10. ~over' /\ over' \in BOOLEAN
      <4>1. Fits(p, p.offset, from.offset)
        BY <3>3 DEF Fits
      <4>2. QED
        BY <2>0, <3>1, <4>1
    <3>11. QED
      BY <1>4, <3>6, <3>10
  <2>3. QED
    BY <2>1, <2>2
<1>9. body' \in Seq(Byte)
  <2>1. body' = body \o part
    BY <1>1 DEF part
  <2>2. QED
    BY <1>3, <1>5, <2>1, ConcatProperties
<1>10. TypeOK'
  <2>1. \A k \in 1 .. Len(rest') : IsPacket(rest'[k])
    BY <1>5, ListsTyped
  <2>2. UNCHANGED <<pc, todo, list, bytes>> /\ todo' = <<>>
    BY <1>1, <1>2
  <2>3. QED
    BY <1>8, <1>9, <2>1, <2>2 DEF IInv, TypeOK
<1>11. InBlock'
  BY <1>8 DEF InBlock
<1>12. SentAsWritten' /\ Reads'
  BY <1>1 DEF IInv, SentAsWritten, Reads
<1>13. Flow'
  BY <1>1, <1>2 DEF Flow
<1>14. Parts'
  <2>1. CASE rest' = <<>>
    <3>1. parts' = <<>>
      BY <1>5, <2>1, ListsNone
    <3>2. list' = <<>>
      BY <1>1, <1>2
    <3>3. QED
      BY <2>1, <3>1, <3>2, ListsEmpty DEF Parts
  <2>2. CASE rest' # <<>>
    BY <1>5, <2>2 DEF Parts
  <2>3. QED
    BY <2>1, <2>2
<1>15. Headed'
  <2>1. pc' = pc /\ head' = head
    BY <1>1
  <2>2. QED
    BY <1>2, <1>4, <1>8, <2>1, HeadKept
<1>16. Appends'
  <2>1. MIN_PACKET_SIZE \in Nat /\ Holds(p, MIN_PACKET_SIZE, body)
    BY <1>2 DEF IInv, Appends, MIN_PACKET_SIZE
  <2>2. Holds(p', MIN_PACKET_SIZE, body \o part)
    BY <1>3, <1>5, <1>8, <2>1, HoldsMore
  <2>3. pc' = pc /\ body' = body \o part
    BY <1>1 DEF part
  <2>4. QED
    BY <1>2, <2>2, <2>3 DEF Appends
<1>17. QED
  BY <1>10, <1>11, <1>12, <1>13, <1>14, <1>15, <1>16 DEF IInv

\* The packet is sent and freed.
LEMMA PacketSent == ASSUME IInv, jdwpSend PROVE IInv'
<1> DEFINE w == Contents(Stored(p, LENGTH_POS, U4(p.offset)))
<1>1. /\ pc \in Sending /\ todo = <<>> /\ list = <<>> /\ rest = <<>>
      /\ wire' = [ kind |-> pc, bytes |-> w, head |-> head, body |-> body ]
      /\ p' = None /\ body' = <<>> /\ pc' = "idle"
      /\ UNCHANGED <<in, req, got, todo, list, bytes, rest, head, parts, over>>
  BY DEF jdwpSend, Sends, Sending
<1>2. IsPacket(p) /\ body \in Seq(Byte)
  BY DEF IInv, TypeOK
<1>3. IsAsked(head) /\ HasHeader(p, head) /\ Holds(p, MIN_PACKET_SIZE, body)
  BY <1>1 DEF IInv, Headed, Appends, Writing, Sending
<1>4. SubSeq(w, 5, Len(w)) = head \o body /\ SubSeq(w, 1, 4) = U4(Len(w))
  BY <1>2, <1>3, SentBytes
<1> HIDE DEF w
<1>5. SentAsWritten'
  BY <1>1, <1>4 DEF SentAsWritten
<1>6. TypeOK'
  <2>1. IsPacket(p')
    BY <1>1, NewRaw DEF None
  <2>2. body' \in Seq(Byte)
    <3>1. body' = <<>>
      BY <1>1
    <3>2. QED
      BY <3>1
  <2>3. UNCHANGED <<todo, list, bytes, rest, over>> /\ pc' = "idle"
    BY <1>1
  <2>4. QED
    BY <2>1, <2>2, <2>3 DEF IInv, TypeOK
<1>7. InBlock' /\ Parts'
  BY <1>1 DEF IInv, InBlock, Parts
<1>8. Flow' /\ Headed' /\ Appends' /\ Reads'
  BY <1>1 DEF IInv, Flow, Headed, Appends, Reads, Writing, Sending
<1>9. QED
  BY <1>5, <1>6, <1>7, <1>8 DEF IInv

\* Two bytes are written.
LEMMA StoreTwo ==
  ASSUME NEW q, IsPacket(q), NEW at \in Nat, NEW a \in Byte, NEW b \in Byte
  PROVE  LET s == Stored(q, at, << a, b >>)
         IN  /\ IsPacket(s)
             /\ s.length = q.length
             /\ s.offset = q.offset
             /\ at + 1 < q.length => s.data[at] = a /\ s.data[at + 1] = b
             /\ \A i \in 0 .. q.length - 1 : i < at \/ i >= at + 2 => s.data[i] = q.data[i]
<1> DEFINE w == << a, b >>
           s == Stored(q, at, w)
<1>0. w \in Seq(Byte)
  OBVIOUS
<1>1. Len(w) = 2 /\ w[1] = a /\ w[2] = b
  OBVIOUS
<1>2. q.length \in Nat
  BY DEF IsPacket
<1> HIDE DEF w
<1>3. /\ IsPacket(s) /\ s.length = q.length /\ s.offset = q.offset
      /\ \A i \in 0 .. q.length - 1 : i < at \/ i >= at + Len(w) => s.data[i] = q.data[i]
      /\ \A k \in 1 .. Len(w) : at + k - 1 < q.length => s.data[at + k - 1] = w[k]
  BY <1>0, Store
<1> HIDE DEF s
<1>4. ASSUME at + 1 < q.length
      PROVE  s.data[at] = a /\ s.data[at + 1] = b
  <2>1. /\ 1 \in 1 .. Len(w) /\ at + 1 - 1 < q.length /\ at + 1 - 1 = at
        /\ 2 \in 1 .. Len(w) /\ at + 2 - 1 < q.length /\ at + 2 - 1 = at + 1
    BY <1>1, <1>2, <1>4
  <2>2. s.data[at + 1 - 1] = w[1] /\ s.data[at + 2 - 1] = w[2]
    BY <1>3, <2>1
  <2>3. QED
    BY <1>1, <2>1, <2>2
<1>5. \A i \in 0 .. q.length - 1 : i < at \/ i >= at + 2 => s.data[i] = q.data[i]
  BY <1>1, <1>3
<1>6. QED
  BY <1>3, <1>4, <1>5 DEF s, w

\* What an error answer sends: the id, the flags and the code.
LEMMA ErrorBytes ==
  ASSUME NEW id, IsId(id), NEW a \in Byte, NEW b \in Byte
  PROVE  LET w == Contents(Stored(Stored(newReplyPacket(U4(0), 0), ERROR_CODE_POS, << a, b >>),
                                  ID_POS, id))
         IN  SubSeq(w, 5, Len(w)) = (id \o <<REPLY_FLAG>> \o << a, b >>) \o <<>>
<1> DEFINE z == << a, b >>
           e == newReplyPacket(U4(0), 0)
           f == Stored(e, ERROR_CODE_POS, z)
           g == Stored(f, ID_POS, id)
           w == Contents(g)
           h == id \o << REPLY_FLAG, a, b >>
<1>0. REPLY_FLAG \in Byte
  BY DEF REPLY_FLAG, Byte
<1>1. IsPacket(e) /\ e.offset = 11 /\ e.length = 11 /\ e.data[8] = REPLY_FLAG
  <2>1. IsId(U4(0))
    BY DEF IsId, U4, Byte
  <2> DEFINE n == 0
             r == newReplyPacket(U4(0), n)
  <2>2. n \in Nat /\ n = 0
    OBVIOUS
  <2> HIDE DEF n
  <2>3. /\ IsPacket(r) /\ r.offset = MIN_PACKET_SIZE
        /\ r.length = n + MIN_PACKET_SIZE /\ r.data[8] = REPLY_FLAG
    BY <2>1, <2>2, ReplyHeader
  <2> HIDE DEF r
  <2>4. QED
    BY <2>2, <2>3 DEF r, n, MIN_PACKET_SIZE
<1> HIDE DEF e
<1>2. /\ IsPacket(f) /\ f.length = 11 /\ f.offset = 11
      /\ f.data[8] = REPLY_FLAG /\ f.data[9] = a /\ f.data[10] = b
  <2> DEFINE at == ERROR_CODE_POS
             r == Stored(e, at, << a, b >>)
  <2>1. at \in Nat /\ at = 9
    BY DEF ERROR_CODE_POS
  <2>2. IsPacket(e)
    BY <1>1
  <2> HIDE DEF at
  <2>3. /\ IsPacket(r) /\ r.length = e.length /\ r.offset = e.offset
        /\ at + 1 < e.length => r.data[at] = a /\ r.data[at + 1] = b
        /\ \A i \in 0 .. e.length - 1 : i < at \/ i >= at + 2 => r.data[i] = e.data[i]
    <3>1. at \in Nat
      BY <2>1
    <3>2. QED
      BY <2>2, <3>1, StoreTwo, SMTT(60)
  <2> HIDE DEF r
  <2>4. QED
    BY <1>1, <2>1, <2>3 DEF r, at
<1> HIDE DEF f
<1>3. /\ IsPacket(g) /\ g.length = 11 /\ HasId(g, id)
      /\ g.data[8] = REPLY_FLAG /\ g.data[9] = a /\ g.data[10] = b
  <2>1. /\ IsPacket(g) /\ g.length = f.length
        /\ f.length >= MIN_PACKET_SIZE => HasId(g, id)
        /\ \A i \in 0 .. f.length - 1 : i < 4 \/ i >= 8 => g.data[i] = f.data[i]
    <3>1. IsPacket(f)
      BY <1>2
    <3>2. QED
      BY <3>1, StoreId
  <2> HIDE DEF g
  <2>2. QED
    BY <1>2, <2>1 DEF MIN_PACKET_SIZE
<1>4. g.offset = 11
  BY <1>2 DEF Stored
<1> HIDE DEF g
<1>5. Len(w) = 11 /\ \A k \in 1 .. 11 : w[k] = g.data[k - 1]
  <2>1. w = [k \in 1 .. 11 |-> g.data[k - 1]]
    BY <1>4 DEF Contents
  <2> DEFINE S == { g.data[k - 1] : k \in 1 .. 11 }
             n == 11
  <2>2. w \in [1 .. n -> S] /\ n \in Nat
    BY <2>1
  <2> HIDE DEF n, S
  <2>3. w \in UNION { [1 .. m -> S] : m \in Nat }
    BY <2>2
  <2>4. w \in Seq(S)
    BY <2>3, SeqDef
  <2>5. DOMAIN w = 1 .. Len(w) /\ Len(w) \in Nat
    BY <2>4, LenProperties
  <2>6. DOMAIN w = 1 .. n
    BY <2>2
  <2>7. n = 11
    BY DEF n
  <2>8. QED
    BY <2>1, <2>5, <2>6, <2>7
<1> HIDE DEF w
<1>6. /\ h \in Seq(Byte) /\ Len(h) = 7
      /\ h[1] = id[1] /\ h[2] = id[2] /\ h[3] = id[3] /\ h[4] = id[4]
      /\ h[5] = REPLY_FLAG /\ h[6] = a /\ h[7] = b
  BY <1>0, Asked
<1>7. h = id \o <<REPLY_FLAG>> \o << a, b >>
  <2> DEFINE x == <<REPLY_FLAG>>
  <2>1. x \in Seq(Byte) /\ z \in Seq(Byte) /\ id \in Seq(Byte)
    BY <1>0 DEF IsId
  <2> DEFINE y == << REPLY_FLAG, a, b >>
             t == x \o z
  <2>a. /\ Len(x) = 1 /\ x[1] = REPLY_FLAG
        /\ Len(z) = 2 /\ z[1] = a /\ z[2] = b
        /\ Len(y) = 3 /\ y[1] = REPLY_FLAG /\ y[2] = a /\ y[3] = b
    OBVIOUS
  <2>b. y \in Seq(Byte)
    BY <1>0
  <2> HIDE DEF x, y, z
  <2>c. /\ t \in Seq(Byte) /\ Len(t) = Len(x) + Len(z)
        /\ \A k \in 1 .. Len(x) + Len(z) : t[k] = IF k <= Len(x) THEN x[k] ELSE z[k - Len(x)]
    BY <2>1, ConcatProperties
  <2> HIDE DEF t
  <2>d. t[1] = REPLY_FLAG /\ t[2] = a /\ t[3] = b
    BY <2>a, <2>c
  <2>e. \A k \in 1 .. Len(t) : t[k] = y[k]
    BY <2>a, <2>c, <2>d
  <2>2. x \o z = y
    BY <2>a, <2>b, <2>c, <2>e, SeqEqual DEF t
  <2>3. (id \o x) \o z = id \o (x \o z)
    BY <2>1, ConcatAssociative
  <2>4. QED
    BY <2>2, <2>3 DEF x, y, z
<1>8. h \o <<>> = h
  BY <1>6, ConcatEmptySeq
<1> HIDE DEF h
<1>9. ASSUME NEW k \in 1 .. Len(h)
      PROVE  w[5 + k - 1] = h[k]
  <2>1. k = 1 \/ k = 2 \/ k = 3 \/ k = 4 \/ k = 5 \/ k = 6 \/ k = 7
    BY <1>6
  <2>2. w[5 + k - 1] = g.data[k + 3]
    BY <1>5, <2>1, SMTT(60)
  <2>3. g.data[k + 3] = h[k]
    BY <1>3, <1>6, <2>1, SMTT(60) DEF HasId
  <2>4. QED
    BY <2>2, <2>3
<1>10. SubSeq(w, 5, 11) = h
  <2> DEFINE m == 5
  <2>1. h \in Seq(Byte) /\ m \in Nat /\ \A k \in 1 .. Len(h) : w[m + k - 1] = h[k]
    BY <1>6, <1>9
  <2>2. m = 5
    OBVIOUS
  <2> HIDE DEF m
  <2>3. SubSeq(w, m, m + Len(h) - 1) = h
    BY <2>1, SubSeqIs
  <2>4. m + Len(h) - 1 = 11
    BY <1>6, <2>2
  <2>5. QED
    BY <2>2, <2>3, <2>4
<1>11. QED
  BY <1>5, <1>7, <1>8, <1>10 DEF w, g, f, e, z

LEMMA ErrorSent == ASSUME IInv, jdwpSend_error PROVE IInv'
<1>1. /\ pc = "handle" /\ pc' = "idle"
      /\ UNCHANGED <<in, req, got, p, todo, list, bytes, rest, head, body, parts, over>>
  BY DEF jdwpSend_error
<1>2. PICK a \in Byte, b \in Byte :
        wire' = [ kind  |-> "error",
                  bytes |-> Contents(Stored(Stored(newReplyPacket(U4(0), 0),
                                                   ERROR_CODE_POS, << a, b >>),
                                            ID_POS, read_id(in))),
                  head  |-> req.id \o <<REPLY_FLAG>> \o << a, b >>,
                  body  |-> <<>> ]
  <2>1. PICK code \in { U2(20), U2(99) } :
          wire' = [ kind  |-> "error",
                    bytes |-> Contents(Stored(Stored(newReplyPacket(U4(0), 0),
                                                     ERROR_CODE_POS, code),
                                              ID_POS, read_id(in))),
                    head  |-> req.id \o <<REPLY_FLAG>> \o code,
                    body  |-> <<>> ]
    BY DEF jdwpSend_error, Sends
  <2>2. code = << 0, 20 >> \/ code = << 0, 99 >>
    BY DEF U2
  <2>3. 0 \in Byte /\ 20 \in Byte /\ 99 \in Byte
    BY DEF Byte
  <2>4. QED
    BY <2>1, <2>2, <2>3
<1>3. read_id(in) = req.id /\ IsId(req.id)
  BY <1>1, ReadId, PacketsAssumption, FourBytes DEF IInv
<1>4. SubSeq(wire'.bytes, 5, Len(wire'.bytes)) = wire'.head \o wire'.body
  BY <1>2, <1>3, ErrorBytes
<1>5. SentAsWritten'
  BY <1>2, <1>4 DEF SentAsWritten
<1>6. TypeOK' /\ InBlock' /\ Parts'
  BY <1>1 DEF IInv, TypeOK, InBlock, Parts
<1>7. Flow' /\ Headed' /\ Appends' /\ Reads'
  BY <1>1 DEF IInv, Flow, Headed, Appends, Reads, Writing, Sending
<1>8. QED
  BY <1>5, <1>6, <1>7 DEF IInv

LEMMA Stuttered == ASSUME IInv, UNCHANGED vars PROVE IInv'
<1>1. UNCHANGED <<pc, in, req, p, todo, list, bytes, rest, head, body, parts, over, wire>>
  BY DEF vars
<1>2. TypeOK' /\ InBlock' /\ Parts' /\ SentAsWritten'
  BY <1>1 DEF IInv, TypeOK, InBlock, Parts, SentAsWritten
<1>3. Flow' /\ Headed' /\ Appends' /\ Reads'
  BY <1>1 DEF IInv, Flow, Headed, Appends, Reads
<1>4. QED
  BY <1>2, <1>3 DEF IInv

LEMMA Preserved == IInv /\ [Next]_vars => IInv'
<1> SUFFICES ASSUME IInv, [Next]_vars PROVE IInv'
  OBVIOUS
<1>1. CASE onReceive
  BY <1>1, OnReceive
<1>2. CASE ReadNext
  BY <1>2, ReadsNext
<1>3. CASE dispatchAll
  BY <1>3, DispatchAll
<1>4. CASE jdwpSend_error
  BY <1>4, ErrorSent
<1>5. CASE NewPart
  BY <1>5, NewPartMade
<1>6. CASE add_Packet
  BY <1>6, AddPacket
<1>7. CASE newReply
  BY <1>7, NewReplyMade
<1>8. CASE NewComposite
  BY <1>8, CompositeMade
<1>9. ASSUME NEW item \in Items, Write(item)
      PROVE  IInv'
  BY <1>9, WriteCalled
<1>10. CASE WriteNext
  BY <1>10, WordWritten
<1>11. CASE write_list
  BY <1>11, ListHanded
<1>12. CASE Grow
  BY <1>12, Grown
<1>13. CASE Copy
  BY <1>13, Copied
<1>14. CASE jdwpSend
  BY <1>14, PacketSent
<1>15. CASE UNCHANGED vars
  BY <1>15, Stuttered
<1>16. QED
  BY <1>1, <1>2, <1>3, <1>4, <1>5, <1>6, <1>7, <1>8, <1>9, <1>10, <1>11, <1>12, <1>13, <1>14,
     <1>15 DEF Next

-----------------------------------------------------------------------------
\* Sequences of sequences

\* Flattening one sequence after the other.
LEMMA Flattened ==
  ASSUME NEW S, NEW seqs \in Seq(Seq(S))
  PROVE  \E flat \in [0 .. Len(seqs) -> Seq(S)] :
           /\ flat[0] = <<>>
           /\ \A n \in 1 .. Len(seqs) : flat[n] = flat[n - 1] \o seqs[n]
           /\ FlattenSeq(seqs) = flat[Len(seqs)]
<1> DEFINE N == Len(seqs)
           T == Seq(S)
           step == [x \in (1 .. N) \X T |-> x[2] \o seqs[x[1]]]
           Is(g) == g = [i \in 1 .. N |-> IF i = 1 THEN seqs[i] ELSE g[i - 1] \o seqs[i]]
           flatten == CHOOSE g : Is(g)
<1>1. N \in Nat /\ \A n \in 1 .. N : seqs[n] \in T
  BY LenProperties, ElementOfSeq
<1>2. \A s, t \in T : s \o t \in T
  BY ConcatProperties
<1>3. <<>> \in T
  OBVIOUS
<1>4. step \in [(1 .. N) \X T -> T]
  <2> HIDE DEF N, T
  <2>1. QED
    BY <1>1, <1>2
<1>5. PICK f \in [0 .. N -> T] :
             /\ f[0] = <<>>
             /\ \A n \in 1 .. N : f[n] = step[<<n, f[n - 1]>>]
  <2> HIDE DEF step, N, T
  <2>1. Defined(N, T, <<>>, step)
    BY <1>1, <1>3, <1>4, Recursive
  <2>2. QED
    BY <2>1 DEF Defined
<1>6. ASSUME NEW n \in 1 .. N
      PROVE  f[n - 1] \in T /\ f[n] = f[n - 1] \o seqs[n]
  <2> HIDE DEF N, T
  <2>1. n - 1 \in 0 .. N
    BY <1>1
  <2>2. f[n - 1] \in T
    BY <2>1
  <2>3. f[n] = step[<<n, f[n - 1]>>]
    BY <1>5
  <2>4. QED
    BY <2>2, <2>3
<1> HIDE DEF step
<1>7. \A s \in T : <<>> \o s = s
  BY ConcatEmptySeq
<1>14. ASSUME NEW n \in 1 .. N, n = 1
       PROVE  f[n] = seqs[n]
  <2> HIDE DEF N, T
  <2>1. n - 1 = 0
    BY <1>14
  <2>2. f[n] = <<>> \o seqs[n]
    BY <1>5, <1>6, <2>1
  <2>3. QED
    BY <1>1, <1>7, <2>2
<1>8. Is([i \in 1 .. N |-> f[i]])
  <2> DEFINE h == [i \in 1 .. N |-> f[i]]
  <2> HIDE DEF N, T
  <2>1. ASSUME NEW i \in 1 .. N
        PROVE  h[i] = IF i = 1 THEN seqs[i] ELSE h[i - 1] \o seqs[i]
    <3>1. CASE i = 1
      BY <1>14, <3>1
    <3>2. CASE i # 1
      <4>1. i - 1 \in 1 .. N
        BY <1>1, <3>2
      <4>2. QED
        BY <1>6, <3>2, <4>1
    <3>3. QED
      BY <3>1, <3>2
  <2>2. h = [i \in 1 .. N |-> h[i]]
    OBVIOUS
  <2> HIDE DEF h
  <2>3. h = [i \in 1 .. N |-> IF i = 1 THEN seqs[i] ELSE h[i - 1] \o seqs[i]]
    BY <2>1, <2>2
  <2>4. QED
    BY <2>3 DEF h
<1>9. Is(flatten)
  BY <1>8
<1>10. ASSUME NEW i \in 1 .. N
       PROVE  flatten[i] = IF i = 1 THEN seqs[i] ELSE flatten[i - 1] \o seqs[i]
  <2> HIDE DEF flatten, N, T
  <2>1. QED
    BY <1>9
<1> DEFINE Same == { n \in 0 .. N : n = 0 \/ flatten[n] = f[n] }
<1>11. 0 .. N \subseteq Same
  <2>1. ASSUME NEW n \in 1 .. N, n - 1 \in Same
        PROVE  n \in Same
    <3> HIDE DEF flatten, N, T
    <3>1. CASE n = 1
      BY <1>1, <1>10, <1>14, <3>1
    <3>2. CASE n # 1
      <4>1. n - 1 # 0
        BY <3>2
      <4>2. flatten[n - 1] = f[n - 1]
        BY <2>1, <4>1
      <4>3. QED
        <5>1. flatten[n] = f[n]
          BY <1>6, <1>10, <3>2, <4>2
        <5>2. n \in 0 .. N
          BY <1>1
        <5>3. QED
          BY <5>1, <5>2
    <3>3. QED
      BY <3>1, <3>2
  <2>2. 0 \in Same
    BY <1>1
  <2>3. \A n \in 1 .. N : n - 1 \in Same => n \in Same
    BY <2>1
  <2> HIDE DEF Same, N
  <2>4. QED
    BY <1>1, <2>2, <2>3, Induction
<1>12. FlattenSeq(seqs) = f[N]
  <2>1. CASE N = 0
    <3>1. seqs = <<>>
      BY <2>1, EmptySeq
    <3>2. FlattenSeq(seqs) = seqs
      BY <2>1 DEF FlattenSeq
    <3>3. QED
      BY <1>5, <2>1, <3>1, <3>2
  <2>2. CASE N # 0
    <3>1. FlattenSeq(seqs) = flatten[N]
      BY <2>2 DEF FlattenSeq
    <3> HIDE DEF flatten, N
    <3>2. N \in Same
      BY <1>1, <1>11
    <3>3. QED
      BY <2>2, <3>1, <3>2
  <2>3. QED
    BY <2>1, <2>2
<1>13. QED
  <2> HIDE DEF flatten
  <2>1. QED
    BY <1>5, <1>6, <1>12

\* Where each of the sequences begins in the flat one.
Pieces(seqs, at) ==
  /\ at[0] = 0
  /\ at[Len(seqs)] = Len(FlattenSeq(seqs))
  /\ \A n \in 1 .. Len(seqs) :
       /\ at[n] = at[n - 1] + Len(seqs[n])
       /\ at[n] <= Len(FlattenSeq(seqs))
       /\ \A i \in 1 .. Len(seqs[n]) : FlattenSeq(seqs)[at[n - 1] + i] = seqs[n][i]

LEMMA PiecesOf ==
  ASSUME NEW S, NEW seqs \in Seq(Seq(S))
  PROVE  /\ FlattenSeq(seqs) \in Seq(S)
         /\ \E at \in [0 .. Len(seqs) -> Nat] : Pieces(seqs, at)
<1> DEFINE N == Len(seqs)
           T == Seq(S)
<1>1. N \in Nat /\ \A n \in 1 .. N : seqs[n] \in T
  BY LenProperties, ElementOfSeq
<1>2. PICK flat \in [0 .. N -> T] :
        /\ flat[0] = <<>>
        /\ \A n \in 1 .. N : flat[n] = flat[n - 1] \o seqs[n]
        /\ FlattenSeq(seqs) = flat[N]
  BY Flattened
<1>3. \A n \in 0 .. N : flat[n] \in Seq(S) /\ Len(flat[n]) \in Nat
  BY LenProperties
<1>4. ASSUME NEW n \in 1 .. N
      PROVE  /\ n - 1 \in 0 .. N /\ n \in 0 .. N /\ Len(seqs[n]) \in Nat
             /\ Len(flat[n]) = Len(flat[n - 1]) + Len(seqs[n])
             /\ \A i \in 1 .. Len(flat[n - 1]) : flat[n][i] = flat[n - 1][i]
             /\ \A i \in 1 .. Len(seqs[n]) : flat[n][Len(flat[n - 1]) + i] = seqs[n][i]
  <2> DEFINE a == flat[n - 1]
             b == seqs[n]
             c == flat[n]
  <2>1. n - 1 \in 0 .. N /\ n \in 0 .. N
    BY <1>1
  <2>2. a \in Seq(S) /\ b \in Seq(S) /\ c = a \o b
    BY <1>1, <1>2, <2>1
  <2> HIDE DEF a, b, c
  <2>3. /\ Len(a) \in Nat /\ Len(b) \in Nat /\ Len(c) = Len(a) + Len(b)
        /\ \A i \in 1 .. Len(a) + Len(b) : c[i] = IF i <= Len(a) THEN a[i] ELSE b[i - Len(a)]
    BY <2>2, ConcatProperties, LenProperties
  <2>4. \A i \in 1 .. Len(a) : c[i] = a[i]
    BY <2>3
  <2>5. ASSUME NEW i \in 1 .. Len(b)
        PROVE  c[Len(a) + i] = b[i]
    <3>1. Len(a) + i \in 1 .. Len(a) + Len(b) /\ ~(Len(a) + i <= Len(a))
          /\ (Len(a) + i) - Len(a) = i
      BY <2>3
    <3>2. QED
      BY <2>3, <3>1
  <2>6. QED
    BY <2>1, <2>3, <2>4, <2>5 DEF a, b, c
<1> DEFINE Kept(k, n) == /\ Len(flat[k]) <= Len(flat[n])
                         /\ \A i \in 1 .. Len(flat[k]) : flat[n][i] = flat[k][i]
<1>5. ASSUME NEW k \in 0 .. N
      PROVE  Kept(k, N)
  <2> DEFINE M == { n \in 0 .. N : k <= n => Kept(k, n) }
  <2>1. 0 \in M
    BY <1>1, <1>3
  <2>2. ASSUME NEW n \in 1 .. N, n - 1 \in M
        PROVE  n \in M
    <3> SUFFICES ASSUME k <= n PROVE Kept(k, n)
      BY <1>4
    <3>1. CASE k = n
      BY <1>3, <3>1
    <3>2. CASE k # n
      <4>1. k <= n - 1
        BY <1>1, <3>2
      <4>2. Kept(k, n - 1)
        BY <2>2, <4>1
      <4> DEFINE a == flat[k]
                 b == flat[n - 1]
                 c == flat[n]
      <4>3. Len(a) \in Nat /\ Len(b) \in Nat /\ Len(c) \in Nat
        BY <1>3, <1>4
      <4>4. Len(b) <= Len(c) /\ \A i \in 1 .. Len(b) : c[i] = b[i]
        <5>1. Len(seqs[n]) \in Nat /\ Len(c) = Len(b) + Len(seqs[n])
          BY <1>4
        <5>2. \A i \in 1 .. Len(b) : c[i] = b[i]
          BY <1>4
        <5> HIDE DEF b, c
        <5>3. QED
          BY <4>3, <5>1, <5>2
      <4>5. Len(a) <= Len(b) /\ \A i \in 1 .. Len(a) : b[i] = a[i]
        BY <4>2
      <4> HIDE DEF a, b, c
      <4>6. Len(a) <= Len(c) /\ \A i \in 1 .. Len(a) : c[i] = a[i]
        BY <4>3, <4>4, <4>5
      <4>7. QED
        BY <4>6 DEF a, b, c
    <3>3. QED
      BY <3>1, <3>2
  <2>3. \A n \in 1 .. N : n - 1 \in M => n \in M
    BY <2>2
  <2>4. 0 .. N \subseteq M
    <3> HIDE DEF M, N
    <3>1. QED
      BY <1>1, <2>1, <2>3, Induction
  <2>5. N \in M
    BY <1>1, <2>4
  <2>6. QED
    BY <2>5
<1> DEFINE at == [n \in 0 .. N |-> Len(flat[n])]
<1>6. at \in [0 .. N -> Nat]
  BY <1>3
<1>7. \A n \in 0 .. N : at[n] = Len(flat[n])
  OBVIOUS
<1> HIDE DEF at
<1>8. at[0] = 0 /\ at[N] = Len(FlattenSeq(seqs))
  BY <1>1, <1>2, <1>7
<1>9. ASSUME NEW n \in 1 .. N
      PROVE  /\ at[n] = at[n - 1] + Len(seqs[n])
             /\ at[n] <= Len(FlattenSeq(seqs))
             /\ \A i \in 1 .. Len(seqs[n]) : FlattenSeq(seqs)[at[n - 1] + i] = seqs[n][i]
  <2>1. at[n] = Len(flat[n]) /\ at[n - 1] = Len(flat[n - 1])
    BY <1>4, <1>7
  <2>2. FlattenSeq(seqs) = flat[N] /\ Kept(n, N)
    BY <1>2, <1>4, <1>5
  <2>3. Len(flat[n]) \in Nat /\ Len(flat[n - 1]) \in Nat
    BY <1>3, <1>4
  <2>4. ASSUME NEW i \in 1 .. Len(seqs[n])
        PROVE  FlattenSeq(seqs)[at[n - 1] + i] = seqs[n][i]
    <3>1. at[n - 1] + i \in 1 .. Len(flat[n])
      <4> DEFINE a == Len(flat[n - 1])
                 b == Len(seqs[n])
      <4>1. Len(flat[n]) = a + b /\ b \in Nat
        BY <1>4
      <4>2. a \in Nat /\ at[n - 1] = a /\ i \in 1 .. b
        BY <2>1, <2>3
      <4> HIDE DEF a, b
      <4>3. QED
        BY <4>1, <4>2
    <3>2. FlattenSeq(seqs)[at[n - 1] + i] = flat[n][at[n - 1] + i]
      BY <2>2, <3>1
    <3>3. QED
      BY <1>4, <2>1, <3>2
  <2>5. QED
    BY <1>4, <2>1, <2>2, <2>4
<1>10. FlattenSeq(seqs) \in Seq(S)
  BY <1>1, <1>2
<1>11. Pieces(seqs, at)
  BY <1>8, <1>9 DEF Pieces
<1>12. QED
  BY <1>6, <1>10, <1>11

-----------------------------------------------------------------------------
\* Fields

BytesAreNats == Seq(Byte) \subseteq Seq(Nat)

LEMMA BytesNats == BytesAreNats
<1>1. Byte \subseteq Nat
  BY DEF Byte
<1>2. ASSUME NEW b \in Seq(Byte)
      PROVE  b \in Seq(Nat)
  <2>1. Len(b) \in Nat /\ b \in [1 .. Len(b) -> Nat]
    BY <1>1, LenProperties
  <2>2. QED
    BY <2>1, SeqDef
<1>3. QED
  BY <1>2 DEF BytesAreNats

LEMMA WordRead ==
  ASSUME NEW q, q.length \in Nat, NEW at \in Nat, NEW w \in Seq(Nat),
         at + Len(w) <= q.length,
         \A k \in 1 .. Len(w) : q.data[at + k - 1] = w[k]
  PROVE  WordFrom(q, at, Len(w)) = w
<1> DEFINE n == Len(w)
<1>1. n \in Nat /\ w = [k \in 1 .. n |-> w[k]]
  BY LenProperties
<1>2. ASSUME NEW k \in 1 .. n
      PROVE  at + k - 1 < q.length /\ q.data[at + k - 1] = w[k]
  <2> HIDE DEF n
  <2>1. at + k - 1 < q.length
    BY <1>1 DEF n
  <2>2. QED
    BY <2>1 DEF n
<1> HIDE DEF n
<1>3. [k \in 1 .. n |-> IF at + k - 1 < q.length THEN q.data[at + k - 1] ELSE Unset]
        = [k \in 1 .. n |-> w[k]]
  BY <1>2
<1>4. QED
  BY <1>1, <1>3 DEF WordFrom, n

LEMMA DivMod ==
  ASSUME NEW n \in Nat
  PROVE  n \div 256 \in Nat /\ n % 256 \in Nat /\ n = (n \div 256) * 256 + (n % 256)
OBVIOUS

LEMMA DivTwice ==
  ASSUME NEW n \in Nat
  PROVE  /\ n \div 65536 = (n \div 256) \div 256
         /\ n \div 16777216 = (n \div 65536) \div 256
OBVIOUS

LEMMA SumOfFour ==
  ASSUME NEW a \in Nat, NEW b \in Nat, NEW c \in Nat,
         NEW x \in Nat, NEW y \in Nat, NEW z \in Nat,
         a = b * 256 + y, b = c * 256 + z
  PROVE  c * 16777216 + z * 65536 + y * 256 + x = a * 256 + x
OBVIOUS

\* write_u4 and read_u4_buff are inverse to each other.
LEMMA NumberOf ==
  ASSUME NEW n \in Nat
  PROVE  Number(U4(n)) = n
<1> DEFINE a == n \div 256
           b == n \div 65536
           c == n \div 16777216
<1>1. b = a \div 256 /\ c = b \div 256
  BY DivTwice
<1>2. a \in Nat /\ n % 256 \in Nat /\ n = a * 256 + (n % 256)
  BY DivMod
<1> HIDE DEF a
<1>3. b \in Nat /\ a % 256 \in Nat /\ a = b * 256 + (a % 256)
  BY <1>1, <1>2, DivMod
<1> HIDE DEF b
<1>4. c \in Nat /\ b % 256 \in Nat /\ b = c * 256 + (b % 256)
  BY <1>1, <1>3, DivMod
<1>5. U4(n) = << c, b % 256, a % 256, n % 256 >>
  BY DEF U4, a, b
<1> HIDE DEF c
<1>6. Number(U4(n)) = c * 16777216 + (b % 256) * 65536 + (a % 256) * 256 + (n % 256)
  BY <1>5 DEF Number
<1> DEFINE x == n % 256
           y == a % 256
           z == b % 256
<1>7. /\ x \in Nat /\ y \in Nat /\ z \in Nat
      /\ n = a * 256 + x /\ a = b * 256 + y /\ b = c * 256 + z
      /\ Number(U4(n)) = c * 16777216 + z * 65536 + y * 256 + x
  BY <1>2, <1>3, <1>4, <1>6
<1> HIDE DEF x, y, z
<1>8. c * 16777216 + z * 65536 + y * 256 + x = a * 256 + x
  BY <1>2, <1>3, <1>4, <1>7, SumOfFour
<1>9. QED
  BY <1>7, <1>8

\* A length, and as many bytes.
LEMMA CountedBytes ==
  ASSUME NEW b \in Seq(Nat), NEW c, c = U4(Len(b)) \o b
  PROVE  /\ c \in Seq(Nat)
         /\ Len(c) = 4 + Len(b)
         /\ \A k \in 1 .. 4 : c[k] = U4(Len(b))[k]
         /\ \A k \in 1 .. Len(b) : c[4 + k] = b[k]
<1> DEFINE n == Len(b)
           u == U4(n)
<1>1. n \in Nat
  BY LenProperties
<1> HIDE DEF n
<1>2. u = << n \div 16777216, (n \div 65536) % 256, (n \div 256) % 256, n % 256 >>
  BY DEF U4
<1>3. Len(u) = 4
  BY <1>2
<1>4. u \in Seq(Nat)
  BY <1>1, U4Bytes
<1> HIDE DEF u
<1>5. /\ c \in Seq(Nat) /\ Len(c) = Len(u) + Len(b)
      /\ \A k \in 1 .. Len(u) + Len(b) : c[k] = IF k <= Len(u) THEN u[k] ELSE b[k - Len(u)]
  BY <1>4, ConcatProperties DEF u, n
<1>6. ASSUME NEW k \in 1 .. Len(b)
      PROVE  c[4 + k] = b[k]
  <2>1. 4 + k \in 1 .. Len(u) + Len(b) /\ ~ (4 + k <= Len(u)) /\ (4 + k) - Len(u) = k
    BY <1>1, <1>3 DEF n
  <2>2. c[4 + k] = b[(4 + k) - Len(u)]
    BY <1>5, <2>1
  <2>3. QED
    BY <2>1, <2>2
<1>7. ASSUME NEW k \in 1 .. 4
      PROVE  c[k] = u[k]
  <2>1. k \in 1 .. Len(u) + Len(b) /\ k <= Len(u)
    BY <1>1, <1>3 DEF n
  <2>2. QED
    BY <1>5, <2>1
<1>8. QED
  BY <1>3, <1>5, <1>6, <1>7 DEF n, u

\* A block that has the bytes b from position at on.
Has(q, at, b) ==
  /\ q.length \in Nat
  /\ at \in Nat
  /\ at + Len(b) <= q.length
  /\ \A k \in 1 .. Len(b) : q.data[at + k - 1] = b[k]

\* A length and as many bytes are read back.
LEMMA CountedRead ==
  ASSUME NEW q, NEW at, NEW b \in Seq(Nat), Has(q, at, U4(Len(b)) \o b)
  PROVE  /\ Number(WordFrom(q, at, 4)) = Len(b)
         /\ WordFrom(q, at + 4, Len(b)) = b
         /\ at + 4 + Len(b) = at + Len(U4(Len(b)) \o b)
<1> DEFINE c == U4(Len(b)) \o b
           u == U4(Len(b))
<1>1. /\ Len(c) = 4 + Len(b)
      /\ \A k \in 1 .. 4 : c[k] = u[k]
      /\ \A k \in 1 .. Len(b) : c[4 + k] = b[k]
  BY CountedBytes
<1>2. /\ q.length \in Nat /\ at \in Nat /\ at + Len(c) <= q.length
      /\ \A k \in 1 .. Len(c) : q.data[at + k - 1] = c[k]
  BY DEF Has
<1>3. Len(b) \in Nat
  BY LenProperties
<1>4. u \in Seq(Nat) /\ Len(u) = 4 /\ Number(u) = Len(b)
  <2> DEFINE n == Len(b)
  <2>1. n \in Nat
    BY <1>3
  <2> HIDE DEF n
  <2>2. U4(n) \in Seq(Nat) /\ Number(U4(n)) = n
    BY <2>1, U4Bytes, NumberOf
  <2>3. Len(U4(n)) = 4
    BY DEF U4
  <2>4. QED
    BY <2>2, <2>3 DEF n
<1> HIDE DEF c, u
<1>5. Number(WordFrom(q, at, 4)) = Len(b)
  <2>1. ASSUME NEW k \in 1 .. 4
        PROVE  q.data[at + k - 1] = u[k]
    <3>1. k \in 1 .. Len(c)
      BY <1>1, <1>3
    <3>2. QED
      BY <1>1, <1>2, <3>1
  <2>2. at + Len(u) <= q.length
    BY <1>1, <1>2, <1>3, <1>4
  <2>3. \A k \in 1 .. Len(u) : q.data[at + k - 1] = u[k]
    BY <1>4, <2>1
  <2>4. WordFrom(q, at, Len(u)) = u
    BY <1>2, <1>4, <2>2, <2>3, WordRead
  <2>5. QED
    BY <1>4, <2>4
<1>6. ASSUME NEW k \in 1 .. Len(b)
      PROVE  q.data[(at + 4) + k - 1] = b[k]
  <2>1. 4 + k \in 1 .. Len(c) /\ at + (4 + k) - 1 = (at + 4) + k - 1
    BY <1>1, <1>2, <1>3
  <2>2. q.data[at + (4 + k) - 1] = c[4 + k]
    BY <1>2, <2>1
  <2>3. QED
    BY <1>1, <2>1, <2>2
<1>7. WordFrom(q, at + 4, Len(b)) = b
  <2> DEFINE s == at + 4
  <2>1. s \in Nat /\ s + Len(b) <= q.length
    BY <1>1, <1>2, <1>3
  <2>2. \A k \in 1 .. Len(b) : q.data[s + k - 1] = b[k]
    BY <1>6
  <2> HIDE DEF s
  <2>3. WordFrom(q, s, Len(b)) = b
    BY <1>2, <2>1, <2>2, WordRead
  <2>4. QED
    BY <2>3 DEF s
<1>8. at + 4 + Len(b) = at + Len(c)
  BY <1>1, <1>2, <1>3
<1>9. QED
  BY <1>5, <1>7, <1>8 DEF c

LEMMA FieldBytes ==
  ASSUME NEW f, Plain(f)
  PROVE  Field(f) \in Seq(Nat) /\ f.value \in Seq(Nat)
<1>1. f.value \in Seq(Nat)
  BY BytesNats DEF Plain, BytesAreNats
<1>2. CASE f.kind = "word"
  BY <1>1, <1>2 DEF Field
<1>3. CASE f.kind # "word"
  <2>1. Field(f) = U4(Len(f.value)) \o f.value
    BY <1>3 DEF Field
  <2>2. QED
    BY <1>1, <2>1, CountedBytes
<1>4. QED
  BY <1>2, <1>3

\* A field is read back.
LEMMA FieldRead ==
  ASSUME NEW f, Plain(f), ReadField(f), Has(in, in.offset, Field(f))
  PROVE  in' = Moved(in, in.offset + Len(Field(f))) /\ got' = Append(got, f.value)
<1>1. CASE f.kind = "word"
  <2> DEFINE w == f.value
  <2>6. Field(f) = w /\ w \in Seq(Nat)
    BY <1>1, FieldBytes DEF Field
  <2>7. Len(w) <= 8 /\ (Len(w) = 8 => w[5] < 128 /\ \A k \in 1 .. 4 : w[k] = 0)
    BY <1>1 DEF Plain
  <2>1. Field(f) = w /\ w \in Seq(Nat) /\ Len(w) <= 8
        /\ (Len(w) = 8 => w[5] < 128 /\ \A k \in 1 .. 4 : w[k] = 0)
    BY <2>6, <2>7
  <2>2. WordFrom(in, in.offset, Len(w)) = w
    <3>1. Has(in, in.offset, w)
      BY <2>6
    <3> HIDE DEF w
    <3>2. QED
      BY <2>6, <3>1, WordRead DEF Has
  <2>3. read_buff(w) = w
    <3>1. CASE Len(w) < 8
      BY <3>1 DEF read_buff
    <3>2. CASE ~ (Len(w) < 8)
      <4> HIDE DEF w
      <4>1. Len(w) \in Nat /\ w \in [1 .. Len(w) -> Nat]
        BY <2>1, LenProperties
      <4>2. Len(w) = 8
        <5> DEFINE n == Len(w)
        <5>1. n \in Nat /\ n <= 8 /\ ~ (n < 8)
          BY <2>1, <3>2, <4>1
        <5> HIDE DEF n
        <5>2. n = 8
          BY <5>1
        <5>3. QED
          BY <5>2 DEF n
      <4>3. w[5] \in Nat /\ w[5] < 128 /\ \A k \in 1 .. 4 : w[k] = 0
        BY <2>1, <4>1, <4>2
      <4>4. ~ (w[5] >= 128)
        BY <4>3
      <4>5. read_buff(w) = [k \in 1 .. 8 |-> IF k <= 4 THEN 0 ELSE w[k]]
        BY <3>2, <4>4 DEF read_buff
      <4>6. w = [k \in 1 .. 8 |-> w[k]]
        BY <4>1, <4>2
      <4>7. \A k \in 1 .. 8 : (IF k <= 4 THEN 0 ELSE w[k]) = w[k]
        BY <4>3
      <4>8. QED
        BY <4>5, <4>6, <4>7
    <3>3. QED
      BY <3>1, <3>2
  <2>4. /\ in' = Moved(in, in.offset + Len(w))
        /\ got' = Append(got, read_buff(WordFrom(in, in.offset, Len(w))))
    BY <1>1 DEF ReadField
  <2>5. QED
    BY <2>1, <2>2, <2>3, <2>4
<1>2. CASE f.kind # "word"
  <2> DEFINE b == f.value
             count == Number(WordFrom(in, in.offset, 4))
  <2>1. Field(f) = U4(Len(b)) \o b /\ b \in Seq(Nat)
    BY <1>2, FieldBytes DEF Field
  <2>2. /\ count = Len(b)
        /\ WordFrom(in, in.offset + 4, Len(b)) = b
        /\ in.offset + 4 + Len(b) = in.offset + Len(Field(f))
    <3> HIDE DEF b
    <3>1. QED
      BY <2>1, CountedRead
  <2>3. /\ in' = Moved(in, in.offset + 4 + count)
        /\ got' = Append(got, WordFrom(in, in.offset + 4, count))
    BY <1>2 DEF ReadField
  <2> HIDE DEF b, count
  <2>4. QED
    BY <2>2, <2>3 DEF b
<1>3. QED
  BY <1>1, <1>2

-----------------------------------------------------------------------------
\* Reading a command

Fields(r) == [k \in 1 .. Len(r.fields) |-> Field(r.fields[k])]

\* The block q holds what r says, and n of its fields have been read.
Reading(r, q, n) ==
  \E at \in [0 .. Len(r.fields) -> Nat] :
    /\ Pieces(Fields(r), at)
    /\ q.length = MIN_PACKET_SIZE + Len(r.payload)
    /\ q.offset = MIN_PACKET_SIZE + at[n]
    /\ \A k \in 1 .. Len(r.payload) : q.data[10 + k] = r.payload[k]

\* A command is being handled.
Commanded == pc \in { "handle", "part of answer" }

\* The position is at the field that is read next.
ReadInv ==
  /\ req \in Requests
  /\ got \in Seq(Seq(Nat))
  /\ Len(got) <= Len(req.fields)
  /\ \A k \in 1 .. Len(got) : got[k] = req.fields[k].value
  /\ Commanded => Reading(req, in, Len(got))

LEMMA FieldsOf ==
  ASSUME PlainRequests, NEW r \in Requests
  PROVE  /\ Len(r.fields) \in Nat /\ Len(r.payload) \in Nat
         /\ Fields(r) \in Seq(Seq(Nat)) /\ Len(Fields(r)) = Len(r.fields)
         /\ FlattenSeq(Fields(r)) = r.payload
         /\ \A k \in 1 .. Len(r.fields) : Plain(r.fields[k]) /\ Fields(r)[k] = Field(r.fields[k])
<1> DEFINE n == Len(r.fields)
           s == [k \in 1 .. n |-> Field(r.fields[k])]
<1>1. n \in Nat /\ \A k \in 1 .. n : Plain(r.fields[k])
  BY DEF PlainRequests
<1>2. \A k \in 1 .. n : Field(r.fields[k]) \in Seq(Nat)
  BY <1>1, FieldBytes
<1>3. s \in Seq(Seq(Nat)) /\ Len(s) = n
  <2> HIDE DEF n
  <2>1. QED
    BY <1>1, <1>2
<1>4. r.payload = FlattenSeq(s)
  BY DEF PlainRequests, Command
<1>5. \A k \in 1 .. n : s[k] = Field(r.fields[k])
  OBVIOUS
<1> HIDE DEF s
<1>6. FlattenSeq(s) \in Seq(Nat)
  BY <1>3, PiecesOf
<1>7. Len(FlattenSeq(s)) \in Nat
  BY <1>6, LenProperties
<1>8. Fields(r) = s
  BY DEF Fields, s
<1>9. QED
  BY <1>1, <1>3, <1>4, <1>5, <1>7, <1>8

\* The payload lies behind the header, and nothing of it has been read.
LEMMA PayloadRead ==
  ASSUME PacketsAssumption, NEW r \in Requests
  PROVE  LET q == FromHeaderPayload(r)
         IN  /\ q.length = MIN_PACKET_SIZE + Len(r.payload)
             /\ q.offset = MIN_PACKET_SIZE
             /\ \A k \in 1 .. Len(r.payload) : q.data[10 + k] = r.payload[k]
<1> DEFINE size == MIN_PACKET_SIZE + Len(r.payload)
           z == << CMD_FLAG, 1, 1 >>
           g == U4(size) \o r.id
           header == g \o z
           a == newRawPacket(size)
           b == Stored(a, 0, header)
           c == Stored(b, DATA_VARIABLE_POS, r.payload)
<1>1. r.id \in [1 .. 4 -> Byte] /\ Len(r.payload) \in Nat
  BY DEF PacketsAssumption
<1>2. size \in Nat /\ size = 11 + Len(r.payload)
  BY <1>1 DEF MIN_PACKET_SIZE
<1>3. FromHeaderPayload(r) = Moved(c, DATA_VARIABLE_POS)
  BY DEF FromHeaderPayload
<1> HIDE DEF size
<1>4. Sized(a) /\ a.length = size
  BY <1>2 DEF newRawPacket, Sized
<1>5. z \in Seq(Nat) /\ U4(size) \in Seq(Nat) /\ r.id \in Seq(Nat)
  BY <1>1, <1>2, U4Bytes, IdNats DEF CMD_FLAG
<1> HIDE DEF z
<1>6. Len(header) \in Nat
  <2>1. g \in Seq(Nat)
    BY <1>5, ConcatProperties
  <2> HIDE DEF g
  <2>2. header \in Seq(Nat)
    BY <1>5, <2>1, ConcatProperties
  <2> HIDE DEF header
  <2>3. QED
    BY <2>2, LenProperties
<1> HIDE DEF a, header
<1>7. Sized(b) /\ b.length = a.length
  <2> DEFINE at == 0
             s == Stored(a, at, header)
  <2>1. at \in Nat
    OBVIOUS
  <2> HIDE DEF at
  <2>2. Sized(s) /\ s.length = a.length
    BY <1>4, <1>6, <2>1, StoreAny
  <2>3. QED
    BY <2>2 DEF at
<1> HIDE DEF b
<1>8. /\ c.length = b.length
      /\ \A k \in 1 .. Len(r.payload) :
           DATA_VARIABLE_POS + k - 1 < b.length => c.data[DATA_VARIABLE_POS + k - 1] = r.payload[k]
  <2> DEFINE at == DATA_VARIABLE_POS
             new == r.payload
             s == Stored(b, at, new)
  <2>1. at \in Nat /\ Len(new) \in Nat
    BY <1>1 DEF DATA_VARIABLE_POS
  <2> HIDE DEF at, new
  <2>2. /\ s.length = b.length
        /\ \A k \in 1 .. Len(new) : at + k - 1 < b.length => s.data[at + k - 1] = new[k]
    BY <1>7, <2>1, StoreAny
  <2>3. QED
    BY <2>2 DEF at, new
<1> HIDE DEF c
<1>9. ASSUME NEW k \in 1 .. Len(r.payload)
      PROVE  c.data[10 + k] = r.payload[k]
  <2>1. DATA_VARIABLE_POS + k - 1 < b.length /\ DATA_VARIABLE_POS + k - 1 = 10 + k
    BY <1>1, <1>2, <1>4, <1>7 DEF DATA_VARIABLE_POS
  <2>2. QED
    BY <1>8, <2>1
<1>10. c.length = size
  BY <1>4, <1>7, <1>8
<1>11. QED
  BY <1>3, <1>9, <1>10 DEF Moved, MIN_PACKET_SIZE, DATA_VARIABLE_POS, size

LEMMA ReadingStarts ==
  ASSUME PacketsAssumption, PlainRequests, NEW r \in Requests
  PROVE  Reading(r, FromHeaderPayload(r), 0)
<1> DEFINE q == FromHeaderPayload(r)
<1>1. /\ Fields(r) \in Seq(Seq(Nat)) /\ Len(Fields(r)) = Len(r.fields)
  BY FieldsOf
<1>2. PICK at \in [0 .. Len(Fields(r)) -> Nat] : Pieces(Fields(r), at)
  BY <1>1, PiecesOf
<1>3. at \in [0 .. Len(r.fields) -> Nat] /\ at[0] = 0
  BY <1>1, <1>2 DEF Pieces
<1>4. /\ q.length = MIN_PACKET_SIZE + Len(r.payload)
      /\ q.offset = MIN_PACKET_SIZE
      /\ \A k \in 1 .. Len(r.payload) : q.data[10 + k] = r.payload[k]
  BY PayloadRead
<1> HIDE DEF q
<1>5. q.offset = MIN_PACKET_SIZE + at[0]
  BY <1>3, <1>4 DEF MIN_PACKET_SIZE
<1>6. Reading(r, q, 0)
  BY <1>2, <1>3, <1>4, <1>5 DEF Reading
<1>7. QED
  BY <1>6 DEF q

LEMMA Inside ==
  ASSUME NEW m \in Nat, NEW x \in Nat, NEW l \in Nat, m + x <= l, NEW k \in 1 .. x
  PROVE  m + k \in 1 .. l /\ (11 + m) + k - 1 = 10 + (m + k)
OBVIOUS

\* The next field stands at the position.
LEMMA ReadingField ==
  ASSUME PlainRequests, NEW r \in Requests, NEW q, NEW n \in Nat, n < Len(r.fields),
         Reading(r, q, n),
         NEW f, f = r.fields[n + 1]
  PROVE  /\ Plain(f)
         /\ Has(q, q.offset, Field(f))
         /\ Reading(r, Moved(q, q.offset + Len(Field(f))), n + 1)
<1>1. /\ Len(r.fields) \in Nat /\ Len(r.payload) \in Nat
      /\ Len(Fields(r)) = Len(r.fields)
      /\ FlattenSeq(Fields(r)) = r.payload
      /\ \A k \in 1 .. Len(r.fields) : Plain(r.fields[k]) /\ Fields(r)[k] = Field(r.fields[k])
  BY FieldsOf
<1>2. n + 1 \in 1 .. Len(r.fields) /\ n \in 0 .. Len(r.fields) /\ (n + 1) - 1 = n
  BY <1>1
<1>3. Plain(f) /\ Fields(r)[n + 1] = Field(f)
  BY <1>1, <1>2
<1>4. PICK at \in [0 .. Len(r.fields) -> Nat] :
        /\ Pieces(Fields(r), at)
        /\ q.length = MIN_PACKET_SIZE + Len(r.payload)
        /\ q.offset = MIN_PACKET_SIZE + at[n]
        /\ \A k \in 1 .. Len(r.payload) : q.data[10 + k] = r.payload[k]
  BY DEF Reading
<1> DEFINE w == Field(f)
           m == at[n]
<1>5. /\ at[n + 1] = m + Len(w)
      /\ at[n + 1] <= Len(r.payload)
      /\ \A i \in 1 .. Len(w) : r.payload[m + i] = w[i]
  BY <1>1, <1>2, <1>3, <1>4 DEF Pieces
<1>6. m \in Nat /\ Len(w) \in Nat
  BY <1>2, <1>3, <1>4, FieldBytes, LenProperties
<1>7. q.length = 11 + Len(r.payload) /\ q.offset = 11 + m
  BY <1>4 DEF MIN_PACKET_SIZE
<1> HIDE DEF w, m
<1>8. Has(q, q.offset, w)
  <2>1. ASSUME NEW k \in 1 .. Len(w)
        PROVE  q.data[q.offset + k - 1] = w[k]
    <3> DEFINE l == Len(r.payload)
               x == Len(w)
    <3>3. l \in Nat /\ x \in Nat /\ m \in Nat /\ m + x <= l /\ k \in 1 .. x
      BY <1>1, <1>5, <1>6
    <3> HIDE DEF l, x
    <3>4. m + k \in 1 .. l /\ (11 + m) + k - 1 = 10 + (m + k)
      BY <3>3, Inside
    <3>1. m + k \in 1 .. Len(r.payload) /\ q.offset + k - 1 = 10 + (m + k)
      BY <1>7, <3>4 DEF l
    <3>2. QED
      BY <1>4, <1>5, <3>1
  <2>2. q.length \in Nat /\ q.offset \in Nat /\ q.offset + Len(w) <= q.length
    BY <1>1, <1>5, <1>6, <1>7
  <2>3. QED
    BY <2>1, <2>2 DEF Has
<1>9. Reading(r, Moved(q, q.offset + Len(w)), n + 1)
  <2> DEFINE t == Moved(q, q.offset + Len(w))
  <2>1. t.length = q.length /\ t.data = q.data /\ t.offset = q.offset + Len(w)
    BY DEF Moved
  <2> HIDE DEF t
  <2>2. t.offset = MIN_PACKET_SIZE + at[n + 1]
    BY <1>5, <1>6, <1>7, <2>1 DEF MIN_PACKET_SIZE
  <2>3. Reading(r, t, n + 1)
    BY <1>4, <2>1, <2>2 DEF Reading
  <2>4. QED
    BY <2>3 DEF t
<1>10. QED
  BY <1>3, <1>8, <1>9 DEF w

\* The command and what was read from it stay as they are.
Kept ==
  /\ UNCHANGED << in, req, got >>
  /\ Commanded' => Commanded

\* The other actions leave the command alone.
LEMMA CommandKept == [Next]_vars => onReceive \/ ReadNext \/ Kept
<1>1. ASSUME dispatchAll
      PROVE  Kept
  BY <1>1, Zenon DEF dispatchAll, Kept, Commanded
<1>2. ASSUME jdwpSend_error
      PROVE  Kept
  BY <1>2, Zenon DEF jdwpSend_error, Kept, Commanded
<1>3. ASSUME NewPart
      PROVE  Kept
  BY <1>3, Zenon DEF NewPart, Kept, Commanded
<1>4. ASSUME add_Packet
      PROVE  Kept
  BY <1>4, Zenon DEF add_Packet, Kept, Commanded
<1>5. ASSUME newReply
      PROVE  Kept
  BY <1>5, Zenon DEF newReply, NewPacket, Kept, Commanded
<1>6. ASSUME NewComposite
      PROVE  Kept
  BY <1>6, Zenon DEF NewComposite, NewPacket, Kept, Commanded
<1>7. ASSUME WriteNext
      PROVE  Kept
  BY <1>7, Zenon DEF WriteNext, Kept, Commanded
<1>8. ASSUME write_list
      PROVE  Kept
  BY <1>8, Zenon DEF write_list, Kept, Commanded
<1>9. ASSUME Grow
      PROVE  Kept
  BY <1>9, Zenon DEF Grow, Kept, Commanded
<1>10. ASSUME Copy
      PROVE  Kept
  BY <1>10, Zenon DEF Copy, Kept, Commanded
<1>11. ASSUME jdwpSend
      PROVE  Kept
  BY <1>11, Zenon DEF jdwpSend, Kept, Commanded
<1>12. ASSUME UNCHANGED vars
      PROVE  Kept
  BY <1>12, Zenon DEF vars, Kept, Commanded
<1>13. ASSUME NEW item \in Items, Write(item)
      PROVE  Kept
  BY <1>13, Zenon DEF Write, Kept, Commanded
<1>14. QED
  BY <1>1, <1>2, <1>3, <1>4, <1>5, <1>6, <1>7, <1>8, <1>9, <1>10, <1>11, <1>12, <1>13 DEF Next

LEMMA ReadPreserved ==
  ASSUME PacketsAssumption, PlainRequests
  PROVE  ReadInv /\ [Next]_vars => ReadInv'
<1> SUFFICES ASSUME ReadInv, [Next]_vars PROVE ReadInv'
  OBVIOUS
<1>1. /\ req \in Requests /\ got \in Seq(Seq(Nat)) /\ Len(got) <= Len(req.fields)
      /\ \A k \in 1 .. Len(got) : got[k] = req.fields[k].value
      /\ Commanded => Reading(req, in, Len(got))
  BY DEF ReadInv
<1>2. CASE onReceive
  <2>1. PICK r \in Requests : req' = r /\ in' = FromHeaderPayload(r) /\ got' = <<>>
    BY <1>2 DEF onReceive
  <2>2. Reading(req', in', 0) /\ Len(req'.fields) \in Nat
    BY <2>1, ReadingStarts, FieldsOf
  <2>3. got' \in Seq(Seq(Nat)) /\ Len(got') = 0
    BY <2>1
  <2>4. Len(got') <= Len(req'.fields)
    BY <2>2, <2>3
  <2>5. \A k \in 1 .. Len(got') : got'[k] = req'.fields[k].value
    BY <2>3
  <2>6. QED
    BY <2>1, <2>2, <2>3, <2>4, <2>5 DEF ReadInv
<1>3. CASE ReadNext
  <2> DEFINE n == Len(got)
             f == req.fields[n + 1]
             v == f.value
  <2>1. pc = "handle" /\ n < Len(req.fields) /\ ReadField(f) /\ pc' = pc /\ req' = req
    BY <1>3 DEF ReadNext
  <2>2. n \in Nat
    BY <1>1, LenProperties
  <2>3. Reading(req, in, n)
    BY <1>1, <2>1 DEF Commanded
  <2> HIDE DEF n
  <2> DEFINE t == Moved(in, in.offset + Len(Field(f)))
  <2>4. Plain(f) /\ Has(in, in.offset, Field(f)) /\ Reading(req, t, n + 1)
    BY <1>1, <2>1, <2>2, <2>3, ReadingField
  <2>5. in' = t /\ got' = Append(got, v)
    BY <2>1, <2>4, FieldRead
  <2>6. v \in Seq(Nat)
    BY <2>4, FieldBytes
  <2> HIDE DEF t, v
  <2>7. /\ got' \in Seq(Seq(Nat)) /\ Len(got') = n + 1
        /\ \A k \in 1 .. n : got'[k] = got[k]
        /\ got'[n + 1] = v
    BY <1>1, <2>5, <2>6, AppendProperties DEF n
  <2>8. \A k \in 1 .. Len(got') : got'[k] = req'.fields[k].value
    <3>1. \A k \in 1 .. n + 1 : k \in 1 .. n \/ k = n + 1
      BY <2>2
    <3>2. \A k \in 1 .. n : got[k] = req.fields[k].value
      BY <1>1 DEF n
    <3>3. QED
      BY <2>1, <2>7, <3>1, <3>2 DEF v
  <2>9. Len(got') <= Len(req'.fields)
    <3>1. Len(req.fields) \in Nat
      BY <1>1, FieldsOf
    <3>2. QED
      BY <2>1, <2>2, <2>7, <3>1
  <2>10. Reading(req', in', Len(got'))
    BY <2>1, <2>4, <2>5, <2>7 DEF Commanded
  <2>11. req' \in Requests
    BY <1>1, <2>1
  <2>12. QED
    BY <2>7, <2>8, <2>9, <2>10, <2>11 DEF ReadInv
<1>4. CASE Kept
  <2>1. Commanded' => Reading(req', in', Len(got'))
    BY <1>1, <1>4 DEF Kept
  <2>2. QED
    BY <1>1, <1>4, <2>1 DEF Kept, ReadInv
<1>5. QED
  BY <1>2, <1>3, <1>4, CommandKept

LEMMA ReadInitially ==
  ASSUME PlainRequests
  PROVE  Init => ReadInv
<1> SUFFICES ASSUME Init PROVE ReadInv
  OBVIOUS
<1>1. req \in Requests /\ got = <<>> /\ pc = "idle"
  BY DEF Init
<1>2. Len(req.fields) \in Nat
  BY <1>1, FieldsOf
<1>3. got \in Seq(Seq(Nat)) /\ Len(got) = 0
  BY <1>1
<1>4. Len(got) <= Len(req.fields)
  BY <1>2, <1>3
<1>5. \A k \in 1 .. Len(got) : got[k] = req.fields[k].value
  BY <1>3
<1>6. QED
  BY <1>1, <1>3, <1>4, <1>5 DEF ReadInv, Commanded

-----------------------------------------------------------------------------
\* The theorems

LEMMA Invariance == Spec => []IInv
BY Initially, Preserved, PTL DEF Spec

\* The offset of a packet never passes its length, and no two writers are at
\* work on one packet.
THEOREM PacketsTyped == Spec => []TypeOK
<1>1. IInv => TypeOK
  BY DEF IInv
<1>2. QED
  BY <1>1, Invariance, PTL

\* No byte is stored outside its block (write_u1 to write_u8, write_packet,
\* newReplyPacket, newCommandPacket), for any estimate of any caller.
THEOREM StoresInBlock == Spec => []InBlock
<1>1. IInv => InBlock
  BY DEF IInv
<1>2. QED
  BY <1>1, Invariance, PTL

\* What is sent is what was asked for, in the order in which it was asked for,
\* for any items, parts, lists and estimates.
THEOREM NothingLostOnTheWay == Spec => []SentAsWritten
<1>1. IInv => SentAsWritten
  BY DEF IInv
<1>2. QED
  BY <1>1, Invariance, PTL

\* The handlers get the values the debugger wrote (read_u1 to read_u8,
\* read_str), whatever the fields of the command, their number and their order
\* and however long the strings; the words of eight bytes have 31 bits.
THEOREM FieldsReadRight ==
  ASSUME PlainRequests
  PROVE  Spec => []ReadAsWritten
<1>1. Init => ReadInv
  BY ReadInitially
<1>2. ReadInv /\ [Next]_vars => ReadInv'
  BY ReadPreserved, PacketsAssumption
<1>3. ReadInv => ReadAsWritten
  BY DEF ReadInv, ReadAsWritten
<1>4. QED
  BY <1>1, <1>2, <1>3, PTL DEF Spec

=============================================================================
