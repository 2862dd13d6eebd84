---------------------------- MODULE Answers_proofs ----------------------------
(* What RefTypes and Answers guarantee for any file of classes and any     *)
(* threads.                                                                *)
EXTENDS Answers, Recursion, SequenceTheorems

-----------------------------------------------------------------------------
(* Tables                                                                  *)

LEMMA TableParts ==
    ASSUME NEW S, NEW t \in Table(S)
    PROVE  t.items \in Seq(S) /\ t.max \in 0 .. U2 - 1 /\ t.block \in Nat
  BY DEF Table

LEMMA AddMemberTyped ==
    ASSUME NEW S, NEW t \in Table(S), NEW item \in S
    PROVE  add_member(t, item) \in Table(S)
<1> DEFINE grown == ((1 + t.max) * 2) % U2
<1>1. grown \in 0 .. U2 - 1
  BY RegistryAssumption DEF Table
<1>2. Append(t.items, item) \in Seq(S)
  BY DEF Table
<1> DEFINE u == [t EXCEPT !.max = grown, !.block = grown]
           new == IF t.max <= Len(t.items) THEN u ELSE t
<1>3. new \in Table(S) /\ new.items = t.items
  <2>1. grown \in Nat
    BY <1>1, RegistryAssumption
  <2> HIDE DEF grown
  <2>2. u \in Table(S)
    BY <1>1, <2>1 DEF Table
  <2>3. u.items = t.items
    BY DEF Table
  <2> HIDE DEF u
  <2> QED BY <2>2, <2>3
<1>4. add_member(t, item) = [new EXCEPT !.items = Append(t.items, item)]
  BY <1>3 DEF add_member
<1>5. \A s \in Table(S) : [s EXCEPT !.items = Append(t.items, item)] \in Table(S)
  BY <1>2 DEF Table
<1> HIDE DEF new
<1> QED BY <1>3, <1>4, <1>5

LEMMA AddMemberItems ==
    ASSUME NEW S, NEW t \in Table(S), NEW item
    PROVE  /\ add_member(t, item).items = Append(t.items, item)
           /\ LET size == IF t.max <= Len(t.items) THEN ((1 + t.max) * 2) % U2 ELSE t.max
              IN  t.block = t.max =>
                     add_member(t, item).max = size /\ add_member(t, item).block = size
<1> DEFINE grown == ((1 + t.max) * 2) % U2
           u == [t EXCEPT !.max = grown, !.block = grown]
           new == IF t.max <= Len(t.items) THEN u ELSE t
<1>1. DOMAIN u = {"items", "max", "block"} /\ u.items = t.items
  BY DEF Table
<1>2. DOMAIN new = {"items", "max", "block"} /\ new.items = t.items
  <2> HIDE DEF u
  <2> QED BY <1>1 DEF Table
<1>3. add_member(t, item) = [new EXCEPT !.items = Append(t.items, item)]
  BY <1>2 DEF add_member
<1>4. t.block = t.max =>
        LET size == IF t.max <= Len(t.items) THEN grown ELSE t.max
        IN  new.max = size /\ new.block = size
  <2> HIDE DEF grown
  <2> QED BY DEF Table
<1> HIDE DEF new
<1> QED BY <1>2, <1>3, <1>4

(* Filled(items) goes through a table after each item.                     *)
LEMMA FilledUp ==
    ASSUME NEW S, NEW items \in Seq(S)
    PROVE  \E table \in [0 .. Len(items) -> Table(S)] :
              /\ table[0] = NoItems
              /\ \A n \in 1 .. Len(items) : table[n] = add_member(table[n - 1], items[n])
              /\ Filled(items) = table[Len(items)]
<1> DEFINE N == Len(items)
           step == [x \in (1 .. N) \X Table(S) |-> add_member(x[2], items[x[1]])]
           Is(f) == f = [n \in 0 .. N |->
                            IF n = 0 THEN NoItems ELSE add_member(f[n - 1], items[n])]
           table == CHOOSE f : Is(f)
<1> N \in Nat
  BY LenProperties
<1>1. NoItems \in Table(S)
  BY RegistryAssumption DEF NoItems, Table
<1>2. step \in [(1 .. N) \X Table(S) -> Table(S)]
  BY AddMemberTyped
<1>3. PICK f \in [0 .. N -> Table(S)] :
              /\ f[0] = NoItems
              /\ \A n \in 1 .. N : f[n] = step[<<n, f[n - 1]>>]
  <2> HIDE DEF step, N
  <2>1. Defined(N, Table(S), NoItems, step)
    BY <1>1, <1>2, Recursive
  <2> QED BY <2>1 DEF Defined
<1>4. Is(f)
  <2>1. ASSUME NEW n \in 1 .. N PROVE f[n] = add_member(f[n - 1], items[n])
    BY <1>3
  <2>2. f = [n \in 0 .. N |-> f[n]]
    OBVIOUS
  <2> HIDE DEF step, N
  <2>3. \A n \in 0 .. N : f[n] = IF n = 0 THEN NoItems ELSE add_member(f[n - 1], items[n])
    BY <1>3, <2>1
  <2> QED BY <2>2, <2>3
<1>5. Is(table)
  BY <1>4
<1>6. Filled(items) = table[N]
  BY DEF Filled
<1>7. table[0] = NoItems
  <2> HIDE DEF table
  <2> QED BY <1>5
<1>8. \A n \in 1 .. N : table[n] = add_member(table[n - 1], items[n])
  BY <1>5
<1>9. table \in [0 .. N -> Table(S)]
  <2> DEFINE T == {n \in 0 .. N : table[n] \in Table(S)}
  <2>1. 0 \in T
    BY <1>1, <1>7
  <2>2. ASSUME NEW n \in 1 .. N, n - 1 \in T PROVE n \in T
    BY <1>8, <2>2, AddMemberTyped
  <2>3. 0 .. N \subseteq T
    <3> HIDE DEF T, table
    <3> QED BY <2>1, <2>2, Induction
  <2> QED BY <1>5, <2>3
<1> QED BY <1>6, <1>7, <1>8, <1>9

(* It holds the items it was filled with, in their order.                  *)
LEMMA FilledItems ==
    ASSUME NEW S, NEW items \in Seq(S)
    PROVE  Filled(items) \in Table(S) /\ Filled(items).items = items
<1> DEFINE N == Len(items)
<1> N \in Nat
  BY LenProperties
<1>1. PICK table \in [0 .. N -> Table(S)] :
              /\ table[0] = NoItems
              /\ \A n \in 1 .. N : table[n] = add_member(table[n - 1], items[n])
              /\ Filled(items) = table[N]
  BY FilledUp
<1> DEFINE Holds(n) == /\ Len(table[n].items) = n
                       /\ \A k \in 1 .. n : table[n].items[k] = items[k]
           T == {n \in 0 .. N : Holds(n)}
<1>2. 0 \in T
  BY <1>1 DEF NoItems
<1>3. ASSUME NEW n \in 1 .. N, n - 1 \in T PROVE n \in T
  <2>1. table[n].items = Append(table[n - 1].items, items[n])
    <3>1. table[n - 1] \in Table(S) /\ table[n] = add_member(table[n - 1], items[n])
      BY <1>1
    <3> QED BY <3>1, AddMemberItems
  <2>2. table[n - 1].items \in Seq(S) /\ items[n] \in S
    <3>1. table[n - 1] \in Table(S)
      BY <1>1
    <3> QED BY <3>1 DEF Table
  <2>3. Holds(n - 1)
    BY <1>3
  <2>4. Len(table[n].items) = n
    BY <2>1, <2>2, <2>3, AppendProperties
  <2>5. ASSUME NEW k \in 1 .. n PROVE table[n].items[k] = items[k]
    BY <2>1, <2>2, <2>3, AppendProperties
  <2> QED BY <2>4, <2>5
<1>4. N \in T
  <2>1. 0 .. N \subseteq T
    <3> HIDE DEF T
    <3> QED BY <1>2, <1>3, Induction
  <2> QED BY <2>1
<1>5. table[N].items = items
  BY <1>4, SeqEqual DEF Table
<1> QED BY <1>1, <1>5
(* The sizes a block of a u2 counter takes.                                *)
Sizes == {0, 2, 6, 14, 30, 62, 126, 254, 510, 1022, 2046, 4094, 8190, 16382, 32766, 65534}

Greatest == 65534

(* A size grows to a greater one, but for the greatest, which wraps to      *)
(* itself: one item more than that has no place.                           *)
Grows ==
    \A size \in Sizes :
        LET grown == ((1 + size) * 2) % U2
        IN  grown \in Sizes /\ (size < Greatest => size < grown)

LEMMA SizesGrow == U2 = 65536 => Grows
  BY DEF Grows, Sizes, Greatest

LEMMA SizesBounded == Greatest \in Nat /\ \A size \in Sizes : size \in Nat /\ size <= Greatest
  BY DEF Sizes, Greatest

LEMMA FilledFits ==
    ASSUME Grows, NEW S, NEW items \in Seq(S), Len(items) <= Greatest
    PROVE  Len(Filled(items).items) <= Filled(items).block
<1> DEFINE N == Len(items)
<1> N \in Nat
  BY LenProperties
<1>1. PICK table \in [0 .. N -> Table(S)] :
              /\ table[0] = NoItems
              /\ \A n \in 1 .. N : table[n] = add_member(table[n - 1], items[n])
              /\ Filled(items) = table[N]
  BY FilledUp
<1> DEFINE Fits(t) == t.max \in Sizes /\ t.block = t.max /\ Len(t.items) <= t.max
           T == {n \in 0 .. N : Fits(table[n]) /\ Len(table[n].items) = n}
<1>2. 0 \in T
  BY <1>1 DEF NoItems, Sizes
<1>3. ASSUME NEW n \in 1 .. N, n - 1 \in T PROVE n \in T
  <2> DEFINE t == table[n - 1]
             grown == ((1 + t.max) * 2) % U2
             u == table[n]
  <2>1. t \in Table(S) /\ Fits(t) /\ Len(t.items) = n - 1
    BY <1>1, <1>3
  <2>2. u = add_member(t, items[n])
    BY <1>1
  <2> HIDE DEF t, u
  <2>3. items[n] \in S
    OBVIOUS
  <2>4. t.items \in Seq(S) /\ u.items = Append(t.items, items[n])
    <3> HIDE DEF Fits
    <3> QED BY <2>1, <2>2, TableParts, AddMemberItems
  <2>5. Len(u.items) = n
    BY <2>1, <2>3, <2>4, AppendProperties
  <2>6. grown \in Sizes /\ (t.max <= n - 1 => n <= grown)
    <3>1. grown \in Sizes /\ (t.max < Greatest => t.max < grown)
      BY <2>1 DEF Grows
    <3> HIDE DEF grown
    <3> QED BY SizesBounded, <2>1, <3>1
  <2>7. LET size == IF t.max <= n - 1 THEN grown ELSE t.max IN u.max = size /\ u.block = size
    BY <2>1, <2>2, AddMemberItems
  <2> HIDE DEF grown
  <2>8. t.max \in Int
    BY SizesBounded, <2>1
  <2>9. Fits(u)
    BY <2>1, <2>5, <2>6, <2>7, <2>8
  <2> QED BY <2>5, <2>9 DEF u
<1>4. N \in T
  <2>1. 0 .. N \subseteq T
    <3>1. \A n \in 1 .. N : n - 1 \in T => n \in T
      BY <1>3
    <3> HIDE DEF T, N, Fits
    <3> QED BY <1>2, <3>1, Induction
  <2> QED BY <2>1
<1> QED BY <1>1, <1>4

-----------------------------------------------------------------------------
(* Finding classes                                                         *)

(* The ids that have been given to classes.                                *)
Registered == {refList[i].ref_clazzid : i \in DOMAIN refList}

LEMMA FirstFound ==
    ASSUME refList \in Seq(Class), NEW id
    PROVE  /\ known(id) <=> id \in Registered
           /\ known(id) => /\ ById(id) \in DOMAIN refList
                           /\ refList[ById(id)].ref_clazzid = id
<1> DEFINE I == {i \in 1 .. Len(refList) : refList[i].ref_clazzid = id}
<1>1. ById(id) = IF I # {} THEN Min(I) ELSE 0
  BY DEF ById, SelectInSeq
<1>2. ASSUME I # {} PROVE Min(I) \in I
  <2>1. I \subseteq Nat
    OBVIOUS
  <2> HIDE DEF I
  <2>2. \E m \in I : \A k \in I : m <= k
    BY <1>2, <2>1, LeastElement
  <2> QED BY <2>2 DEF Min
<1> QED BY <1>1, <1>2 DEF known, Registered

LEMMA FoundByName ==
    ASSUME refList \in Seq(Class), NEW name
    PROVE  find_ByClazzname(name) \in Registered \cup {NULL}
<1> DEFINE I == {i \in 1 .. Len(refList) : refList[i].clazzname = name}
           m == SelectInSeq(refList, LAMBDA c : c.clazzname = name)
<1>1. m = IF I # {} THEN Min(I) ELSE 0
  BY DEF SelectInSeq
<1>2. ASSUME I # {} PROVE Min(I) \in I
  <2>1. I \subseteq Nat
    OBVIOUS
  <2> HIDE DEF I
  <2>2. \E k \in I : \A j \in I : k <= j
    BY <1>2, <2>1, LeastElement
  <2> QED BY <2>2 DEF Min
<1>3. find_ByClazzname(name) = IF m = 0 THEN NULL ELSE refList[m].ref_clazzid
  BY DEF find_ByClazzname
<1>4. m = 0 \/ m \in DOMAIN refList
  BY <1>1, <1>2
<1> HIDE DEF m
<1> QED BY <1>3, <1>4 DEF Registered

(* The interfaces of a line are classes there are, no more of them than    *)
(* the line names.                                                         *)
LEMMA InterfacesFound ==
    ASSUME refList \in Seq(Class), NEW e, e.interfaces \in Seq(Names)
    PROVE  /\ interfacesOf(e) \in Seq(Registered)
           /\ Len(interfacesOf(e)) <= Len(e.interfaces)
<1> DEFINE N == Len(e.interfaces)
           T == Seq(Registered)
           Next1(n, s) == LET id == find_ByClazzname(e.interfaces[n])
                          IN  IF id = NULL THEN s ELSE Append(s, id)
           step == [x \in (1 .. N) \X T |-> Next1(x[1], x[2])]
           Is(f) == f = [n \in 0 .. N |-> IF n = 0 THEN <<>> ELSE Next1(n, f[n - 1])]
           found == CHOOSE f : Is(f)
<1> N \in Nat
  BY LenProperties
<1>1. ASSUME NEW n \in 1 .. N, NEW s \in T
      PROVE  Next1(n, s) \in T /\ (Len(s) <= n - 1 => Len(Next1(n, s)) <= n)
  <2>1. find_ByClazzname(e.interfaces[n]) \in Registered \cup {NULL}
    BY FoundByName
  <2> QED BY <2>1
<1>2. step \in [(1 .. N) \X T -> T]
  <2> HIDE DEF Next1, T, N
  <2> QED BY <1>1
<1>3. PICK f \in [0 .. N -> T] :
              /\ f[0] = <<>>
              /\ \A n \in 1 .. N : f[n] = step[<<n, f[n - 1]>>]
  <2>1. <<>> \in T
    OBVIOUS
  <2> HIDE DEF step, T, N
  <2>2. Defined(N, T, <<>>, step)
    BY <1>2, <2>1, Recursive
  <2> QED BY <2>2 DEF Defined
<1>4. Is(f)
  <2> HIDE DEF Next1, T, N
  <2>1. ASSUME NEW n \in 1 .. N PROVE f[n] = Next1(n, f[n - 1])
    <3>1. <<n, f[n - 1]>> \in (1 .. N) \X T
      OBVIOUS
    <3>2. step[<<n, f[n - 1]>>] = Next1(n, f[n - 1])
      BY <3>1
    <3> HIDE DEF step
    <3> QED BY <1>3, <3>2
  <2>2. f = [n \in 0 .. N |-> f[n]]
    OBVIOUS
  <2>3. \A n \in 0 .. N : f[n] = IF n = 0 THEN <<>> ELSE Next1(n, f[n - 1])
    BY <1>3, <2>1
  <2> HIDE DEF step
  <2> QED BY <2>2, <2>3
<1>5. Is(found)
  BY <1>4
<1>6. interfacesOf(e) = found[N]
  BY DEF interfacesOf
<1>7. found[0] = <<>> /\ \A n \in 1 .. N : found[n] = Next1(n, found[n - 1])
  <2> HIDE DEF found, Next1, N
  <2> QED BY <1>5
<1> DEFINE M == {n \in 0 .. N : found[n] \in T /\ Len(found[n]) <= n}
<1>8. N \in M
  <2>4. <<>> \in T /\ Len(<<>>) = 0
    OBVIOUS
  <2> HIDE DEF found, Next1, N, T
  <2>1. 0 \in M
    BY <1>7, <2>4
  <2>2. ASSUME NEW n \in 1 .. N, n - 1 \in M PROVE n \in M
    <3>1. found[n - 1] \in T /\ Len(found[n - 1]) <= n - 1
      BY <2>2
    <3> QED BY <1>1, <1>7, <3>1
  <2>3. 0 .. N \subseteq M
    <3> HIDE DEF M
    <3> QED BY <2>1, <2>2, Induction
  <2> QED BY <2>3
<1> QED BY <1>6, <1>8

-----------------------------------------------------------------------------
(* The registry                                                            *)

(* The counter counts: one for each line, two for the main class.          *)
Counted == OID = lines + 1 + (IF startRef = NULL THEN 0 ELSE 2)

(* What a class refers to.                                                 *)
Above(c) == ToSet(c.interfaces.items) \cup ({c.superClazz} \ {NULL, Wild})

(* The newest class is first, the ids are below top, and what a class       *)
(* refers to stands behind it.                                             *)
Linked(r, top) ==
    /\ \A i \in DOMAIN r : r[i].ref_clazzid < top
    /\ \A i, j \in DOMAIN r : i < j => r[j].ref_clazzid < r[i].ref_clazzid
    /\ \A i \in DOMAIN r : \A id \in Above(r[i]) :
          \E j \in DOMAIN r : i < j /\ r[j].ref_clazzid = id

(* Commands are served when there is a class.                              *)
Stages ==
    /\ up = "loading" => startRef = NULL
    /\ up = "serving" => refList # <<>>

RegistryInv == RegistryTypeOK /\ Counted /\ Linked(refList, OID) /\ Stages

LEMMA ElementIds ==
    ASSUME NEW r \in Seq(Class)
    PROVE  /\ Len(r) \in Nat /\ DOMAIN r = 1 .. Len(r)
           /\ \A i \in DOMAIN r : r[i] \in Class /\ r[i].ref_clazzid \in Ids
           /\ Ids \subseteq Nat \ {0}
<1>1. Len(r) \in Nat /\ DOMAIN r = 1 .. Len(r)
  BY LenProperties
<1>2. ASSUME NEW i \in DOMAIN r PROVE r[i] \in Class
  BY ElementOfSeq, <1>1
<1>3. ASSUME NEW c \in Class PROVE c.ref_clazzid \in Ids
  BY DEF Class
<1>4. Ids \subseteq Nat \ {0}
  BY RegistryAssumption DEF Ids
<1> QED BY <1>1, <1>2, <1>3, <1>4

(* Walking the list from its head then finds each class under its own id.  *)
LEMMA LinkedExact ==
    RegistryTypeOK /\ Linked(refList, OID) =>
        \A id : \A i \in DOMAIN refList : refList[i].ref_clazzid = id => ById(id) = i
<1> SUFFICES ASSUME RegistryTypeOK, Linked(refList, OID), NEW id, NEW i \in DOMAIN refList,
                    refList[i].ref_clazzid = id
             PROVE  ById(id) = i
  OBVIOUS
<1>1. refList \in Seq(Class)
  BY DEF RegistryTypeOK
<1>2. known(id) /\ ById(id) \in DOMAIN refList /\ refList[ById(id)].ref_clazzid = id
  BY <1>1, FirstFound DEF Registered
<1>3. \A j \in DOMAIN refList : j \in Int /\ refList[j].ref_clazzid \in Int
  BY <1>1, ElementIds
<1> QED BY <1>2, <1>3 DEF Linked

LEMMA LinkedExactNext ==
    (RegistryTypeOK /\ Linked(refList, OID) =>
        \A id : \A i \in DOMAIN refList : refList[i].ref_clazzid = id => ById(id) = i)'
  BY LinkedExact, PTL

LEMMA InvExact == RegistryInv => LookupExact
  BY LinkedExact DEF RegistryInv, LookupExact

LEMMA InvHierarchy == RegistryInv => HierarchyEarlier
<1> SUFFICES ASSUME RegistryInv, NEW i \in DOMAIN refList, NEW id \in Above(refList[i])
             PROVE  id < refList[i].ref_clazzid /\ ById(id) > i
  BY DEF HierarchyEarlier, Above
<1>1. PICK j \in DOMAIN refList : i < j /\ refList[j].ref_clazzid = id
  BY DEF RegistryInv, Linked
<1>2. id < refList[i].ref_clazzid
  BY <1>1 DEF RegistryInv, Linked
<1>3. ById(id) = j
  BY <1>1, LinkedExact DEF RegistryInv
<1> QED BY <1>1, <1>2, <1>3 DEF RegistryInv, RegistryTypeOK

(* A class is put before the others.                                       *)
LEMMA Prepended ==
    ASSUME NEW S, NEW s \in Seq(S), NEW c \in S
    PROVE  /\ <<c>> \o s \in Seq(S)
           /\ Len(<<c>> \o s) = Len(s) + 1
           /\ (<<c>> \o s)[1] = c
           /\ \A i \in 2 .. Len(s) + 1 : (<<c>> \o s)[i] = s[i - 1]
<1>1. <<c>> \in Seq(S) /\ Len(<<c>>) = 1 /\ <<c>>[1] = c
  OBVIOUS
<1> QED BY <1>1, ConcatProperties

(* The list stays linked with one class more, whose id is above the others  *)
(* and which refers to classes there are.                                  *)
LEMMA OneMore ==
    ASSUME NEW r \in Seq(Class), NEW top \in Int, Linked(r, top),
           NEW c \in Class, c.ref_clazzid >= top,
           \A id \in Above(c) : \E i \in DOMAIN r : r[i].ref_clazzid = id,
           NEW s, s = <<c>> \o r, NEW next, next = c.ref_clazzid + 1
    PROVE  s \in Seq(Class) /\ s # <<>> /\ Linked(s, next)
<1> DEFINE N == Len(r)
<1>1. N \in Nat /\ DOMAIN r = 1 .. N
  BY LenProperties
<1>2. /\ s \in Seq(Class)
      /\ DOMAIN s = 1 .. N + 1
      /\ s[1] = c
      /\ \A i \in 2 .. N + 1 : s[i] = r[i - 1] /\ i - 1 \in 1 .. N
  BY <1>1, Prepended
<1>3. \A i \in 1 .. N : r[i].ref_clazzid \in Int /\ r[i].ref_clazzid < top
  BY <1>1, ElementIds DEF Linked
<1>4. c.ref_clazzid \in Int
  <2>1. c.ref_clazzid \in Ids
    BY DEF Class
  <2> QED BY <2>1, ElementIds
<1>5. \A i \in DOMAIN s : i = 1 \/ i \in 2 .. N + 1
  BY <1>1, <1>2
<1>6. \A i \in DOMAIN s : s[i].ref_clazzid < c.ref_clazzid + 1
  BY <1>2, <1>3, <1>4, <1>5
<1>7. ASSUME NEW i \in DOMAIN s, NEW j \in DOMAIN s, i < j
      PROVE  s[j].ref_clazzid < s[i].ref_clazzid
  <2>1. j \in 2 .. N + 1
    BY <1>1, <1>2, <1>7
  <2>2. CASE i = 1
    BY <1>2, <1>3, <1>4, <2>1, <2>2
  <2>3. CASE i \in 2 .. N + 1
    BY <1>1, <1>2, <1>7, <2>1, <2>3 DEF Linked
  <2> QED BY <1>5, <2>2, <2>3
<1>8. ASSUME NEW i \in DOMAIN s, NEW id \in Above(s[i])
      PROVE  \E j \in DOMAIN s : i < j /\ s[j].ref_clazzid = id
  <2>1. CASE i = 1
    <3>1. PICK k \in 1 .. N : r[k].ref_clazzid = id
      BY <1>1, <1>2, <2>1
    <3>2. k + 1 \in DOMAIN s /\ 1 < k + 1 /\ s[k + 1] = r[k]
      <4>1. k + 1 \in 2 .. N + 1 /\ (k + 1) - 1 = k
        BY <1>1
      <4> QED BY <1>1, <1>2, <4>1
    <3> QED BY <2>1, <3>1, <3>2
  <2>2. CASE i \in 2 .. N + 1
    <3>1. s[i] = r[i - 1] /\ i - 1 \in 1 .. N
      BY <1>2, <2>2
    <3>2. PICK k \in 1 .. N : i - 1 < k /\ r[k].ref_clazzid = id
      BY <1>1, <3>1 DEF Linked
    <3>3. k + 1 \in DOMAIN s /\ i < k + 1 /\ s[k + 1] = r[k]
      <4>1. k + 1 \in 2 .. N + 1 /\ (k + 1) - 1 = k
        BY <1>1
      <4> QED BY <1>1, <1>2, <2>2, <3>2, <4>1
    <3> QED BY <3>2, <3>3
  <2> QED BY <1>5, <2>1, <2>2
<1>9. s # <<>>
  BY <1>1, <1>2
<1> QED BY <1>2, <1>6, <1>7, <1>8, <1>9 DEF Linked

LEMMA NumberedMembers ==
    ASSUME NEW n \in Nat
    PROVE  Numbered(n) \in Seq(Nat) /\ Len(Numbered(n)) = n
  BY DEF Numbered

LEMMA NumberedFit ==
    ASSUME U2 = 65536, NEW n \in Nat, n < 65535
    PROVE  LET t == Filled(Numbered(n)) IN Len(t.items) <= t.block
<1> DEFINE items == Numbered(n)
<1>1. items \in Seq(Nat) /\ Len(items) = n
  BY NumberedMembers
<1>2. n <= Greatest
  BY DEF Greatest
<1>3. Grows
  BY SizesGrow
<1> HIDE DEF items
<1>4. Len(Filled(items).items) <= Filled(items).block
  BY <1>1, <1>2, <1>3, FilledFits
<1> QED BY <1>4 DEF items

LEMMA RegisteredIds == ASSUME RegistryTypeOK PROVE Registered \subseteq Ids
  BY ElementIds DEF RegistryTypeOK, Registered

LEMMA TableWidens ==
    ASSUME NEW S, NEW R, R \subseteq S, NEW t \in Table(R) PROVE t \in Table(S)
  BY SeqMonotonic DEF Table

(* The class of a line.                                                    *)
ClassOf(e, super) ==
    [ref_clazzid |-> OID, clazzname |-> e.name, typeTag |-> e.kind, superClazz |-> super,
     signature |-> FALSE, interfaces |-> Filled(interfacesOf(e)),
     fields |-> Filled(Numbered(e.fields)), methods |-> Filled(Numbered(e.methods))]

LEMMA LineAdds ==
    ASSUME NEW e, progress_jbase_line(e)
    PROVE  \E super \in superOf(e) :
              refList' = <<ClassOf(e, super)>> \o refList /\ OID' = OID + 1
  BY DEF progress_jbase_line, add_RefTypeID, ClassOf

LEMMA ClassOfLine ==
    ASSUME RegistryTypeOK, OID \in Ids, NEW e \in Entries, NEW super \in superOf(e)
    PROVE  ClassOf(e, super) \in Class /\ Above(ClassOf(e, super)) \subseteq Registered
<1> DEFINE c == ClassOf(e, super)
<1>1. /\ e \in [kind : {"Class", "Interface"}, name : Names, super : Names,
                interfaces : Seq(Names), fields : Nat, methods : Nat]
      /\ refList \in Seq(Class)
  BY RegistryAssumption DEF RegistryTypeOK
<1>2. superOf(e) \subseteq Registered \cup {NULL, Wild}
  BY <1>1, FoundByName DEF superOf
<1>3. /\ Filled(interfacesOf(e)) \in Table(Registered)
      /\ Filled(interfacesOf(e)).items = interfacesOf(e)
      /\ interfacesOf(e) \in Seq(Registered)
  BY <1>1, InterfacesFound, FilledItems
<1>4. /\ Filled(Numbered(e.fields)) \in Table(Nat)
      /\ Filled(Numbered(e.methods)) \in Table(Nat)
  BY <1>1, NumberedMembers, FilledItems
<1>5. Filled(interfacesOf(e)) \in Table(Ids)
  BY <1>3, RegisteredIds, TableWidens
<1>6. super \in Ids \cup {NULL, Wild}
  BY <1>2, RegisteredIds
<1>7. c \in Class
  BY <1>1, <1>4, <1>5, <1>6 DEF ClassOf, Class
<1>8. ToSet(c.interfaces.items) \subseteq Registered
  BY <1>3 DEF ClassOf, ToSet
<1>9. c.superClazz \in Registered \cup {NULL, Wild}
  BY <1>2 DEF ClassOf
<1> QED BY <1>7, <1>8, <1>9 DEF Above

LEMMA LineKeeps ==
    ASSUME RegistryInv, NEW e \in Entries, progress_jbase_line(e)
    PROVE  RegistryInv'
<1> USE DEF RegistryInv
<1>1. PICK super \in superOf(e) : refList' = <<ClassOf(e, super)>> \o refList /\ OID' = OID + 1
  BY LineAdds
<1>2. /\ up = "loading" /\ startRef = NULL /\ lines \in 0 .. MaxLines /\ lines < MaxLines
      /\ lines' = lines + 1 /\ startRef' = startRef /\ up' = up /\ OID = lines + 1
      /\ MaxLines \in Nat
  BY RegistryAssumption DEF progress_jbase_line, RegistryTypeOK, Counted
<1>3. OID \in Ids /\ OID' \in 1 .. MaxLines + 3
  BY <1>1, <1>2 DEF Ids
<1> DEFINE c == ClassOf(e, super)
<1>4. c \in Class /\ Above(c) \subseteq Registered /\ c.ref_clazzid = OID
  BY <1>3, ClassOfLine DEF ClassOf
<1> HIDE DEF c
<1>5. refList' \in Seq(Class) /\ refList' # <<>> /\ Linked(refList', OID + 1)
  <2>1. refList' = <<c>> \o refList /\ refList \in Seq(Class) /\ OID \in Int
    BY <1>1 DEF c, RegistryTypeOK
  <2>2. \A id \in Above(c) : \E i \in DOMAIN refList : refList[i].ref_clazzid = id
    BY <1>4 DEF Registered
  <2>3. Linked(refList, OID) /\ c \in Class /\ c.ref_clazzid >= OID /\ OID + 1 = c.ref_clazzid + 1
    BY <1>4, <2>1
  <2> QED BY <2>1, <2>2, <2>3, OneMore
<1>6. RegistryTypeOK'
  BY <1>1, <1>2, <1>3, <1>5 DEF RegistryTypeOK
<1>7. Counted'
  BY <1>1, <1>2 DEF Counted, NULL
<1>8. Linked(refList, OID)'
  BY <1>1, <1>5 DEF Linked, Above
<1>9. Stages'
  BY <1>2, <1>5 DEF Stages
<1> QED BY <1>6, <1>7, <1>8, <1>9

LEMMA MainClassKeeps ==
    ASSUME RegistryInv, init_mainHandler
    PROVE  RegistryInv'
<1> USE DEF RegistryInv
<1> DEFINE c == add_ref(OID, MainClass, NULL, [items |-> <<1, 1>>, max |-> 0, block |-> 2])
           d == add_ref(OID + 1, StarClass, NULL, NoItems)
           r == <<c>> \o refList
<1>1. refList' = <<d, c>> \o refList /\ OID' = OID + 2 /\ startRef' = OID
  BY DEF init_mainHandler, main_class
<1>2. /\ up = "loading" /\ startRef = NULL /\ lines \in 0 .. MaxLines
      /\ lines' = lines /\ up' = "serving" /\ OID = lines + 1
      /\ MaxLines \in Nat /\ refList \in Seq(Class)
  BY RegistryAssumption DEF init_mainHandler, RegistryTypeOK, Counted
<1>3. OID \in Ids /\ OID + 1 \in Ids /\ OID' \in 1 .. MaxLines + 3 /\ OID \in Int
  BY <1>1, <1>2 DEF Ids
<1>4. NoItems \in Table(Nat) /\ NoItems \in Table(Ids)
  BY RegistryAssumption DEF NoItems, Table
<1>5. [items |-> <<1, 1>>, max |-> 0, block |-> 2] \in Table(Nat)
  BY RegistryAssumption DEF Table
<1>6. c \in Class /\ c.ref_clazzid = OID /\ Above(c) = {}
  BY <1>3, <1>4, <1>5, RegistryAssumption DEF Class, add_ref, Above, NoItems, ToSet
<1>7. d \in Class /\ d.ref_clazzid = OID + 1 /\ Above(d) = {}
  BY <1>3, <1>4, RegistryAssumption DEF Class, add_ref, Above, NoItems, ToSet
<1> HIDE DEF c, d
<1>8. r \in Seq(Class) /\ Linked(r, OID + 1)
  <2>1. /\ Linked(refList, OID) /\ c.ref_clazzid >= OID /\ OID + 1 = c.ref_clazzid + 1
        /\ \A id \in Above(c) : \E i \in DOMAIN refList : refList[i].ref_clazzid = id
    BY <1>3, <1>6
  <2> QED BY <1>2, <1>3, <1>6, <2>1, OneMore
<1>9. refList' = <<d>> \o r
  BY <1>1, <1>2, <1>6, <1>7
<1> HIDE DEF r
<1>10. refList' \in Seq(Class) /\ refList' # <<>> /\ Linked(refList', OID + 2)
  <2>1. /\ OID + 1 \in Int /\ d.ref_clazzid >= OID + 1 /\ OID + 2 = d.ref_clazzid + 1
        /\ \A id \in Above(d) : \E i \in DOMAIN r : r[i].ref_clazzid = id
    BY <1>3, <1>7
  <2> QED BY <1>7, <1>8, <1>9, <2>1, OneMore
<1>11. RegistryTypeOK'
  BY <1>1, <1>2, <1>3, <1>10 DEF RegistryTypeOK
<1>12. Counted'
  BY <1>1, <1>2, <1>3 DEF Counted, NULL
<1>13. Linked(refList, OID)'
  BY <1>1, <1>10 DEF Linked, Above
<1>14. Stages'
  BY <1>2, <1>10 DEF Stages
<1> QED BY <1>11, <1>12, <1>13, <1>14

LEMMA RegistryStays ==
    ASSUME RegistryInv, UNCHANGED registry, up' \in {up, "ended"}
    PROVE  RegistryInv'
<1>1. refList' = refList /\ OID' = OID /\ startRef' = startRef /\ lines' = lines
  BY DEF registry
<1>2. RegistryTypeOK'
  BY <1>1 DEF RegistryInv, RegistryTypeOK
<1>3. Counted' /\ Stages'
  BY <1>1 DEF RegistryInv, Counted, Stages
<1>4. Linked(refList, OID)'
  BY <1>1 DEF RegistryInv, Linked, Above
<1> QED BY <1>2, <1>3, <1>4 DEF RegistryInv

LEMMA RegistryKeeps ==
    ASSUME RegistryInv, RegistryNext
    PROVE  RegistryInv'
<1>1. CASE init_mainHandler
  BY <1>1, MainClassKeeps
<1>2. ASSUME NEW e \in Entries, progress_jbase_line(e) PROVE RegistryInv'
  BY <1>2, LineKeeps
<1>3. ASSUME NEW e \in Entries, progress_jbase_line_aborts(e) PROVE RegistryInv'
  BY <1>3, RegistryStays DEF progress_jbase_line_aborts
<1> QED BY <1>1, <1>2, <1>3 DEF RegistryNext

-----------------------------------------------------------------------------
(* Answers                                                                 *)

Packet == [code : Codes, classes : SUBSET (Ids \cup {NULL, Wild})]

Errors == Codes \ {"NO_ERROR"}

Accepted(packets) == \A i \in DOMAIN packets : packets[i].code = "NO_ERROR"

(* Nobody is refused but by the handlers that say so.                      *)
Refused(about, id, packets, jni) ==
    /\ about = "class" /\ id \in Registered => Accepted(packets)
    /\ about = "nested" => ~Accepted(packets)
    /\ about = "thread" /\ id \in Running \cup {jni} => Accepted(packets)
    /\ about = "appThread" => (Accepted(packets) <=> id = APP_TID)

(* An answer about an id, in a state with the JNI thread jni.              *)
Right(about, id, packets, jni) ==
    /\ about \in Subjects
    /\ id \in Nat
    /\ packets \in Seq(Packet)
    /\ about # "request" => Len(packets) <= 1
    /\ \A i \in DOMAIN packets : packets[i].classes \subseteq Registered \cup {NULL, Wild}
    /\ Refused(about, id, packets, jni)

(* What every command does.                                                *)
Answered ==
    /\ up = "serving" /\ up' \in {"serving", "ended"}
    /\ UNCHANGED registry
    /\ JNI_TID' \in Tids
    /\ \E about, id, packets :
          /\ last' = [about |-> about, id |-> id, packets |-> packets]
          /\ Right(about, id, packets, JNI_TID')

First == [about |-> "none", id |-> 0, packets |-> Reply]

Inv ==
    /\ RegistryInv
    /\ JNI_TID \in Tids
    /\ up = "loading" => last = First
    /\ last \in [about : Subjects, id : Nat, packets : Seq(Packet)]
    /\ Right(last.about, last.id, last.packets, JNI_TID)

LEMMA RightNaming ==
    ASSUME RegistryTypeOK, NEW about \in Subjects \ {"nested"}, NEW id \in Nat, NEW jni,
           about = "appThread" => id = APP_TID,
           NEW ids \in SUBSET (Registered \cup {NULL, Wild})
    PROVE  Right(about, id, Naming(ids), jni)
<1>1. ids \subseteq Ids \cup {NULL, Wild}
  BY RegisteredIds
<1>2. [code |-> "NO_ERROR", classes |-> ids] \in Packet
  BY <1>1 DEF Packet, Codes
<1>3. Naming(ids) \in Seq(Packet) /\ Len(Naming(ids)) = 1
      /\ Naming(ids)[1] = [code |-> "NO_ERROR", classes |-> ids]
  BY <1>2 DEF Naming
<1>4. DOMAIN Naming(ids) = {1}
  BY <1>3
<1>5. Accepted(Naming(ids))
  BY <1>3, <1>4 DEF Accepted
<1>6. Refused(about, id, Naming(ids), jni)
  BY <1>5 DEF Refused
<1> HIDE DEF Naming
<1> QED BY <1>3, <1>4, <1>6 DEF Right

LEMMA RightReply ==
    ASSUME RegistryTypeOK, NEW about \in Subjects \ {"nested"}, NEW id \in Nat, NEW jni,
           about = "appThread" => id = APP_TID
    PROVE  Right(about, id, Reply, jni)
  BY RightNaming DEF Reply

LEMMA ErrorPacket ==
    ASSUME NEW code \in Codes
    PROVE  /\ jdwpSend_error(code) \in Seq(Packet)
           /\ Len(jdwpSend_error(code)) = 1
           /\ DOMAIN jdwpSend_error(code) = {1}
           /\ jdwpSend_error(code)[1].code = code
           /\ jdwpSend_error(code)[1].classes = {}
<1>1. [code |-> code, classes |-> {}] \in Packet
  BY DEF Packet
<1> QED BY <1>1 DEF jdwpSend_error

LEMMA RightError ==
    ASSUME RegistryTypeOK, NEW about \in Subjects, NEW id \in Nat, NEW jni, NEW code \in Errors,
           ~(about = "class" /\ id \in Registered),
           ~(about = "thread" /\ id \in Running \cup {jni}),
           ~(about = "appThread" /\ id = APP_TID)
    PROVE  Right(about, id, jdwpSend_error(code), jni)
<1> DEFINE error == jdwpSend_error(code)
<1>1. /\ error \in Seq(Packet)
      /\ Len(error) = 1 /\ DOMAIN error = {1}
      /\ error[1].code = code /\ error[1].classes = {}
  BY ErrorPacket DEF Errors
<1> HIDE DEF error
<1>2. ~Accepted(error)
  BY <1>1 DEF Accepted, Errors
<1>3. Refused(about, id, error, jni)
  BY <1>2 DEF Refused
<1>4. \A i \in DOMAIN error : error[i].classes = {}
  BY <1>1
<1> QED BY <1>1, <1>3, <1>4 DEF Right, error

LEMMA RightSilence ==
    ASSUME NEW about \in Subjects \ {"nested", "appThread"}, NEW id \in Nat, NEW jni
    PROVE  Right(about, id, Silence, jni)
  BY DEF Right, Silence, Refused, Accepted

(* Send and Crash answer, when what they say is right.                     *)
LEMMA Sent ==
    ASSUME JNI_TID \in Tids, NEW about, NEW id, NEW packets, Send(about, id, packets),
           Right(about, id, packets, JNI_TID)
    PROVE  Answered
<1>1. JNI_TID' = JNI_TID /\ up' = up /\ up = "serving" /\ UNCHANGED registry
      /\ last' = [about |-> about, id |-> id, packets |-> packets]
  BY DEF Send, Says
<1> QED BY <1>1 DEF Answered

LEMMA Crashed ==
    ASSUME JNI_TID \in Tids, NEW about \in Subjects \ {"nested", "appThread"}, NEW id \in Nat,
           Crash(about, id)
    PROVE  Answered
<1>1. JNI_TID' = JNI_TID /\ up' = "ended" /\ up = "serving" /\ UNCHANGED registry
      /\ last' = [about |-> about, id |-> id, packets |-> Silence]
  BY DEF Crash, Says
<1> QED BY <1>1, RightSilence DEF Answered

(* Commands about nothing in particular.                                   *)
LEMMA PlainAnswered ==
    ASSUME Inv, Constant \/ NotImplemented \/ Nothing \/ Ends
    PROVE  Answered
<1>1. "none" \in Subjects /\ "NOT_IMPLEMENTED" \in Errors /\ 0 \in Nat
      /\ JNI_TID \in Tids /\ RegistryTypeOK
  BY DEF Subjects, Errors, Codes, Inv, RegistryInv
<1>2. CASE Constant
  BY <1>1, <1>2, RightReply, Sent DEF Constant
<1>3. CASE NotImplemented
  BY <1>1, <1>3, RightError, Sent DEF NotImplemented
<1>4. CASE Nothing
  BY <1>1, <1>4, RightSilence, Sent DEF Nothing
<1>5. CASE Ends
  BY <1>1, <1>5, Crashed DEF Ends, Crash
<1> QED BY <1>2, <1>3, <1>4, <1>5

LEMMA InvTyped ==
    ASSUME Inv
    PROVE  /\ RegistryInv /\ RegistryTypeOK /\ refList \in Seq(Class) /\ JNI_TID \in Tids
           /\ \A id : known(id) <=> id \in Registered
<1>1. RegistryInv /\ RegistryTypeOK /\ refList \in Seq(Class) /\ JNI_TID \in Tids
  BY DEF Inv, RegistryInv, RegistryTypeOK
<1> QED BY <1>1, FirstFound

LEMMA FoundClass ==
    ASSUME Inv, NEW id, known(id)
    PROVE  /\ find_ByID(id) \in Class
           /\ Above(find_ByID(id)) \subseteq Registered
<1>1. refList \in Seq(Class) /\ Linked(refList, OID)
  BY DEF Inv, RegistryInv, RegistryTypeOK
<1>2. ById(id) \in DOMAIN refList
  BY <1>1, FirstFound
<1> QED BY <1>1, <1>2 DEF find_ByID, Linked, Registered

LEMMA CheckedAnswered ==
    ASSUME Inv, NEW id \in Nat, NEW code \in Errors, NEW ids,
           known(id) => ids \subseteq Registered \cup {NULL, Wild},
           Checked(id, code, ids)
    PROVE  Answered
<1>1. "class" \in Subjects
  BY DEF Subjects
<1>2. CASE known(id)
  <2>1. Right("class", id, Naming(ids), JNI_TID)
    BY <1>1, <1>2, InvTyped, RightNaming
  <2>2. Send("class", id, Naming(ids))
    BY <1>2 DEF Checked
  <2> QED BY <2>1, <2>2, InvTyped, Sent
<1>3. CASE ~known(id)
  <2>1. Right("class", id, jdwpSend_error(code), JNI_TID)
    BY <1>1, <1>3, InvTyped, RightError
  <2>2. Send("class", id, jdwpSend_error(code))
    BY <1>3 DEF Checked
  <2> QED BY <2>1, <2>2, InvTyped, Sent
<1> QED BY <1>2, <1>3

LEMMA IdsAreNat == ClassIds \subseteq Nat /\ Tids \subseteq Nat
<1>1. MaxLines \in Nat
  BY RegistryAssumption
<1>2. {PID, JDWP_TID, APP_TID} \subseteq Nat /\ Strays \subseteq Nat
  BY ThreadsAssumption
<1>3. ClassIds \subseteq Nat
  BY <1>1 DEF ClassIds
<1>4. Running \subseteq Nat
  BY <1>2 DEF Running
<1>5. Tids \subseteq Nat
  BY <1>2, <1>4 DEF Tids
<1> QED BY <1>3, <1>5

-----------------------------------------------------------------------------
(* Every command of every set is answered rightly.                         *)

LEMMA VirtualMachineAnswered ==
    ASSUME Inv, onCSVirtualMachine
    PROVE  Answered
<1>1. "none" \in Subjects /\ "signature" \in Subjects /\ 0 \in Nat
  BY DEF Subjects
<1>2. CASE onSend_CS_VM_AllClasses
  <2>1. CASE Send("none", 0, Naming({refList[i].ref_clazzid : i \in DOMAIN refList}))
    <3>1. Send("none", 0, Naming(Registered))
      BY <2>1 DEF Registered
    <3>2. Right("none", 0, Naming(Registered), JNI_TID)
      BY <1>1, InvTyped, RightNaming
    <3> QED BY <3>1, <3>2, InvTyped, Sent
  <2>2. CASE Crash("none", 0)
    BY <1>1, <2>2, InvTyped, Crashed
  <2> QED BY <1>2, <2>1, <2>2 DEF onSend_CS_VM_AllClasses
<1>3. ASSUME NEW name \in Names, onSend_CS_VM_ClassesBySignature(name) PROVE Answered
  <2> DEFINE id == find_ByClazzname(name)
             ids == {find_BySignature(name)}
  <2>1. Send("signature", id, Naming(ids))
    BY <1>3 DEF onSend_CS_VM_ClassesBySignature
  <2>2. refList # <<>>
    BY <2>1 DEF Send, Says, Inv, RegistryInv, Stages
  <2>3. 1 \in DOMAIN refList
    BY <2>2, InvTyped, EmptySeq, LenProperties
  <2>4. ids \subseteq Registered
    BY <2>3 DEF find_BySignature, Registered
  <2>5. id \in Nat
    BY InvTyped, FoundByName, RegisteredIds DEF Ids, NULL
  <2> HIDE DEF id, ids
  <2>6. Right("signature", id, Naming(ids), JNI_TID)
    BY <1>1, <2>4, <2>5, InvTyped, RightNaming
  <2> QED BY <2>1, <2>6, InvTyped, Sent
<1> QED BY <1>2, <1>3, PlainAnswered DEF onCSVirtualMachine, onSend_CS_VM_AllThreads

LEMMA ReferenceTypeAnswered ==
    ASSUME Inv, onCSReferenceType
    PROVE  Answered
<1>1. /\ "class" \in Subjects /\ "nested" \in Subjects
      /\ "INVALID_OBJECT" \in Errors /\ "INVALID_CLASS" \in Errors
  BY DEF Subjects, Errors, Codes
<1>2. ASSUME NEW id \in ClassIds,
             \/ onSend_CS_RT_Modifiers(id)
             \/ onSend_CS_RT_Fields(id)
             \/ onSend_CS_RT_Methods(id)
      PROVE  Answered
  BY <1>1, <1>2, IdsAreNat, CheckedAnswered
     DEF onSend_CS_RT_Modifiers, onSend_CS_RT_Fields, onSend_CS_RT_Methods
<1>3. ASSUME NEW id \in ClassIds, onSend_CS_RT_Interfaces(id) PROVE Answered
  <2> DEFINE ids == ToSet(find_ByID(id).interfaces.items)
  <2>1. known(id) => ids \subseteq Registered
    BY FoundClass DEF Above
  <2>2. Checked(id, "INVALID_OBJECT", ids)
    BY <1>3 DEF onSend_CS_RT_Interfaces
  <2> HIDE DEF ids
  <2> QED BY <1>1, <2>1, <2>2, IdsAreNat, CheckedAnswered
<1>4. ASSUME NEW id \in ClassIds, onSend_CS_RT_ClassObject(id) PROVE Answered
  <2>1. known(id) => {id} \subseteq Registered
    BY InvTyped
  <2> QED BY <1>1, <1>4, <2>1, IdsAreNat, CheckedAnswered DEF onSend_CS_RT_ClassObject
<1>5. ASSUME NEW id \in ClassIds, Send("class", id, Reply) \/ Crash("class", id)
      PROVE  Answered
  <2>1. Right("class", id, Reply, JNI_TID)
    BY <1>1, IdsAreNat, InvTyped, RightReply
  <2> QED BY <1>1, <1>5, <2>1, IdsAreNat, InvTyped, Sent, Crashed
<1>6. ASSUME NEW id \in ClassIds,
             onSend_CS_RT_Signature(id) \/ onSend_CS_RT_MembersWithGeneric(id)
      PROVE  Answered
  BY <1>5, <1>6 DEF onSend_CS_RT_Signature, onSend_CS_RT_MembersWithGeneric
<1>7. ASSUME NEW id \in ClassIds, onSend_CS_RT_NestedTypes(id) PROVE Answered
  <2>1. Right("nested", id, jdwpSend_error("INVALID_CLASS"), JNI_TID)
    BY <1>1, IdsAreNat, InvTyped, RightError
  <2> QED BY <1>7, <2>1, InvTyped, Sent DEF onSend_CS_RT_NestedTypes
<1> QED BY <1>2, <1>3, <1>4, <1>6, <1>7, PlainAnswered DEF onCSReferenceType

LEMMA ClassTypeAnswered ==
    ASSUME Inv, onCSClassType
    PROVE  Answered
<1>1. ASSUME NEW id \in ClassIds, onSend_CS_CT_SuperClass(id) PROVE Answered
  <2> DEFINE ids == {find_ByID(id).superClazz}
  <2>1. known(id) => ids \subseteq Registered \cup {NULL, Wild}
    BY FoundClass DEF Above
  <2>2. Checked(id, "INVALID_OBJECT", ids) \/ Crash("class", id)
    BY <1>1 DEF onSend_CS_CT_SuperClass
  <2>3. "class" \in Subjects /\ "INVALID_OBJECT" \in Errors
    BY DEF Subjects, Errors, Codes
  <2> HIDE DEF ids
  <2> QED BY <2>1, <2>2, <2>3, IdsAreNat, InvTyped, CheckedAnswered, Crashed
<1> QED BY <1>1, PlainAnswered DEF onCSClassType

LEMMA MethodAnswered ==
    ASSUME Inv, onCSMethod
    PROVE  Answered
<1>1. ASSUME NEW id \in ClassIds, NEW mid \in {0, 1}, onSend_CS_M_LineTable(id, mid)
      PROVE  Answered
  <2>1. "method" \in Subjects
    BY DEF Subjects
  <2>2. Right("method", id, Reply, JNI_TID)
    BY <2>1, IdsAreNat, InvTyped, RightReply
  <2>3. Send("method", id, Reply) \/ Crash("method", id)
    BY <1>1 DEF onSend_CS_M_LineTable
  <2> QED BY <2>1, <2>2, <2>3, IdsAreNat, InvTyped, Sent, Crashed
<1> QED BY <1>1, PlainAnswered DEF onCSMethod

LEMMA ObjectsAnswered ==
    ASSUME Inv, onCSObjectReference \/ onCSArrayReference \/ onCSClassLoaderReference
    PROVE  Answered
<1>1. /\ {"none", "array"} \subseteq Subjects
      /\ {"INVALID_OBJECT", "INVALID_ARRAY", "INVALID_CLASS_LOADER"} \subseteq Errors
  BY DEF Subjects, Errors, Codes
<1>2. ASSUME NEW id \in ClassIds, onSend_CS_OR_ReferenceType(id) PROVE Answered
  <2>1. known(id) => {id} \subseteq Registered
    BY InvTyped
  <2> QED BY <1>1, <1>2, <2>1, IdsAreNat, CheckedAnswered DEF onSend_CS_OR_ReferenceType
<1>3. ASSUME NEW about \in {"none", "array"}, NEW code \in Errors,
             Send(about, 0, jdwpSend_error(code))
      PROVE  Answered
  BY <1>1, <1>3, InvTyped, RightError, Sent
<1> QED BY <1>1, <1>2, <1>3, PlainAnswered
        DEF onCSObjectReference, onCSArrayReference, onCSClassLoaderReference

LEMMA ThreadAnswered ==
    ASSUME Inv, onCSThreadReference
    PROVE  Answered
<1>1. /\ {"thread", "appThread"} \subseteq Subjects
      /\ {"INVALID_OBJECT", "INVALID_THREAD"} \subseteq Errors
  BY DEF Subjects, Errors, Codes
<1>2. ASSUME NEW about \in {"thread", "appThread"}, NEW tid \in Tids,
             about = "appThread" => tid = APP_TID,
             Send(about, tid, Reply)
      PROVE  Answered
  <2>1. Right(about, tid, Reply, JNI_TID)
    BY <1>1, <1>2, IdsAreNat, InvTyped, RightReply
  <2> QED BY <1>2, <2>1, InvTyped, Sent
<1>3. ASSUME NEW tid \in Tids, NEW code \in Errors, ~isThread(tid),
             Send("thread", tid, jdwpSend_error(code))
      PROVE  Answered
  <2>1. Right("thread", tid, jdwpSend_error(code), JNI_TID)
    BY <1>1, <1>3, IdsAreNat, InvTyped, RightError DEF isThread
  <2> QED BY <1>3, <2>1, InvTyped, Sent
<1>4. ASSUME NEW tid \in Tids, tid # APP_TID, NEW code \in Errors,
             Send("appThread", tid, jdwpSend_error(code))
      PROVE  Answered
  <2>1. Right("appThread", tid, jdwpSend_error(code), JNI_TID)
    BY <1>1, <1>4, IdsAreNat, InvTyped, RightError
  <2> QED BY <1>4, <2>1, InvTyped, Sent
<1>5. ASSUME NEW tid \in Tids, onSend_CS_TR_Name(tid) \/ onSend_CS_TR_Status(tid)
      PROVE  Answered
  BY <1>1, <1>2, <1>3, <1>5 DEF onSend_CS_TR_Name, onSend_CS_TR_Status
<1>6. ASSUME NEW tid \in Tids, onSend_CS_TR_ThreadGroup(tid) PROVE Answered
  <2>1. /\ JNI_TID' \in Tids
        /\ up = "serving" /\ up' = up /\ UNCHANGED registry
        /\ last' = [about |-> "thread", id |-> tid, packets |-> Reply]
    BY <1>6, InvTyped DEF onSend_CS_TR_ThreadGroup, Says
  <2>2. Right("thread", tid, Reply, JNI_TID')
    BY <1>1, IdsAreNat, InvTyped, RightReply
  <2> QED BY <2>1, <2>2 DEF Answered
<1>7. ASSUME NEW tid \in Tids, onSend_CS_TR_SuspendCount(tid) \/ onSend_CS_TR_Frames(tid)
      PROVE  Answered
  BY <1>2, <1>7 DEF onSend_CS_TR_SuspendCount, onSend_CS_TR_Frames
<1>8. ASSUME NEW tid \in Tids, onSend_CS_TR_FrameCount(tid) PROVE Answered
  BY <1>1, <1>2, <1>4, <1>8 DEF onSend_CS_TR_FrameCount
<1> QED BY <1>5, <1>6, <1>7, <1>8, PlainAnswered DEF onCSThreadReference

LEMMA ThreadGroupAnswered ==
    ASSUME Inv, onCSThreadGroupReference
    PROVE  Answered
<1>1. "group" \in Subjects /\ "INVALID_THREAD_GROUP" \in Errors
  BY DEF Subjects, Errors, Codes
<1>2. ASSUME NEW tgid \in 0 .. 2,
             \/ Send("group", tgid, Reply)
             \/ Send("group", tgid, jdwpSend_error("INVALID_THREAD_GROUP"))
      PROVE  Answered
  BY <1>1, <1>2, InvTyped, RightReply, RightError, Sent
<1> QED BY <1>2, PlainAnswered DEF onCSThreadGroupReference

(* The one command that may have two packets.                              *)
LEMMA EventRequestAnswered ==
    ASSUME Inv, onCSEventRequest
    PROVE  Answered
<1>1. "request" \in Subjects /\ "INVALID_CLASS" \in Codes
  BY DEF Subjects, Codes
<1>2. Right("request", 0, Reply, JNI_TID)
  BY <1>1, InvTyped, RightReply
<1> DEFINE two == jdwpSend_error("INVALID_CLASS") \o Reply
<1>3. Right("request", 0, two, JNI_TID)
  <2>1. /\ Reply \in Seq(Packet) /\ Len(Reply) = 1 /\ Reply[1].classes = {}
    BY <1>2 DEF Right, Reply, Naming
  <2> DEFINE error == jdwpSend_error("INVALID_CLASS")
  <2>2. error \in Seq(Packet) /\ Len(error) = 1 /\ error[1].classes = {}
    BY <1>1, ErrorPacket
  <2> HIDE DEF error
  <2>3. two \in Seq(Packet) /\ \A i \in DOMAIN two : two[i].classes = {}
    BY <2>1, <2>2, ConcatProperties DEF error
  <2> HIDE DEF two
  <2> QED BY <1>1, <2>3 DEF Right, Refused
<1>4. ASSUME NEW pattern \in Names, onSend_CS_ER_Set(pattern) PROVE Answered
  <2>1. Send("request", 0, Reply) \/ Send("request", 0, two)
    BY <1>4 DEF onSend_CS_ER_Set
  <2> HIDE DEF two
  <2> QED BY <1>2, <1>3, <2>1, InvTyped, Sent
<1> QED BY <1>4, PlainAnswered DEF onCSEventRequest

LEMMA PacketAnswered ==
    ASSUME Inv, onPacket
    PROVE  Answered
<1>1. CASE onCommand
  BY <1>1, VirtualMachineAnswered, ReferenceTypeAnswered, ClassTypeAnswered, MethodAnswered,
     ObjectsAnswered, ThreadAnswered, ThreadGroupAnswered, EventRequestAnswered, PlainAnswered
     DEF onCommand
<1>2. CASE Send("none", 0, jdwpSend_error("SCHEMA_CHANGE_NOT_IMPLEMENTED"))
  <2>1. "none" \in Subjects /\ "SCHEMA_CHANGE_NOT_IMPLEMENTED" \in Errors
    BY DEF Subjects, Errors, Codes
  <2> QED BY <1>2, <2>1, InvTyped, RightError, Sent
<1> QED BY <1>1, <1>2 DEF onPacket

-----------------------------------------------------------------------------
(* The invariant                                                           *)

LEMMA InitInv == Init => Inv
<1> SUFFICES ASSUME Init PROVE Inv
  OBVIOUS
<1>1. /\ refList = <<>> /\ OID = 1 /\ startRef = NULL /\ lines = 0 /\ up = "loading"
      /\ JNI_TID = 0 /\ last = First
  BY DEF Init, RegistryInit, First
<1>2. refList \in Seq(Class) /\ DOMAIN refList = {}
  BY <1>1
<1>3. RegistryTypeOK
  BY <1>1, <1>2, RegistryAssumption DEF RegistryTypeOK
<1>4. Counted /\ Stages /\ Linked(refList, OID)
  BY <1>1, <1>2 DEF Counted, Stages, Linked, NULL
<1>5. Right("none", 0, Reply, JNI_TID)
  <2>1. "none" \in Subjects /\ 0 \in Nat
    BY DEF Subjects
  <2> QED BY <1>3, <2>1, RightReply
<1> QED BY <1>1, <1>3, <1>4, <1>5 DEF Inv, RegistryInv, First, Tids, Right

LEMMA LoadKeeps ==
    ASSUME Inv, Load
    PROVE  Inv'
<1>1. RegistryInv'
  BY RegistryKeeps DEF Inv, Load
<1>2. up = "loading" /\ UNCHANGED <<JNI_TID, last>>
  BY DEF Load, RegistryNext, init_mainHandler, progress_jbase_line, progress_jbase_line_aborts
<1>3. last' = First /\ JNI_TID' \in Tids
  BY <1>2 DEF Inv
<1>4. Reply \in Seq(Packet) /\ Len(Reply) = 1 /\ DOMAIN Reply = {1}
      /\ Reply[1] = [code |-> "NO_ERROR", classes |-> {}]
  <2>1. [code |-> "NO_ERROR", classes |-> {}] \in Packet
    BY DEF Packet, Codes
  <2> QED BY <2>1 DEF Reply, Naming
<1>5. Right(last.about, last.id, last.packets, JNI_TID)'
  BY <1>3, <1>4 DEF Right, Refused, Accepted, First, Subjects
<1>6. last' \in [about : Subjects, id : Nat, packets : Seq(Packet)]
  BY <1>3, <1>4 DEF First, Subjects
<1> QED BY <1>1, <1>3, <1>5, <1>6 DEF Inv

LEMMA AnswerKeeps ==
    ASSUME Inv, Answered
    PROVE  Inv'
<1>1. RegistryInv' /\ Registered' = Registered
  <2>1. up' \in {up, "ended"} /\ UNCHANGED registry
    BY DEF Answered
  <2> QED BY <2>1, RegistryStays DEF Inv, registry, Registered
<1>2. JNI_TID' \in Tids /\ up' # "loading"
  BY DEF Answered
<1>3. PICK about, id, packets :
          /\ last' = [about |-> about, id |-> id, packets |-> packets]
          /\ Right(about, id, packets, JNI_TID')
  BY DEF Answered
<1>4. Right(last.about, last.id, last.packets, JNI_TID)'
  BY <1>1, <1>3 DEF Right, Refused
<1>5. last' \in [about : Subjects, id : Nat, packets : Seq(Packet)]
  BY <1>3 DEF Right
<1> QED BY <1>1, <1>2, <1>4, <1>5 DEF Inv

LEMMA NextInv == Inv /\ [Next]_vars => Inv'
<1> SUFFICES ASSUME Inv, [Next]_vars PROVE Inv'
  OBVIOUS
<1>1. CASE Load
  BY <1>1, LoadKeeps
<1>2. CASE onPacket
  BY <1>2, PacketAnswered, AnswerKeeps
<1>3. CASE UNCHANGED vars
  <2>1. RegistryInv'
    BY <1>3, RegistryStays DEF Inv, vars
  <2>2. UNCHANGED <<refList, up, JNI_TID, last>>
    BY <1>3 DEF vars, registry
  <2> QED BY <2>1, <2>2 DEF Inv, Right, Refused, Registered
<1> QED BY <1>1, <1>2, <1>3 DEF Next

LEMMA Invariant == Spec => []Inv
  BY InitInv, NextInv, PTL DEF Spec

-----------------------------------------------------------------------------
(* Theorems                                                                *)

(* Every variable of the registry and of the answers keeps its range,       *)
(* whatever the file says and the debugger asks.                           *)
THEOREM TypeCorrect == Spec => []TypeOK
<1>1. Inv => TypeOK
  BY DEF Inv, RegistryInv, TypeOK, Packet
<1> QED BY <1>1, Invariant, PTL

(* Each class is found under its own id, whatever duplicates the file has.  *)
THEOREM LookupsAreExact == Spec => []LookupExact
<1>1. Inv => LookupExact
  BY InvExact DEF Inv
<1> QED BY <1>1, Invariant, PTL

(* A class refers to classes registered before it: superclasses and         *)
(* interfaces make no cycle.                                               *)
THEOREM HierarchyHasNoCycle == Spec => []HierarchyEarlier
<1>1. Inv => HierarchyEarlier
  BY InvHierarchy DEF Inv
<1> QED BY <1>1, Invariant, PTL

(* A command other than Set of an event request is answered once at most.   *)
THEOREM AnswersAreSingle == Spec => []AnsweredOnce
<1>1. Inv => AnsweredOnce
  BY DEF Inv, Right, AnsweredOnce
<1> QED BY <1>1, Invariant, PTL

(* Every class id in a reply is that of a class there is.                  *)
THEOREM AnswersNameClasses == Spec => []RepliesNameClasses
<1>1. Inv => RepliesNameClasses
  BY InvTyped DEF Inv, Right, RepliesNameClasses
<1> QED BY <1>1, Invariant, PTL

(* No class there is, no running thread and not the latest JNI thread is    *)
(* refused, but by the handlers that refuse all or all but one.            *)
THEOREM RefusalsHold == Spec => []Refusals
<1>1. Inv => Refusals
  BY InvTyped DEF Inv, Right, Refused, Accepted, Refusals
<1> QED BY <1>1, Invariant, PTL

(* The list only grows at its head, with ids there were not.               *)
LEMMA ClassesStay ==
    ASSUME Inv, [Next]_vars, NEW j \in DOMAIN refList
    PROVE  \E k \in DOMAIN refList' : refList'[k] = refList[j]
<1>1. refList \in Seq(Class) /\ Inv'
  BY InvTyped, NextInv
<1>2. refList' \in Seq(Class)
  BY <1>1 DEF Inv, RegistryInv, RegistryTypeOK
<1>3. ASSUME NEW c, NEW s \in Seq(Class), refList' = <<c>> \o s, NEW i \in DOMAIN s
      PROVE  i + 1 \in DOMAIN refList' /\ refList'[i + 1] = s[i]
  BY <1>3, <1>2
<1>4. CASE UNCHANGED refList
  BY <1>4
<1>5. ASSUME NEW e \in Entries, progress_jbase_line(e)
      PROVE  \E k \in DOMAIN refList' : refList'[k] = refList[j]
  <2>1. \E c : refList' = <<c>> \o refList
    BY <1>5 DEF progress_jbase_line, add_RefTypeID
  <2> QED BY <1>1, <1>3, <2>1
<1>6. CASE main_class
  <2>1. PICK c, d : refList' = <<d, c>> \o refList
    BY <1>6 DEF main_class
  <2>2. j + 2 \in DOMAIN refList' /\ refList'[j + 2] = refList[j]
    BY <1>1, <2>1
  <2> QED BY <2>2
<1>7. CASE onPacket
  <2>1. UNCHANGED refList
    BY <1>7, PacketAnswered DEF Answered, registry
  <2> QED BY <1>4, <2>1
<1> QED BY <1>4, <1>5, <1>6, <1>7
        DEF Next, Load, RegistryNext, init_mainHandler, progress_jbase_line_aborts, vars, registry

(* An id keeps naming the class it was given to.                           *)
THEOREM IdsAreStable == Spec => IdsKeepTheirClass
<1>1. ASSUME Inv, [Next]_vars, NEW id \in Ids, known(id)
      PROVE  known(id)' /\ find_ByID(id)' = find_ByID(id)
  <2> DEFINE j == ById(id)
  <2>1. j \in DOMAIN refList /\ refList[j].ref_clazzid = id
    BY <1>1, InvTyped, FirstFound
  <2> HIDE DEF j
  <2>2. PICK k \in DOMAIN refList' : refList'[k] = refList[j]
    BY <1>1, <2>1, ClassesStay
  <2>3. (RegistryTypeOK /\ Linked(refList, OID))'
    BY <1>1, NextInv DEF Inv, RegistryInv
  <2>4. ById(id)' = k
    <3>1. \A i \in DOMAIN refList' : refList'[i].ref_clazzid = id => ById(id)' = i
      BY <2>3, LinkedExactNext
    <3> QED BY <2>1, <2>2, <3>1
  <2>5. k \in Nat \ {0}
    BY <2>3 DEF RegistryTypeOK
  <2> QED BY <2>1, <2>2, <2>4, <2>5 DEF known, find_ByID, j
<1>2. Inv /\ [Next]_vars =>
         [refList' # refList =>
             \A id \in Ids : known(id) => known(id)' /\ find_ByID(id)' = find_ByID(id)]_registry
  BY <1>1
<1> QED BY <1>2, Invariant, PTL DEF Spec, IdsKeepTheirClass

(* With the 16 bits of the code, tables of fewer than 65535 members never   *)
(* outgrow the block allocated for them.                                   *)
THEOREM TablesSuffice ==
    ASSUME U2 = 65536,
           \A e \in Entries : /\ Len(e.interfaces) < 65535
                              /\ e.fields < 65535
                              /\ e.methods < 65535
    PROVE  Spec => []TablesHold
<1> DEFINE Fit(c) == \A t \in {c.interfaces, c.fields, c.methods} : Len(t.items) <= t.block
<1>1. Init => TablesHold
  BY DEF Init, RegistryInit, TablesHold
<1>2. ASSUME RegistryInv, TablesHold, NEW e \in Entries, progress_jbase_line(e)
      PROVE  TablesHold'
  <2>1. PICK super \in superOf(e) :
             refList' = <<ClassOf(e, super)>> \o refList /\ OID' = OID + 1
    BY <1>2, LineAdds
  <2>2. refList \in Seq(Class) /\ e.interfaces \in Seq(Names) /\ e.fields \in Nat /\ e.methods \in Nat
    BY <1>2, RegistryAssumption DEF RegistryInv, RegistryTypeOK
  <2>3. interfacesOf(e) \in Seq(Registered) /\ Len(interfacesOf(e)) <= Greatest
    <3>1. /\ interfacesOf(e) \in Seq(Registered)
          /\ Len(interfacesOf(e)) <= Len(e.interfaces) /\ Len(e.interfaces) <= Greatest
      BY <2>2, InterfacesFound DEF Greatest
    <3> QED BY <2>2, <3>1, LenProperties, SizesBounded
  <2>4. Fit(ClassOf(e, super))
    <3>1. LET t == Filled(interfacesOf(e)) IN Len(t.items) <= t.block
      BY <2>3, SizesGrow, FilledFits
    <3>2. e.fields < 65535 /\ e.methods < 65535
      OBVIOUS
    <3>3. LET t == Filled(Numbered(e.fields)) IN Len(t.items) <= t.block
      BY <2>2, <3>2, NumberedFit
    <3>4. LET t == Filled(Numbered(e.methods)) IN Len(t.items) <= t.block
      BY <2>2, <3>2, NumberedFit
    <3> QED BY <3>1, <3>3, <3>4 DEF ClassOf
  <2> DEFINE c == ClassOf(e, super)
  <2>5. refList' = <<c>> \o refList /\ Fit(c)
    BY <2>1, <2>4
  <2> HIDE DEF c
  <2>6. \A i \in DOMAIN refList' : refList'[i] = c \/ \E j \in DOMAIN refList : refList'[i] = refList[j]
    BY <2>2, <2>5
  <2> QED BY <1>2, <2>5, <2>6 DEF TablesHold
<1>3. ASSUME RegistryInv, TablesHold, main_class PROVE TablesHold'
  <2> DEFINE c == add_ref(OID, MainClass, NULL, [items |-> <<1, 1>>, max |-> 0, block |-> 2])
             d == add_ref(OID + 1, StarClass, NULL, NoItems)
  <2>1. refList' = <<d, c>> \o refList /\ refList \in Seq(Class)
    BY <1>3 DEF main_class, RegistryInv, RegistryTypeOK
  <2>2. Fit(c) /\ Fit(d)
    BY DEF add_ref, NoItems
  <2> HIDE DEF c, d
  <2>3. \A i \in DOMAIN refList' :
            refList'[i] \in {c, d} \/ \E j \in DOMAIN refList : refList'[i] = refList[j]
    BY <2>1
  <2> QED BY <1>3, <2>2, <2>3 DEF TablesHold
<1>4. Inv /\ TablesHold /\ [Next]_vars => TablesHold'
  <2> SUFFICES ASSUME Inv, TablesHold, [Next]_vars PROVE TablesHold'
    OBVIOUS
  <2>1. CASE UNCHANGED refList
    BY <2>1 DEF TablesHold
  <2>2. CASE onPacket
    <3>1. UNCHANGED refList
      BY <2>2, PacketAnswered DEF Answered, registry
    <3> QED BY <2>1, <3>1
  <2> QED BY <1>2, <1>3, <2>1, <2>2
          DEF Next, Load, RegistryNext, init_mainHandler, progress_jbase_line_aborts,
              vars, registry, Inv
<1> QED BY <1>1, <1>4, Invariant, PTL DEF Spec
=============================================================================
