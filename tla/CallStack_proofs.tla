--------------------------- MODULE CallStack_proofs ---------------------------
(***************************************************************************)
(* Proofs about module CallStack, for any image, any stack and any nesting *)
(* of calls, natives and callbacks.  The inductive invariant says where    *)
(* the frames lie (Arranged): each above the locals of the one before; the *)
(* links are those of LinksIntact; the C locals of the running method      *)
(* belong to the last frame (Running), those that wait on the C stack to   *)
(* the last frames of their activations (Waiting).  A step either stays in *)
(* the method (Stays), enters one (Entering), returns to the caller        *)
(* (Returned) or leaves the whole activation (Leave): one lemma each shows *)
(* what it keeps, and one per action which of the four it is.              *)
(***************************************************************************)
EXTENDS CallStack, SequenceTheorems, TLAPS

-----------------------------------------------------------------------------
\* Pointers of opcodes

\* An opcode goes through the cell that the table names for it, if any.
LEMMA TableRight == \A op \in Ops : op.checked # NoPointer => op.deref = op.checked
<1> DEFINE Right(op) == op.checked # NoPointer => op.deref = op.checked
<1>1. \A a, b : Right(Eff(a, b))
  BY DEF Eff
<1>2. ASSUME NEW access \in Access, NEW words \in {1, 2}
      PROVE  Right(Storage(access, words))
  BY DEF Access, Storage, OpcodePointerOffsets
<1>a. \A op \in InitOps : Right(op)
  BY DEF InitOps
<1> HIDE DEF Right
<1>3. \A op \in StorageOps : Right(op)
  BY <1>2 DEF StorageOps
<1>4. \A op \in Literals \cup IntOps \cup LongOps \cup FloatOps \cup DoubleOps : Right(op)
  BY <1>1 DEF Literals, IntOps, LongOps, FloatOps, DoubleOps
<1>5. \A op \in ObjOps \cup ZeroTests \cup Casts \cup StackOps \cup NearJumps : Right(op)
  BY <1>1 DEF ObjOps, ZeroTests, Casts, StackOps, NearJumps
<1>6. \A op \in FarJumps \cup IntJumps \cup FarIntJumps \cup DataAddrs \cup MiscOps : Right(op)
  BY <1>1 DEF FarJumps, NearJumps, IntJumps, FarIntJumps, DataAddrs, MiscOps
<1>7. \A op \in Ops : Right(op)
  BY <1>3, <1>4, <1>5, <1>6, <1>a DEF Ops
<1>8. QED
  BY <1>7 DEF Right

\* An opcode of the table runs on, or goes through a NULL it has no entry for.
LEMMA OpPassesCheck ==
  ASSUME NEW op \in Ops, Op(op)
  PROVE  /\ mode = "run" /\ cpu.sp < MaxStack /\ Operands(op.pop)
         /\ Dies("null in init") \/ \E vals \in [1 .. op.push -> Vals] : Leaves(op.pop, vals)
<1>1. mode = "run" /\ cpu.sp < MaxStack /\ ~NullAt(op.checked) /\ Operands(op.pop)
  BY DEF Op, Fetch
<1>2. CASE op.checked = NoPointer
  BY <1>1, <1>2 DEF Op
<1>3. CASE op.checked # NoPointer
  <2>1. ~NullAt(op.deref)
    BY <1>1, <1>3, TableRight
  <2>2. QED
    BY <1>1, <2>1 DEF Op
<1>4. QED
  BY <1>2, <1>3

LEMMA NullPointerChecked == StorageNeverNull /\ [Next]_vars => StorageNeverNull'
<1> SUFFICES ASSUME StorageNeverNull, [Next]_vars PROVE StorageNeverNull'
  OBVIOUS
<1> USE DEF StorageNeverNull
<1>1. CASE Enter
  BY <1>1 DEF Enter, vmRun, vmResume, vmEntry, Activate
<1>2. ASSUME NEW res, Leave(res)
      PROVE  StorageNeverNull'
  BY <1>2 DEF Leave
<1>3. CASE Fail
  BY <1>2, <1>3, ZenonT(60)
     DEF Fail, handleNullPointer, handleStackOverflow, Overrun, UnknownOpcode,
         MissingNative, Dies
<1>4. ASSUME NEW op \in Ops, Op(op)
      PROVE  StorageNeverNull'
  <2>1. mode = "run"
    BY <1>4, OpPassesCheck
  <2>2. Dies("null in init") \/ \E vals \in [1 .. op.push -> Vals] : Leaves(op.pop, vals)
    BY <1>4, OpPassesCheck
  <2>3. mode' = "null in init" \/ mode' = "run"
    BY <2>1, <2>2 DEF Dies, Leaves
  <2>4. QED
    BY <2>3
<1>a. CASE InitArray
  BY <1>a DEF InitArray, Fetch, Dies, Leaves
<1>5. CASE Move
  BY <1>5 DEF Move, LoadParam, LoadLocal, StoreParam, StoreLocal, Load, Store, Leaves
<1>6. ASSUME NEW m \in Methods, Call(m) \/ LoadParam0Call(m) \/ CallVirtual(m) \/ NativeCalls(m)
      PROVE  StorageNeverNull'
  BY <1>6 DEF Call, LoadParam0Call, CallVirtual, NativeCalls, Calls, Dies, Activate
<1>7. ASSUME NEW n \in NativeParams, CallNative(n)
      PROVE  StorageNeverNull'
  BY <1>7 DEF CallNative
<1>8. CASE NativeReturns
  BY <1>8 DEF NativeReturns
<1>9. ASSUME NEW r \in 0 .. 2, Return(r)
      PROVE  StorageNeverNull'
  BY <1>2, <1>9 DEF Return
<1>10. CASE UNCHANGED vars
  BY <1>10 DEF vars
<1>11. QED
  BY <1>1, <1>3, <1>4, <1>5, <1>6, <1>7, <1>8, <1>9, <1>10, <1>a DEF Next

\* An opcode for which the table of scode.h has a pointer offset never goes
\* through a null pointer: the offset names the very cell it dereferences.
THEOREM NoNullInStorage == Spec => []StorageNeverNull
<1>1. Init => StorageNeverNull
  BY DEF Init, StorageNeverNull
<1>2. QED
  BY <1>1, NullPointerChecked, PTL DEF Spec

-----------------------------------------------------------------------------
\* Where frames lie

FrameSet == [ fp : Reach, m : Methods, ret : Nat, first : Nat, keep : Block ]

LocalsEnd(f) == f.fp + 2 + NumLocals[f.m]

ParamsStart(f) == f.fp - NumParams[f.m]

\* Frame number k: the parameters lie above the cells the caller keeps; only
\* the first frame of an activation has no address to return to.
Placed(f, k) ==
  /\ f.keep < ParamsStart(f)
  /\ LocalsEnd(f) < MaxStack + Room
  /\ f.first \in 1 .. k
  /\ f.ret = 0 <=> f.first = k
  /\ f.first < k => f.keep = ParamsStart(f) - 1

\* Frames lie above one another, and those of an activation follow its first.
Arranged(fs) ==
  /\ fs \in Seq(FrameSet)
  /\ \A k \in 1 .. Len(fs) : Placed(fs[k], k)
  /\ \A i, k \in 1 .. Len(fs) : i < k => LocalsEnd(fs[i]) <= fs[k].keep
  /\ \A i, k \in 1 .. Len(fs) : fs[k].first <= i /\ i <= k => fs[i].first = fs[k].first

LEMMA FrameFields ==
  ASSUME NEW f \in FrameSet
  PROVE  /\ f.fp \in Nat /\ f.fp <= MaxStack + Room - 1 /\ f.m \in Methods
         /\ f.ret \in Nat /\ f.first \in Nat /\ f.keep \in Nat
         /\ f.m \in Nat
         /\ NumParams[f.m] \in Nat /\ NumLocals[f.m] \in Nat
         /\ NumParams[f.m] + 3 + NumLocals[f.m] <= Room
         /\ LocalsEnd(f) \in Nat /\ ParamsStart(f) \in Int
         /\ LocalsEnd(f) >= f.fp + 2 /\ ParamsStart(f) <= f.fp
<1>1. f.fp \in Reach /\ f.m \in Methods /\ f.ret \in Nat /\ f.first \in Nat /\ f.keep \in Block
  BY DEF FrameSet
<1>2. NumParams[f.m] \in Nat /\ NumLocals[f.m] \in Nat /\ f.m \in Nat
  BY <1>1, ImageAssumption DEF ImageAssumption
<1>3. NumParams[f.m] + 3 + NumLocals[f.m] <= Room
  BY <1>1, BlockAssumption DEF BlockAssumption
<1>4. f.fp \in Nat /\ f.fp <= MaxStack + Room - 1 /\ f.keep \in Nat
  BY <1>1, BlockAssumption DEF Block, Reach, BlockAssumption
<1>5. QED
  BY <1>1, <1>2, <1>3, <1>4 DEF LocalsEnd, ParamsStart

LEMMA FrameAt ==
  ASSUME NEW fs, Arranged(fs), NEW k \in 1 .. Len(fs)
  PROVE  fs[k] \in FrameSet /\ Placed(fs[k], k)
<1>1. fs \in Seq(FrameSet)
  BY DEF Arranged
<1>2. fs[k] \in FrameSet
  BY <1>1, ElementOfSeq
<1>3. QED
  BY <1>2 DEF Arranged

LEMMA EmptyArranged == Arranged(<<>>)
<1> DEFINE e == <<>>
<1>1. e \in Seq(FrameSet) /\ Len(e) = 0
  OBVIOUS
<1> HIDE DEF e
<1>2. Arranged(e)
  BY <1>1 DEF Arranged
<1>3. QED
  BY <1>2 DEF e

\* A method is entered: after a call, or as the first of an activation.
LEMMA OneMore ==
  ASSUME NEW fs, Arranged(fs), NEW f \in FrameSet, Placed(f, Len(fs) + 1),
         fs # <<>> => LocalsEnd(fs[Len(fs)]) <= f.keep,
         f.first # Len(fs) + 1 => fs # <<>> /\ f.first = fs[Len(fs)].first
  PROVE  LET gs == Append(fs, f)
         IN  /\ Arranged(gs)
             /\ Len(gs) = Len(fs) + 1
             /\ gs[Len(fs) + 1] = f
             /\ \A k \in 1 .. Len(fs) : gs[k] = fs[k]
<1> DEFINE gs == Append(fs, f)
           n == Len(fs)
<1>1. fs \in Seq(FrameSet) /\ n \in Nat
  BY LenProperties DEF Arranged
<1>2. gs \in Seq(FrameSet) /\ Len(gs) = n + 1 /\ gs[n + 1] = f /\ \A k \in 1 .. n : gs[k] = fs[k]
  BY <1>1, AppendProperties
<1>3. fs # <<>> <=> n > 0
  BY <1>1, EmptySeq
<1> HIDE DEF gs, n
<1>4. \A k \in 1 .. n : fs[k] \in FrameSet /\ Placed(fs[k], k)
  BY FrameAt DEF n
<1>5. \A k \in 1 .. n + 1 : Placed(gs[k], k)
  <2> SUFFICES ASSUME NEW k \in 1 .. n + 1 PROVE Placed(gs[k], k)
    OBVIOUS
  <2>1. CASE k = n + 1
    BY <1>2, <2>1 DEF n
  <2>2. CASE k # n + 1
    <3>1. k \in 1 .. n
      BY <1>1, <2>2
    <3>2. QED
      BY <1>2, <1>4, <3>1
  <2>3. QED
    BY <2>1, <2>2
<1>6. ASSUME NEW i \in 1 .. n
      PROVE  LocalsEnd(fs[i]) <= f.keep
  <2>1. n > 0 /\ n \in 1 .. n
    BY <1>1
  <2>2. LocalsEnd(fs[n]) <= f.keep
    BY <1>3, <2>1 DEF n
  <2>3. CASE i = n
    BY <2>2, <2>3
  <2>4. CASE i # n
    <3>1. LocalsEnd(fs[i]) <= fs[n].keep
      <4>1. i < n /\ i \in 1 .. Len(fs) /\ n \in 1 .. Len(fs)
        BY <1>1, <2>1, <2>4 DEF n
      <4>2. QED
        BY <4>1 DEF Arranged
    <3>2. fs[n] \in FrameSet /\ fs[n].keep < ParamsStart(fs[n])
      BY <1>4, <2>1 DEF Placed
    <3>3. /\ fs[n].keep \in Nat /\ ParamsStart(fs[n]) \in Int /\ LocalsEnd(fs[n]) \in Nat
          /\ ParamsStart(fs[n]) <= fs[n].fp /\ fs[n].fp + 2 <= LocalsEnd(fs[n])
          /\ fs[n].fp \in Nat
      BY <3>2, FrameFields
    <3>4. LocalsEnd(fs[i]) \in Nat
      BY <1>4, FrameFields
    <3>5. f.keep \in Nat
      BY FrameFields
    <3>6. QED
      BY <2>2, <3>1, <3>2, <3>3, <3>4, <3>5, SMTT(60)
  <2>5. QED
    BY <2>3, <2>4
<1>7. ASSUME NEW i \in 1 .. n + 1, NEW k \in 1 .. n + 1, i < k
      PROVE  LocalsEnd(gs[i]) <= gs[k].keep
  <2>1. i \in 1 .. n /\ gs[i] = fs[i]
    BY <1>1, <1>2, <1>7
  <2>2. CASE k = n + 1
    BY <1>2, <1>6, <2>1, <2>2
  <2>3. CASE k # n + 1
    <3>1. k \in 1 .. n /\ gs[k] = fs[k]
      BY <1>1, <1>2, <2>3
    <3>2. LocalsEnd(fs[i]) <= fs[k].keep
      BY <1>7, <2>1, <3>1 DEF Arranged, n
    <3>3. QED
      BY <2>1, <3>1, <3>2
  <2>4. QED
    BY <2>2, <2>3
<1>8. ASSUME NEW i \in 1 .. n + 1, NEW k \in 1 .. n + 1, gs[k].first <= i, i <= k
      PROVE  gs[i].first = gs[k].first
  <2>1. CASE i = k
    BY <2>1
  <2>2. CASE i # k
    <3>1. i \in 1 .. n /\ gs[i] = fs[i]
      BY <1>1, <1>2, <1>8, <2>2
    <3>2. CASE k # n + 1
      <4>1. k \in 1 .. n /\ gs[k] = fs[k]
        BY <1>1, <1>2, <3>2
      <4>2. fs[i].first = fs[k].first
        BY <1>8, <3>1, <4>1 DEF Arranged, n
      <4>3. QED
        BY <3>1, <4>1, <4>2
    <3>3. CASE k = n + 1
      <4>1. gs[k] = f /\ n > 0 /\ n \in 1 .. n /\ i <= n
        BY <1>1, <1>2, <3>1, <3>3
      <4>2. f.first # n + 1
        BY <1>1, <1>8, <3>1, <4>1
      <4>3. f.first = fs[n].first
        BY <4>2 DEF n
      <4>4. fs[i].first = fs[n].first
        BY <1>8, <3>1, <4>1, <4>3 DEF Arranged, n
      <4>5. QED
        BY <3>1, <4>1, <4>3, <4>4
    <3>4. QED
      BY <3>2, <3>3
  <2>3. QED
    BY <2>1, <2>2
<1>9. Arranged(gs)
  BY <1>2, <1>5, <1>7, <1>8 DEF Arranged
<1>10. QED
  BY <1>2, <1>9 DEF gs, n

\* Methods are left: what is below stays as it was.
LEMMA Fewer ==
  ASSUME NEW fs, Arranged(fs), NEW j \in 0 .. Len(fs)
  PROVE  LET gs == SubSeq(fs, 1, j)
         IN  /\ Arranged(gs)
             /\ Len(gs) = j
             /\ \A k \in 1 .. j : gs[k] = fs[k]
<1> DEFINE gs == SubSeq(fs, 1, j)
<1>1. fs \in Seq(FrameSet) /\ Len(fs) \in Nat
  BY LenProperties DEF Arranged
<1>2. gs \in Seq(FrameSet) /\ Len(gs) = j /\ \A k \in 1 .. j : gs[k] = fs[k]
  <2>1. j \in Int /\ j <= Len(fs) /\ j >= 0
    BY <1>1
  <2>2. \A i \in 1 .. j : fs[i] \in FrameSet
    BY <1>1, <2>1, ElementOfSeq
  <2>3. /\ gs \in Seq(FrameSet) /\ Len(gs) = (IF 1 <= j THEN j - 1 + 1 ELSE 0)
        /\ \A k \in 1 .. j - 1 + 1 : gs[k] = fs[1 + k - 1]
    BY <2>1, <2>2, SubSeqProperties
  <2> HIDE DEF gs
  <2>4. QED
    BY <2>1, <2>3
<1> HIDE DEF gs
<1>3. \A k \in 1 .. Len(gs) : Placed(gs[k], k)
  BY <1>1, <1>2 DEF Arranged
<1>4. \A i, k \in 1 .. Len(gs) : i < k => LocalsEnd(gs[i]) <= gs[k].keep
  BY <1>1, <1>2 DEF Arranged
<1>5. \A i, k \in 1 .. Len(gs) : gs[k].first <= i /\ i <= k => gs[i].first = gs[k].first
  BY <1>1, <1>2 DEF Arranged
<1>6. QED
  BY <1>2, <1>3, <1>4, <1>5 DEF Arranged, gs

\* A frame lies above the cells its predecessors use.
LEMMA Above ==
  ASSUME NEW fs, Arranged(fs), NEW i \in 1 .. Len(fs), NEW k \in 1 .. Len(fs), i <= k
  PROVE  /\ fs[i].keep <= fs[k].keep
         /\ LocalsEnd(fs[i]) <= LocalsEnd(fs[k])
         /\ i < k => LocalsEnd(fs[i]) <= fs[k].keep
<1>1. /\ fs[i] \in FrameSet /\ Placed(fs[i], i)
      /\ fs[k] \in FrameSet /\ Placed(fs[k], k)
  BY FrameAt
<1>2. /\ fs[i].keep \in Nat /\ LocalsEnd(fs[i]) \in Nat /\ ParamsStart(fs[i]) \in Int
      /\ LocalsEnd(fs[i]) >= fs[i].fp + 2 /\ ParamsStart(fs[i]) <= fs[i].fp /\ fs[i].fp \in Nat
      /\ fs[i].keep < ParamsStart(fs[i])
  BY <1>1, FrameFields DEF Placed
<1>3. /\ fs[k].keep \in Nat /\ LocalsEnd(fs[k]) \in Nat /\ ParamsStart(fs[k]) \in Int
      /\ LocalsEnd(fs[k]) >= fs[k].fp + 2 /\ ParamsStart(fs[k]) <= fs[k].fp /\ fs[k].fp \in Nat
      /\ fs[k].keep < ParamsStart(fs[k])
  BY <1>1, FrameFields DEF Placed
<1>4. CASE i = k
  BY <1>2, <1>4
<1>5. CASE i # k
  <2>1. i < k
    BY <1>5
  <2>2. LocalsEnd(fs[i]) <= fs[k].keep
    BY <2>1 DEF Arranged
  <2>3. QED
    BY <1>2, <1>3, <2>2, SMTT(60)
<1>6. QED
  BY <1>4, <1>5

-----------------------------------------------------------------------------
\* The cells

LEMMA BlockIs ==
  /\ Reach \subseteq Nat /\ \A i \in Nat : i < MaxStack + Room <=> i \in Reach
  /\ Block \subseteq Nat /\ \A i \in Nat : i < MaxStack <=> i \in Block
  /\ Block \subseteq Reach
BY BlockAssumption DEF Block, Reach, BlockAssumption

LEMMA PushedCells ==
  ASSUME NEW cells \in [Block -> Int], NEW top \in Int, NEW vals \in Seq(Int)
  PROVE  LET c == Pushed(cells, top, vals)
         IN  /\ c \in [Block -> Int]
             /\ \A i \in Block : i <= top => c[i] = cells[i]
             /\ \A j \in 1 .. Len(vals) : top + j \in Block => c[top + j] = vals[j]
<1> DEFINE c == Pushed(cells, top, vals)
<1>1. DOMAIN vals = 1 .. Len(vals) /\ Len(vals) \in Nat /\ \A j \in 1 .. Len(vals) : vals[j] \in Int
  BY LenProperties
<1>2. c = [ i \in Block |->
              IF i <= top THEN cells[i]
              ELSE IF i - top \in 1 .. Len(vals) THEN vals[i - top]
              ELSE 0 ]
  BY <1>1 DEF Pushed
<1>3. Block \subseteq Int
  BY BlockIs
<1> HIDE DEF c
<1>4. \A i \in Block : c[i] = IF i <= top THEN cells[i]
                              ELSE IF i - top \in 1 .. Len(vals) THEN vals[i - top]
                              ELSE 0
  BY <1>2
<1>5. \A i \in Block : c[i] \in Int
  BY <1>1, <1>3, <1>4
<1>6. c \in [Block -> Int]
  BY <1>2, <1>5
<1>7. \A i \in Block : i <= top => c[i] = cells[i]
  BY <1>4
<1>8. ASSUME NEW j \in 1 .. Len(vals), top + j \in Block
      PROVE  c[top + j] = vals[j]
  <2> DEFINE i == top + j
  <2>1. i \in Block /\ ~(i <= top) /\ i - top = j
    BY <1>1, <1>8
  <2> HIDE DEF i
  <2>2. c[i] = vals[i - top]
    BY <1>4, <2>1
  <2>3. QED
    BY <2>1, <2>2 DEF i
<1>9. QED
  BY <1>6, <1>7, <1>8 DEF c

\* Values by number.
LEMMA Tuples ==
  ASSUME NEW n \in Nat, NEW S, NEW vals \in [1 .. n -> S]
  PROVE  vals \in Seq(S) /\ Len(vals) = n
<1>1. vals \in UNION { [1 .. m -> S] : m \in Nat }
  OBVIOUS
<1>2. vals \in Seq(S)
  BY <1>1, SeqDef
<1>3. DOMAIN vals = 1 .. n /\ DOMAIN vals = 1 .. Len(vals) /\ Len(vals) \in Nat
  BY <1>2, LenProperties
<1>4. QED
  BY <1>2, <1>3

LEMMA ValsAreInts == \A n \in Nat : \A vals \in [1 .. n -> Vals] : vals \in Seq(Int) /\ Len(vals) = n
<1> SUFFICES ASSUME NEW n \in Nat, NEW vals \in [1 .. n -> Vals]
             PROVE  vals \in Seq(Int) /\ Len(vals) = n
  OBVIOUS
<1>1. vals \in [1 .. n -> Int]
  BY ImageAssumption DEF ImageAssumption
<1>2. QED
  BY <1>1, Tuples

\* The links of a frame above cell top.
LEMMA LinkedCells ==
  ASSUME NEW cells \in [Block -> Int], NEW top \in Nat, NEW ret \in Int, NEW prev \in Int,
         NEW m \in Methods, Linked(cells, top, ret, prev, m)
  PROVE  /\ mem' \in [Block -> Int]
         /\ \A i \in Block : i <= top => mem'[i] = cells[i]
         /\ top + 3 \in Block => /\ mem'[top + 1] = ret
                                 /\ mem'[top + 2] = prev
                                 /\ mem'[top + 3] = m
<1>1. PICK locals \in [1 .. NumLocals[m] -> Vals] :
        mem' = Pushed(cells, top, <<ret, prev, m>> \o locals)
  BY DEF Linked
<1> DEFINE u == <<ret, prev, m>>
           v == u \o locals
<1>2. NumLocals[m] \in Nat /\ m \in Int
  BY ImageAssumption DEF ImageAssumption
<1>3. locals \in Seq(Int)
  BY <1>2, ValsAreInts
<1>4. u \in Seq(Int)
  BY <1>2
<1>5. Len(u) = 3 /\ u[1] = ret /\ u[2] = prev /\ u[3] = m
  OBVIOUS
<1> HIDE DEF u
<1>6. /\ v \in Seq(Int) /\ Len(v) = Len(u) + Len(locals)
      /\ \A i \in 1 .. Len(u) + Len(locals) :
           v[i] = IF i <= Len(u) THEN u[i] ELSE locals[i - Len(u)]
  BY <1>3, <1>4, ConcatProperties
<1> HIDE DEF v
<1>7. Len(locals) \in Nat
  BY <1>3
<1>8. Len(v) \in Nat /\ Len(v) >= 3 /\ v[1] = ret /\ v[2] = prev /\ v[3] = m
  BY <1>5, <1>6, <1>7
<1>9. /\ mem' \in [Block -> Int]
      /\ \A i \in Block : i <= top => mem'[i] = cells[i]
      /\ \A j \in 1 .. Len(v) : top + j \in Block => mem'[top + j] = v[j]
  <2>1. mem' = Pushed(cells, top, v) /\ top \in Int
    BY <1>1 DEF v, u
  <2>2. QED
    BY <1>6, <2>1, PushedCells, ZenonT(60)
<1>10. ASSUME top + 3 \in Block
       PROVE  mem'[top + 1] = ret /\ mem'[top + 2] = prev /\ mem'[top + 3] = m
  <2>1. top + 1 \in Block /\ top + 2 \in Block
    BY <1>10, BlockIs, BlockAssumption DEF BlockAssumption
  <2>2. 1 \in 1 .. Len(v) /\ 2 \in 1 .. Len(v) /\ 3 \in 1 .. Len(v)
    BY <1>8
  <2>3. QED
    BY <1>8, <1>9, <1>10, <2>1, <2>2
<1>11. QED
  BY <1>9, <1>10

LinksOK(fs, cells) ==
  \A k \in 1 .. Len(fs) :
    LET f == fs[k]
    IN  f.fp + 2 \in Block =>
          /\ cells[f.fp] = f.ret
          /\ cells[f.fp + 1] = IF k = f.first THEN 0 ELSE fs[k - 1].fp
          /\ cells[f.fp + 2] = f.m

\* A step leaves the links of the last frame alone, and all that the methods
\* before keep.
Spared(fs, old, new) ==
  \A i \in Block :
    \/ i <= fs[Len(fs)].keep
    \/ fs[Len(fs)].fp <= i /\ i <= fs[Len(fs)].fp + 2
    => new[i] = old[i]

LEMMA LinksSpared ==
  ASSUME NEW fs, Arranged(fs), NEW old, LinksOK(fs, old), NEW new, Spared(fs, old, new)
  PROVE  LinksOK(fs, new)
<1> SUFFICES ASSUME NEW k \in 1 .. Len(fs), fs[k].fp + 2 \in Block
             PROVE  /\ new[fs[k].fp] = old[fs[k].fp]
                    /\ new[fs[k].fp + 1] = old[fs[k].fp + 1]
                    /\ new[fs[k].fp + 2] = old[fs[k].fp + 2]
  BY DEF LinksOK
<1> DEFINE n == Len(fs)
<1>1. n \in Nat /\ n \in 1 .. n /\ k <= n
  BY LenProperties DEF Arranged
<1>2. fs[k] \in FrameSet /\ Placed(fs[k], k)
  BY FrameAt
<1>3. /\ fs[k].fp \in Nat /\ fs[k].fp + 2 <= LocalsEnd(fs[k]) /\ LocalsEnd(fs[k]) \in Nat
      /\ LocalsEnd(fs[k]) < MaxStack + Room
  BY <1>2, FrameFields DEF Placed
<1>4. fs[k].fp \in Block /\ fs[k].fp + 1 \in Block /\ fs[k].fp + 2 \in Block
  BY <1>3, BlockIs, BlockAssumption DEF BlockAssumption
<1>5. CASE k = n
  BY <1>3, <1>4, <1>5 DEF Spared, n
<1>6. CASE k # n
  <2>1. LocalsEnd(fs[k]) <= fs[n].keep
    BY <1>1, <1>6, Above DEF n
  <2>2. fs[n].keep \in Nat
    BY <1>1, FrameAt, FrameFields DEF n
  <2>3. fs[k].fp <= fs[n].keep /\ fs[k].fp + 1 <= fs[n].keep /\ fs[k].fp + 2 <= fs[n].keep
    BY <1>3, <2>1, <2>2
  <2>4. QED
    BY <1>4, <2>3 DEF Spared, n
<1>7. QED
  BY <1>5, <1>6

\* A new frame above them.
LEMMA LinksOneMore ==
  ASSUME NEW fs, Arranged(fs), NEW f \in FrameSet, NEW gs, Len(gs) = Len(fs) + 1,
         gs[Len(fs) + 1] = f, \A k \in 1 .. Len(fs) : gs[k] = fs[k],
         NEW new, LinksOK(fs, new), f.first \in 1 .. Len(fs) + 1,
         f.fp + 2 \in Block =>
           /\ new[f.fp] = f.ret /\ new[f.fp + 2] = f.m
           /\ new[f.fp + 1] = IF f.first = Len(fs) + 1 THEN 0 ELSE fs[Len(fs)].fp
  PROVE  LinksOK(gs, new)
<1> DEFINE n == Len(fs)
<1>1. n \in Nat
  BY LenProperties DEF Arranged
<1>2. \A k \in 1 .. n : fs[k].first \in 1 .. k
  BY FrameAt DEF Placed
<1>3. ASSUME NEW k \in 1 .. n + 1, gs[k].fp + 2 \in Block
      PROVE  /\ new[gs[k].fp] = gs[k].ret
             /\ new[gs[k].fp + 1] = IF k = gs[k].first THEN 0 ELSE gs[k - 1].fp
             /\ new[gs[k].fp + 2] = gs[k].m
  <2>1. CASE k = n + 1
    <3>1. gs[k] = f /\ f.fp + 2 \in Block
      BY <1>3, <2>1
    <3>2. CASE f.first = n + 1
      BY <2>1, <3>1, <3>2
    <3>3. CASE f.first # n + 1
      <4>1. n \in 1 .. n /\ k - 1 = n
        BY <1>1, <2>1, <3>3
      <4>2. gs[k - 1] = fs[n]
        BY <4>1
      <4>3. QED
        BY <2>1, <3>1, <3>3, <4>2
    <3>4. QED
      BY <3>2, <3>3
  <2>2. CASE k # n + 1
    <3>1. k \in 1 .. n /\ gs[k] = fs[k]
      BY <1>1, <2>2
    <3>2. /\ new[fs[k].fp] = fs[k].ret
          /\ new[fs[k].fp + 1] = IF k = fs[k].first THEN 0 ELSE fs[k - 1].fp
          /\ new[fs[k].fp + 2] = fs[k].m
      BY <1>3, <3>1 DEF LinksOK
    <3>3. k # fs[k].first => gs[k - 1] = fs[k - 1]
      <4>1. k # fs[k].first => k - 1 \in 1 .. n
        BY <1>1, <1>2, <3>1
      <4>2. QED
        BY <4>1
    <3>4. QED
      BY <3>1, <3>2, <3>3
  <2>3. QED
    BY <2>1, <2>2
<1>4. QED
  BY <1>3 DEF LinksOK

LEMMA LinksFewer ==
  ASSUME NEW fs, Arranged(fs), NEW gs, NEW j \in 0 .. Len(fs), Len(gs) = j,
         \A k \in 1 .. j : gs[k] = fs[k], NEW cells, LinksOK(fs, cells)
  PROVE  LinksOK(gs, cells)
<1>1. Len(fs) \in Nat
  BY LenProperties DEF Arranged
<1>2. ASSUME NEW k \in 1 .. j, gs[k].fp + 2 \in Block
      PROVE  /\ cells[gs[k].fp] = gs[k].ret
             /\ cells[gs[k].fp + 1] = IF k = gs[k].first THEN 0 ELSE gs[k - 1].fp
             /\ cells[gs[k].fp + 2] = gs[k].m
  <2>1. gs[k] = fs[k] /\ k \in 1 .. Len(fs)
    BY <1>1
  <2>2. fs[k].first \in 1 .. k
    BY <2>1, FrameAt DEF Placed
  <2>3. k # fs[k].first => gs[k - 1] = fs[k - 1]
    BY <2>1, <2>2
  <2>4. /\ cells[fs[k].fp] = fs[k].ret
        /\ cells[fs[k].fp + 1] = IF k = fs[k].first THEN 0 ELSE fs[k - 1].fp
        /\ cells[fs[k].fp + 2] = fs[k].m
    BY <1>2, <2>1 DEF LinksOK
  <2>5. QED
    BY <2>1, <2>3, <2>4
<1>3. QED
  BY <1>2 DEF LinksOK

-----------------------------------------------------------------------------
\* Activations that wait

\* The C locals of frame f, with its temporaries above its locals.
BelongsTo(c, f) ==
  /\ c.fp = f.fp
  /\ c.pp = ParamsStart(f)
  /\ c.lp = f.fp + 3
  /\ c.numParams = NumParams[f.m]
  /\ c.numLocals = NumLocals[f.m]
  /\ c.sp - c.u2 >= LocalsEnd(f)

\* The C locals c belong to the frame below frame number next, which a native
\* has entered; v is vm->sp.
WaitsAt(c, fs, first, next, v) ==
  /\ next \in 2 .. fs[Len(fs)].first
  /\ fs[next].first = next
  /\ fs[next - 1].first = first
  /\ fs[next].keep = c.sp
  /\ BelongsTo(c, fs[next - 1])
  /\ c.sp < MaxStack
  /\ c.sp <= v

\* b numbers the first frames of all activations.
Waits(b, fs, as, v) ==
  /\ b \in [1 .. Len(as) + 1 -> Nat]
  /\ b[1] = 1
  /\ b[Len(as) + 1] = fs[Len(fs)].first
  /\ \A i, j \in 1 .. Len(as) + 1 : i < j => b[i] < b[j]
  /\ \A j \in 1 .. Len(as) : WaitsAt(as[j], fs, b[j], b[j + 1], v)

LEMMA BlockNumbers == \A i \in Reach \cup Block : i \in Nat /\ i \in Int
BY BlockIs

LEMMA CpuFields ==
  ASSUME NEW c \in Cpu
  PROVE  /\ c.sp \in Nat /\ c.sp \in Int /\ c.fp \in Nat /\ c.pp \in Nat /\ c.lp \in Nat
         /\ c.numParams \in Nat /\ c.numLocals \in Nat /\ c.u2 \in Nat
<1>1. c.sp \in Reach /\ c.fp \in Reach /\ c.pp \in Reach
  BY DEF Cpu
<1>2. c.lp \in Nat /\ c.numParams \in Nat /\ c.numLocals \in Nat /\ c.u2 \in Nat
  BY DEF Cpu
<1>3. QED
  BY <1>1, <1>2, BlockNumbers

\* The frames up to the first of the running activation stay.
SameFirst(fs, gs) ==
  /\ fs[Len(fs)].first \in Nat
  /\ gs[Len(gs)].first = fs[Len(fs)].first
  /\ \A k \in 1 .. fs[Len(fs)].first : gs[k] = fs[k]

LEMMA WaitsOn ==
  ASSUME NEW b, NEW fs, NEW as \in Seq(Cpu), NEW v \in Int, NEW gs, NEW w \in Int,
         Waits(b, fs, as, v), w >= v, SameFirst(fs, gs)
  PROVE  Waits(b, gs, as, w)
<1>0. b[Len(as) + 1] = gs[Len(gs)].first
  BY DEF Waits, SameFirst
<1>1. ASSUME NEW j \in 1 .. Len(as)
      PROVE  WaitsAt(as[j], gs, b[j], b[j + 1], w)
  <2> DEFINE x == b[j + 1]
             c == as[j]
  <2>1. WaitsAt(c, fs, b[j], x, v)
    BY DEF Waits
  <2>a. c \in Cpu
    BY ElementOfSeq
  <2> HIDE DEF x, c
  <2>2. c.sp \in Int
    BY <2>a, CpuFields
  <2>3. x \in 2 .. fs[Len(fs)].first
    BY <2>1 DEF WaitsAt
  <2>4. gs[x] = fs[x] /\ gs[x - 1] = fs[x - 1]
    BY <2>3 DEF SameFirst
  <2>5. WaitsAt(c, gs, b[j], x, w)
    BY <2>1, <2>2, <2>3, <2>4 DEF WaitsAt, SameFirst
  <2>6. QED
    BY <2>5 DEF x, c
<1>2. QED
  BY <1>0, <1>1 DEF Waits

\* A native calls back.
LEMMA ActsMore ==
  ASSUME NEW as \in Seq(Cpu), NEW c \in Cpu
  PROVE  /\ Append(as, c) \in Seq(Cpu)
         /\ Len(as) \in Nat
         /\ Len(Append(as, c)) = Len(as) + 1
         /\ Append(as, c)[Len(as) + 1] = c
         /\ \A j \in 1 .. Len(as) : Append(as, c)[j] = as[j]
<1> DEFINE bs == Append(as, c)
           l == Len(as)
<1>1. l \in Nat
  BY LenProperties
<1>2. bs \in Seq(Cpu)
  BY AppendProperties
<1>3. Len(bs) = l + 1
  BY AppendProperties
<1>4. bs[l + 1] = c
  BY AppendProperties
<1>5. \A j \in 1 .. l : bs[j] = as[j]
  BY AppendProperties
<1>6. QED
  BY <1>1, <1>2, <1>3, <1>4, <1>5

CallsBack(fs, gs, c, v) ==
  /\ fs # <<>>
  /\ Len(gs) = Len(fs) + 1
  /\ \A k \in 1 .. Len(fs) : gs[k] = fs[k]
  /\ gs[Len(gs)].first = Len(gs)
  /\ gs[Len(gs)].keep = c.sp
  /\ BelongsTo(c, fs[Len(fs)])
  /\ c.sp < MaxStack
  /\ c.sp <= v

LEMMA WaitsMore ==
  ASSUME NEW b, NEW fs, Arranged(fs), NEW as \in Seq(Cpu), NEW v,
         Waits(b, fs, as, v), NEW gs, NEW c \in Cpu, CallsBack(fs, gs, c, v)
  PROVE  \E d : Waits(d, gs, Append(as, c), v)
<1> DEFINE n == Len(fs)
           l == Len(as)
           bs == Append(as, c)
           d == [j \in 1 .. l + 2 |-> IF j <= l + 1 THEN b[j] ELSE n + 1]
<1>a. fs \in Seq(FrameSet) /\ fs # <<>>
  BY DEF Arranged, CallsBack
<1>1. n \in Nat /\ n > 0 /\ l \in Nat
  <2>1. n \in Nat \ {0}
    BY <1>a, EmptySeq
  <2>2. l \in Nat
    BY LenProperties
  <2> HIDE DEF n, l
  <2>3. n \in Nat /\ n > 0
    BY <2>1
  <2>4. QED
    BY <2>2, <2>3
<1>2. bs \in Seq(Cpu) /\ Len(bs) = l + 1 /\ bs[l + 1] = c /\ \A j \in 1 .. l : bs[j] = as[j]
  BY ActsMore
<1>3. b \in [1 .. l + 1 -> Nat] /\ b[1] = 1 /\ b[l + 1] = fs[n].first
  BY DEF Waits
<1>4. fs[n].first \in 1 .. n
  BY <1>1, FrameAt DEF Placed
<1> HIDE DEF bs, l, n
<1>5. \A j \in 1 .. l + 1 : d[j] = b[j]
  BY <1>1
<1>6. d[l + 2] = n + 1
  BY <1>1
<1>7. d \in [1 .. l + 2 -> Nat]
  BY <1>1, <1>3
<1> HIDE DEF d
<1>8. \A j \in 1 .. l + 1 : b[j] <= fs[n].first
  <2> SUFFICES ASSUME NEW j \in 1 .. l + 1 PROVE b[j] <= fs[n].first
    OBVIOUS
  <2>1. CASE j = l + 1
    BY <1>3, <1>4, <2>1
  <2>2. CASE j # l + 1
    <3>1. j < l + 1 /\ l + 1 \in 1 .. l + 1
      BY <1>1, <2>2
    <3>2. b[j] < b[l + 1]
      BY <3>1 DEF Waits, l
    <3>3. b[j] \in Nat
      BY <1>3
    <3>4. QED
      BY <1>3, <1>4, <3>2, <3>3
  <2>3. QED
    BY <2>1, <2>2
<1>9. ASSUME NEW i \in 1 .. l + 2, NEW j \in 1 .. l + 2, i < j
      PROVE  d[i] < d[j]
  <2>1. i \in 1 .. l + 1 /\ d[i] = b[i] /\ b[i] \in Nat
    BY <1>1, <1>3, <1>5, <1>9
  <2>2. CASE j = l + 2
    BY <1>1, <1>4, <1>6, <1>8, <2>1, <2>2
  <2>3. CASE j # l + 2
    <3>1. j \in 1 .. l + 1 /\ d[j] = b[j]
      BY <1>1, <1>5, <2>3
    <3>2. b[i] < b[j]
      BY <1>9, <2>1, <3>1 DEF Waits, l
    <3>3. QED
      BY <2>1, <3>1, <3>2
  <2>4. QED
    BY <2>2, <2>3
<1>10. gs[n + 1].first = n + 1 /\ Len(gs) = n + 1 /\ gs[n + 1].keep = c.sp /\ gs[n] = fs[n]
  BY <1>1 DEF n, CallsBack
<1>11. ASSUME NEW j \in 1 .. l + 1
       PROVE  WaitsAt(bs[j], gs, d[j], d[j + 1], v)
  <2>1. CASE j = l + 1
    <3>1. bs[j] = c /\ d[j] = fs[n].first /\ d[j + 1] = n + 1
      BY <1>1, <1>2, <1>3, <1>5, <1>6, <2>1
    <3>2. n + 1 \in 2 .. gs[Len(gs)].first
      BY <1>1, <1>10
    <3>3. n + 1 - 1 = n
      BY <1>1
    <3>4. BelongsTo(c, gs[n]) /\ c.sp < MaxStack /\ c.sp <= v
      BY <1>10 DEF n, CallsBack
    <3> DEFINE x == n + 1
               y == fs[n].first
    <3>a. x - 1 = n
      BY <1>1
    <3>b. x \in 2 .. gs[Len(gs)].first /\ gs[x].first = x /\ gs[x].keep = c.sp
      BY <1>10, <3>2
    <3> HIDE DEF x
    <3>c. gs[x - 1].first = y /\ BelongsTo(c, gs[x - 1])
      BY <1>10, <3>4, <3>a
    <3> HIDE DEF y
    <3>d. WaitsAt(c, gs, y, x, v)
      BY <3>4, <3>b, <3>c DEF WaitsAt
    <3>5. WaitsAt(c, gs, fs[n].first, n + 1, v)
      BY <3>d DEF x, y
    <3>6. QED
      BY <3>1, <3>5
  <2>2. CASE j # l + 1
    <3> DEFINE x == b[j + 1]
               a == as[j]
    <3>0. j \in 1 .. l /\ j + 1 \in 1 .. l + 1
      BY <1>1, <2>2
    <3>1. j \in 1 .. l /\ bs[j] = a /\ d[j] = b[j] /\ d[j + 1] = x
      BY <1>2, <1>5, <3>0
    <3>2. WaitsAt(a, fs, b[j], x, v)
      BY <3>1 DEF Waits, l
    <3> HIDE DEF x, a
    <3>3. x \in 2 .. fs[n].first
      BY <3>2 DEF WaitsAt, n
    <3>4. gs[x] = fs[x] /\ gs[x - 1] = fs[x - 1] /\ x \in 2 .. gs[Len(gs)].first
      <4>1. x \in 1 .. n /\ x - 1 \in 1 .. n
        BY <1>1, <1>4, <3>3
      <4>2. x \in 2 .. n + 1
        BY <1>1, <1>4, <3>3
      <4>3. QED
        BY <1>10, <4>1, <4>2 DEF n, CallsBack
    <3>5. WaitsAt(a, gs, b[j], x, v)
      BY <3>2, <3>4 DEF WaitsAt
    <3>6. QED
      BY <3>1, <3>5
  <2>3. QED
    BY <2>1, <2>2
<1>12. d[1] = 1 /\ d[l + 2] = gs[Len(gs)].first
  BY <1>1, <1>3, <1>5, <1>6, <1>10
<1>13. Waits(d, gs, bs, v)
  <2>1. Len(bs) + 1 = l + 2
    BY <1>1, <1>2
  <2>2. QED
    BY <1>2, <1>7, <1>9, <1>11, <1>12, <2>1 DEF Waits
<1>14. QED
  BY <1>13 DEF bs

\* The end of what the running method's predecessors keep.
LEMMA WaitsAbove ==
  ASSUME NEW b, NEW fs, NEW as \in Seq(Cpu), NEW v, NEW w,
         Waits(b, fs, as, v), \A j \in 1 .. Len(as) : as[j].sp <= w
  PROVE  Waits(b, fs, as, w)
<1>1. ASSUME NEW j \in 1 .. Len(as)
      PROVE  WaitsAt(as[j], fs, b[j], b[j + 1], w)
  <2>1. WaitsAt(as[j], fs, b[j], b[j + 1], v)
    BY DEF Waits
  <2>2. QED
    BY <2>1 DEF WaitsAt
<1>2. QED
  BY <1>1 DEF Waits

LEMMA WaitingSp ==
  ASSUME NEW b, NEW fs, Arranged(fs), NEW as \in Seq(Cpu), NEW v, Waits(b, fs, as, v),
         NEW j \in 1 .. Len(as), fs # <<>>
  PROVE  as[j].sp <= fs[Len(fs)].keep
<1> DEFINE n == Len(fs)
           x == b[j + 1]
<1>a. fs \in Seq(FrameSet) /\ fs # <<>>
  BY DEF Arranged
<1>1. n \in Nat \ {0}
  BY <1>a, EmptySeq
<1>2. WaitsAt(as[j], fs, b[j], x, v)
  BY DEF Waits
<1> HIDE DEF n, x
<1>3. fs[n].first \in 1 .. n
  BY <1>1, FrameAt DEF Placed, n
<1>4. x \in 1 .. n /\ n \in 1 .. n /\ x <= n
  BY <1>1, <1>2, <1>3 DEF WaitsAt, n
<1>5. fs[x].keep <= fs[n].keep
  BY <1>4, Above DEF n
<1>6. fs[x].keep = as[j].sp
  BY <1>2 DEF WaitsAt
<1>7. QED
  BY <1>5, <1>6 DEF n

-----------------------------------------------------------------------------
\* The invariant

Live == mode \in { "run", "native" }

\* The C locals are those of the last frame.
Running ==
  Live => /\ BelongsTo(cpu, Top)
          /\ mode = "run" => cpu.u2 = 0
          /\ mode = "native" => cpu.sp < MaxStack /\ cpu.sp <= vmsp

Waiting ==
  /\ frames = <<>> => acts = <<>>
  /\ frames # <<>> => \E b : Waits(b, frames, acts, vmsp)

\* The debugger's frame is made at the first entry, which is main's; a stack
\* that is entered again is resume's.
Bottom ==
  /\ mode = "new" => dbg = <<>> /\ result = 0
  /\ mode = "halt" /\ dbg = <<>> => result = ERR_INVALID_METHOD_PARAMS
  /\ dbg # <<>> => dbg = <<[frameID |-> 1, methodID |-> main]>>
  /\ frames # <<>> => dbg # <<>> /\ frames[1].m = IF result = 0 THEN main ELSE resume

Modes ==
  /\ mode \in { "new", "halt" } => frames = <<>>
  /\ vmsp < MaxStack

IInv ==
  /\ TypeOK
  /\ Arranged(frames)
  /\ LinksOK(frames, mem)
  /\ Running
  /\ Waiting
  /\ Bottom
  /\ Modes

\* What a step may do to the cells of callers, and how it goes on in one.
CellsKept ==
  \A k \in 1 .. Len(frames) - 1 : k <= Len(frames') =>
    \A i \in frames[k].fp - NumParams[frames[k].m] .. frames[k + 1].keep :
      mem'[i] = mem[i]

Resumed ==
  (mode = "run" /\ mode' = "run" /\ Len(frames') < Len(frames)) =>
    /\ cpu'.cp = Top.ret
    /\ cpu'.sp \in Top.keep .. Top.keep + 2

StepRight == CellsKept /\ Resumed

LEMMA SeqFacts ==
  ASSUME NEW fs, Arranged(fs)
  PROVE  /\ fs \in Seq(FrameSet) /\ Len(fs) \in Nat
         /\ fs # <<>> <=> Len(fs) > 0
<1>1. fs \in Seq(FrameSet)
  BY DEF Arranged
<1>2. Len(fs) \in Nat
  BY <1>1, LenProperties
<1>3. fs # <<>> <=> Len(fs) # 0
  BY <1>1, EmptySeq
<1>4. QED
  BY <1>1, <1>2, <1>3

\* What holds of the method that runs.
LEMMA Here ==
  ASSUME TypeOK, Arranged(frames), Running, Live
  PROVE  /\ frames # <<>> /\ Len(frames) \in Nat /\ Len(frames) > 0
         /\ Top = frames[Len(frames)] /\ Top \in FrameSet /\ Placed(Top, Len(frames))
         /\ BelongsTo(cpu, Top)
         /\ LocalsEnd(Top) \in Nat /\ Top.fp \in Nat /\ Top.fp + 2 <= LocalsEnd(Top)
         /\ ParamsStart(Top) \in Nat /\ ParamsStart(Top) <= Top.fp
         /\ Top.keep \in Nat /\ Top.keep < ParamsStart(Top)
         /\ cpu \in Cpu /\ cpu.sp \in Nat /\ cpu.u2 \in Nat /\ cpu.sp - cpu.u2 >= LocalsEnd(Top)
         /\ cpu.lp + cpu.numLocals - 1 = LocalsEnd(Top)
         /\ cpu.fp = Top.fp /\ cpu.pp = ParamsStart(Top) /\ cpu.lp = Top.fp + 3
         /\ cpu.numParams \in Nat /\ cpu.numLocals \in Nat
         /\ cpu.pp + cpu.numParams = Top.fp
<1>1. frames # <<>> /\ cpu \in Cpu
  BY DEF TypeOK, Live
<1>2. Len(frames) \in Nat /\ Len(frames) > 0
  BY <1>1, SeqFacts
<1>3. frames[Len(frames)] \in FrameSet /\ Placed(frames[Len(frames)], Len(frames))
  BY <1>2, FrameAt
<1>4. Top \in FrameSet /\ Placed(Top, Len(frames))
  BY <1>3 DEF Top
<1>5. BelongsTo(cpu, Top)
  BY DEF Running
<1>6. /\ LocalsEnd(Top) \in Nat /\ Top.fp \in Nat /\ Top.fp + 2 <= LocalsEnd(Top)
      /\ ParamsStart(Top) \in Int /\ ParamsStart(Top) <= Top.fp /\ Top.keep \in Nat
      /\ NumParams[Top.m] \in Nat /\ NumLocals[Top.m] \in Nat
  BY <1>4, FrameFields
<1>7. Top.keep < ParamsStart(Top)
  BY <1>4 DEF Placed
<1>8. cpu.sp \in Nat /\ cpu.u2 \in Nat /\ cpu.numParams \in Nat /\ cpu.numLocals \in Nat
  BY <1>1, CpuFields
<1>9. /\ cpu.fp = Top.fp /\ cpu.pp = ParamsStart(Top) /\ cpu.lp = Top.fp + 3
      /\ cpu.numParams = NumParams[Top.m] /\ cpu.numLocals = NumLocals[Top.m]
      /\ cpu.sp - cpu.u2 >= LocalsEnd(Top)
  BY <1>5 DEF BelongsTo
<1>10. cpu.lp + cpu.numLocals - 1 = LocalsEnd(Top) /\ cpu.pp + cpu.numParams = Top.fp
  BY <1>6, <1>9 DEF LocalsEnd, ParamsStart
<1>11. ParamsStart(Top) \in Nat
  BY <1>6, <1>7
<1>12. frames # <<>> /\ Top = frames[Len(frames)]
  BY <1>1 DEF Top
<1>13. QED
  BY <1>1, <1>2, <1>4, <1>5, <1>6, <1>7, <1>8, <1>9, <1>10, <1>11, <1>12

\* What frame number x and the frames below it keep stays; the others are
\* left.
LEMMA KeptBelow ==
  ASSUME Arranged(frames), NEW x \in 1 .. Len(frames),
         \A i \in Block : i <= frames[x].keep => mem'[i] = mem[i],
         Len(frames') \in Nat, Len(frames') < x \/ x = Len(frames)
  PROVE  CellsKept
<1> SUFFICES ASSUME NEW k \in 1 .. Len(frames) - 1, k <= Len(frames'),
                    NEW i \in ParamsStart(frames[k]) .. frames[k + 1].keep
             PROVE  mem'[i] = mem[i]
  BY DEF CellsKept, ParamsStart
<1>1. Len(frames) \in Nat
  BY SeqFacts
<1>2. k \in 1 .. Len(frames) /\ k + 1 \in 1 .. Len(frames) /\ k + 1 <= x
  BY <1>1
<1> DEFINE g == frames[k]
           h == frames[k + 1]
           y == frames[x]
<1>3. g \in FrameSet /\ Placed(g, k) /\ h \in FrameSet /\ y \in FrameSet
  BY <1>2, FrameAt
<1>4. h.keep <= y.keep
  BY <1>2, Above
<1>5. i \in ParamsStart(g) .. h.keep /\ \A c \in Block : c <= y.keep => mem'[c] = mem[c]
  OBVIOUS
<1> HIDE DEF g, h, y
<1>6. /\ g.keep \in Nat /\ ParamsStart(g) \in Int /\ g.keep < ParamsStart(g)
      /\ h.keep \in Nat /\ y.keep \in Nat /\ h.keep \in Block
  <2>1. h.keep \in Block
    BY <1>3 DEF FrameSet
  <2>2. QED
    BY <1>3, <2>1, FrameFields DEF Placed
<1>7. i \in Nat /\ i <= h.keep /\ i <= y.keep
  BY <1>4, <1>5, <1>6
<1>8. i \in Block
  <2>1. h.keep < MaxStack
    BY <1>6, BlockIs
  <2>2. i < MaxStack
    BY <1>6, <1>7, <2>1, BlockAssumption DEF BlockAssumption
  <2>3. QED
    BY <1>7, <2>2, BlockIs
<1>9. QED
  BY <1>5, <1>7, <1>8

\* A step of the running method that enters and leaves no other.
Stays ==
  /\ UNCHANGED <<frames, acts, dbg, result>>
  /\ mem' \in [Block -> Int]
  /\ Spared(frames, mem, mem')
  /\ cpu' \in Cpu
  /\ BelongsTo(cpu', Top)
  /\ mode' \in { "run", "native" }
  /\ mode' = "run" => cpu'.u2 = 0
  /\ mode' = "native" => cpu'.sp < MaxStack /\ cpu'.sp <= vmsp'
  /\ vmsp' \in Block
  /\ vmsp' < MaxStack
  /\ vmsp' = vmsp \/ vmsp' >= LocalsEnd(Top)

LEMMA StaysKeeps ==
  ASSUME IInv, Live, Stays
  PROVE  IInv' /\ StepRight
<1>1. TypeOK /\ Arranged(frames) /\ LinksOK(frames, mem) /\ Running /\ Waiting /\ Bottom /\ Modes
  BY DEF IInv
<1>2. /\ frames # <<>> /\ Len(frames) > 0 /\ Len(frames) \in Nat /\ Top = frames[Len(frames)]
      /\ Top.keep \in Nat /\ Top.keep < ParamsStart(Top) /\ LocalsEnd(Top) \in Nat
      /\ ParamsStart(Top) \in Nat /\ ParamsStart(Top) <= Top.fp /\ Top.fp \in Nat
      /\ Top.fp + 2 <= LocalsEnd(Top) /\ Top \in FrameSet
  BY <1>1, Here
<1>3. TypeOK'
  <2>1. frames' # <<>> /\ frames' \in Seq([ fp : Reach, m : Methods, ret : Nat, first : Nat, keep : Block ])
    BY <1>1, <1>2 DEF TypeOK, Stays
  <2>2. acts' \in Seq(Cpu) /\ result' \in Int
    BY <1>1 DEF TypeOK, Stays
  <2>3. QED
    BY <2>1, <2>2 DEF TypeOK, Stays
<1>4. Arranged(frames)'
  BY <1>1 DEF Stays
<1>5. LinksOK(frames, mem')
  BY <1>1, LinksSpared DEF Stays
<1>6. LinksOK(frames, mem)'
  BY <1>5 DEF Stays
<1>7. Running'
  BY DEF Running, Live, Stays, Top
<1>8. \E b : Waits(b, frames, acts, vmsp')
  <2>1. PICK b : Waits(b, frames, acts, vmsp)
    BY <1>1, <1>2 DEF Waiting
  <2>2. CASE vmsp' = vmsp
    BY <2>1, <2>2
  <2>3. CASE vmsp' >= LocalsEnd(Top)
    <3>1. acts \in Seq(Cpu) /\ vmsp' \in Nat
      BY <1>1, BlockIs DEF TypeOK, Stays
    <3>2. ASSUME NEW j \in 1 .. Len(acts)
          PROVE  acts[j].sp <= vmsp'
      <4>1. acts[j].sp <= frames[Len(frames)].keep
        BY <1>1, <1>2, <2>1, <3>1, WaitingSp
      <4>2. acts[j] \in Cpu
        BY <3>1, ElementOfSeq
      <4>3. acts[j].sp \in Nat
        BY <4>2, CpuFields
      <4>4. acts[j].sp <= Top.keep
        BY <4>1, <1>2
      <4>5. QED
        BY <1>2, <2>3, <3>1, <4>3, <4>4, SMTT(60)
    <3>3. QED
      BY <2>1, <3>1, <3>2, WaitsAbove
  <2>4. QED
    BY <2>2, <2>3 DEF Stays
<1>9. Waiting'
  BY <1>2, <1>8 DEF Waiting, Stays
<1>10. Bottom' /\ Modes'
  <2>1. Bottom'
    BY <1>1, <1>2 DEF Bottom, Stays
  <2>2. Modes'
    BY <1>1 DEF Modes, Stays
  <2>3. QED
    BY <2>1, <2>2
<1>11. StepRight
  <2> DEFINE n == Len(frames)
  <2>1. n \in 1 .. n /\ Len(frames') = n /\ n \in Nat
    BY <1>2 DEF Stays
  <2>2. \A i \in Block : i <= frames[n].keep => mem'[i] = mem[i]
    BY DEF Spared, Stays
  <2>3. CellsKept
    BY <1>1, <2>1, <2>2, KeptBelow
  <2>4. Resumed
    BY <2>1 DEF Resumed
  <2>5. QED
    BY <2>3, <2>4 DEF StepRight
<1>12. QED
  BY <1>3, <1>4, <1>6, <1>7, <1>9, <1>10, <1>11 DEF IInv

-----------------------------------------------------------------------------
\* Opcodes that stay in the method

LEMMA OpsSmall ==
  \A op \in Ops : op.pop \in Nat /\ op.push \in Nat /\ op.push <= op.pop + 2
<1> DEFINE Small(op) == op.pop \in Nat /\ op.push \in Nat /\ op.push <= op.pop + 2
<1>1. \A a, b \in Nat : b <= a + 2 => Small(Eff(a, b))
  BY DEF Eff
<1>2. ASSUME NEW access \in Access, NEW words \in {1, 2}
      PROVE  Small(Storage(access, words))
  BY DEF Access, Storage, OpcodePointerOffsets
<1>a. \A op \in InitOps : Small(op)
  BY DEF InitOps
<1> HIDE DEF Small
<1>3. \A op \in StorageOps : Small(op)
  BY <1>2 DEF StorageOps
<1>4. \A op \in Literals \cup IntOps \cup LongOps \cup FloatOps \cup DoubleOps : Small(op)
  BY <1>1 DEF Literals, IntOps, LongOps, FloatOps, DoubleOps
<1>5. \A op \in ObjOps \cup ZeroTests \cup Casts \cup StackOps \cup NearJumps : Small(op)
  BY <1>1 DEF ObjOps, ZeroTests, Casts, StackOps, NearJumps
<1>6. \A op \in FarJumps \cup IntJumps \cup FarIntJumps \cup DataAddrs \cup MiscOps : Small(op)
  BY <1>1 DEF FarJumps, NearJumps, IntJumps, FarIntJumps, DataAddrs, MiscOps
<1>7. \A op \in Ops : Small(op)
  BY <1>3, <1>4, <1>5, <1>6, <1>a DEF Ops
<1>8. QED
  BY <1>7 DEF Small

LEMMA AddrsAreNat == \A a \in Addrs : a \in Nat /\ a # 0
BY ImageAssumption DEF ImageAssumption

\* The stack pointer moves; the words of a native's parameters are gone.
Moves(c, d, s, p) ==
  \/ d = [c EXCEPT !.sp = s, !.cp = p, !.u2 = 0]
  \/ c.u2 = 0 /\ d = [c EXCEPT !.sp = s, !.cp = p]

LEMMA CpuMoves ==
  ASSUME NEW c \in Cpu, NEW f, BelongsTo(c, f), NEW s \in Reach, NEW p \in Nat, NEW d,
         Moves(c, d, s, p), s >= LocalsEnd(f)
  PROVE  d \in Cpu /\ BelongsTo(d, f) /\ d.u2 = 0
<1>1. s \in Int
  BY BlockIs
<1>2. d = [ sp |-> s, cp |-> p, fp |-> c.fp, pp |-> c.pp, lp |-> c.lp,
            numParams |-> c.numParams, numLocals |-> c.numLocals, u2 |-> 0 ]
  BY DEF Moves, Cpu
<1>3. d \in Cpu
  <2>1. /\ c.fp \in Reach /\ c.pp \in Reach /\ c.lp \in Nat
        /\ c.numParams \in Nat /\ c.numLocals \in Nat
    BY DEF Cpu
  <2>2. QED
    BY <1>2, <2>1 DEF Cpu
<1>4. /\ d.fp = c.fp /\ d.pp = c.pp /\ d.lp = c.lp /\ d.sp = s /\ d.u2 = 0
      /\ d.numParams = c.numParams /\ d.numLocals = c.numLocals
  BY <1>2
<1>5. d.sp - d.u2 >= LocalsEnd(f)
  BY <1>1, <1>4
<1>6. QED
  BY <1>3, <1>4, <1>5 DEF BelongsTo

\* Cells above the locals take new values.
LEMMA PushSpares ==
  ASSUME TypeOK, Arranged(frames), Running, Live,
         NEW old \in [Block -> Int], Spared(frames, mem, old),
         NEW top \in Int, top >= LocalsEnd(Top), NEW vals \in Seq(Int),
         NEW new, new = Pushed(old, top, vals)
  PROVE  new \in [Block -> Int] /\ Spared(frames, mem, new)
<1>1. /\ Top = frames[Len(frames)] /\ Top.fp \in Nat /\ Top.fp + 2 <= LocalsEnd(Top)
      /\ LocalsEnd(Top) \in Nat /\ Top.keep \in Nat /\ Top.keep < ParamsStart(Top)
      /\ ParamsStart(Top) \in Nat /\ ParamsStart(Top) <= Top.fp
  BY Here
<1>2. new \in [Block -> Int] /\ \A i \in Block : i <= top => new[i] = old[i]
  BY PushedCells
<1>3. ASSUME NEW i \in Block, i <= Top.keep \/ (Top.fp <= i /\ i <= Top.fp + 2)
      PROVE  new[i] = mem[i]
  <2>1. i <= top
    BY <1>1, <1>3, BlockIs, SMTT(60)
  <2>2. old[i] = mem[i]
    BY <1>1, <1>3 DEF Spared
  <2>3. QED
    BY <1>2, <2>1, <2>2
<1>4. QED
  BY <1>1, <1>2, <1>3 DEF Spared

LEMMA LeavesStays ==
  ASSUME IInv, mode = "run", cpu.sp < MaxStack, NEW pop \in Nat, Operands(pop),
         NEW vals \in Seq(Int), Len(vals) <= pop + 2, Leaves(pop, vals)
  PROVE  Stays
<1>1. TypeOK /\ Arranged(frames) /\ Running /\ Live /\ Modes
  BY DEF IInv, Live
<1>2. /\ cpu \in Cpu /\ cpu.sp \in Nat /\ BelongsTo(cpu, Top) /\ LocalsEnd(Top) \in Nat
      /\ cpu.lp + cpu.numLocals - 1 = LocalsEnd(Top)
  BY <1>1, Here
<1>3. cpu.sp - pop >= LocalsEnd(Top) /\ cpu.sp - pop \in Nat
  BY <1>2 DEF Operands
<1>4. mem \in [Block -> Int] /\ Spared(frames, mem, mem)
  BY <1>1 DEF TypeOK, Spared
<1>5. mem' \in [Block -> Int] /\ Spared(frames, mem, mem')
  BY <1>1, <1>3, <1>4, PushSpares DEF Leaves
<1>6. Len(vals) \in Nat
  BY LenProperties
<1> DEFINE s == cpu.sp - pop + Len(vals)
<1>7. s \in Nat /\ s >= LocalsEnd(Top) /\ s \in Reach
  <2>1. s \in Nat /\ s >= LocalsEnd(Top) /\ s < MaxStack + Room
    BY <1>2, <1>3, <1>6, BlockAssumption, SMTT(60) DEF BlockAssumption
  <2> HIDE DEF s
  <2>2. QED
    BY <2>1, BlockIs
<1>8. PICK cp \in Addrs : cpu' = [cpu EXCEPT !.sp = s, !.cp = cp]
  BY DEF Leaves
<1> HIDE DEF s
<1>a. cp \in Nat
  BY AddrsAreNat
<1>b. cpu.u2 = 0
  BY <1>1 DEF Running
<1>9. cp \in Nat /\ cpu.u2 = 0
  BY <1>a, <1>b
<1>10. cpu' \in Cpu /\ BelongsTo(cpu', Top) /\ cpu'.u2 = 0
  <2>1. Moves(cpu, cpu', s, cp)
    BY <1>8, <1>9 DEF Moves
  <2>2. QED
    BY <1>2, <1>7, <1>9, <2>1, CpuMoves
<1>11. vmsp' \in Block /\ vmsp' = vmsp /\ vmsp' < MaxStack
  BY <1>1 DEF TypeOK, Modes, Leaves
<1>12. UNCHANGED <<frames, acts, dbg, result>> /\ mode' = "run"
  BY DEF Leaves
<1>13. QED
  BY <1>5, <1>10, <1>11, <1>12 DEF Stays

\* The process ends, and nothing else changes.
LEMMA DiesKeeps ==
  ASSUME IInv, NEW what \in Died, Dies(what)
  PROVE  IInv' /\ StepRight
<1>1. UNCHANGED <<mem, vmsp, cpu, acts, result, dbg, frames>>
  BY DEF Dies
<1>2. mode' \notin { "run", "native", "new", "halt" }
  BY DEF Dies, Died
<1>3. TypeOK'
  <2>1. TypeOK
    BY DEF IInv
  <2>2. mode' \in { "new", "run", "native", "halt" } \cup Died
    BY DEF Dies
  <2>3. /\ mem' \in [Block -> Int] /\ vmsp' \in Block /\ cpu' \in Cpu
        /\ acts' \in Seq(Cpu) /\ result' \in Int
    BY <1>1, <2>1 DEF TypeOK
  <2>4. frames' \in Seq([ fp : Reach, m : Methods, ret : Nat, first : Nat, keep : Block ])
    BY <1>1, <2>1 DEF TypeOK
  <2>5. QED
    BY <1>2, <2>2, <2>3, <2>4 DEF TypeOK
<1>4. Arranged(frames)' /\ LinksOK(frames, mem)'
  BY <1>1 DEF IInv
<1>5. Running'
  BY <1>2 DEF Running, Live
<1>6. Waiting'
  BY <1>1 DEF IInv, Waiting
<1>7. Bottom'
  BY <1>1, <1>2 DEF IInv, Bottom
<1>8. Modes'
  BY <1>1, <1>2 DEF IInv, Modes
<1>9. StepRight
  <2>1. mem' = mem /\ mode' # "run"
    BY <1>1, <1>2
  <2>2. CellsKept
    BY <2>1 DEF CellsKept
  <2>3. Resumed
    BY <2>1 DEF Resumed
  <2>4. QED
    BY <2>2, <2>3 DEF StepRight
<1>10. QED
  BY <1>3, <1>4, <1>5, <1>6, <1>7, <1>8, <1>9 DEF IInv

LEMMA OpKeeps ==
  ASSUME IInv, NEW op \in Ops, Op(op)
  PROVE  IInv' /\ StepRight
<1>1. mode = "run" /\ cpu.sp < MaxStack /\ Operands(op.pop)
  BY OpPassesCheck
<1>2. Dies("null in init") \/ \E vals \in [1 .. op.push -> Vals] : Leaves(op.pop, vals)
  BY OpPassesCheck
<1>3. op.pop \in Nat /\ op.push \in Nat /\ op.push <= op.pop + 2
  BY OpsSmall
<1>4. ASSUME NEW vals \in [1 .. op.push -> Vals], Leaves(op.pop, vals)
      PROVE  IInv' /\ StepRight
  <2>1. vals \in Seq(Int) /\ Len(vals) <= op.pop + 2
    BY <1>3, ValsAreInts
  <2>2. Stays
    BY <1>1, <1>3, <1>4, <2>1, LeavesStays
  <2>3. QED
    BY <1>1, <2>2, StaysKeeps DEF Live
<1>5. QED
  BY <1>2, <1>4, DiesKeeps DEF Died

LEMMA InitArrayKeeps ==
  ASSUME IInv, InitArray
  PROVE  IInv' /\ StepRight
<1> DEFINE none == <<>>
<1>1. mode = "run" /\ cpu.sp < MaxStack /\ Operands(3)
  BY DEF InitArray, Fetch
<1>2. Dies("null in init") \/ Leaves(3, none)
  BY DEF InitArray
<1>3. none \in Seq(Int) /\ Len(none) <= 3 + 2
  OBVIOUS
<1> HIDE DEF none
<1>4. CASE Leaves(3, none)
  <2>1. Stays
    BY <1>1, <1>3, <1>4, LeavesStays
  <2>2. QED
    BY <1>1, <2>1, StaysKeeps DEF Live
<1>5. QED
  BY <1>2, <1>4, DiesKeeps DEF Died

\* The words of a parameter or a local.
LEMMA Variables ==
  ASSUME TypeOK, Arranged(frames), Running, Live, cpu.sp < MaxStack
  PROVE  /\ \A i \in cpu.pp .. cpu.pp + cpu.numParams - 1 :
              i \in Block /\ Top.keep < i /\ i < Top.fp
         /\ \A i \in cpu.lp .. cpu.lp + cpu.numLocals - 1 :
              i \in Block /\ Top.keep < i /\ i > Top.fp + 2
<1>1. /\ LocalsEnd(Top) \in Nat /\ Top.fp \in Nat /\ Top.fp + 2 <= LocalsEnd(Top)
      /\ ParamsStart(Top) \in Nat /\ ParamsStart(Top) <= Top.fp
      /\ Top.keep \in Nat /\ Top.keep < ParamsStart(Top) /\ Placed(Top, Len(frames))
      /\ cpu.lp + cpu.numLocals - 1 = LocalsEnd(Top)
      /\ cpu.pp = ParamsStart(Top) /\ cpu.lp = Top.fp + 3
      /\ cpu.numParams \in Nat /\ cpu.numLocals \in Nat /\ cpu.pp + cpu.numParams = Top.fp
  BY Here
<1>3. MaxStack \in Nat
  BY BlockAssumption DEF BlockAssumption
<1>2. LocalsEnd(Top) < MaxStack
  <2>1. cpu.sp \in Nat /\ cpu.u2 \in Nat /\ cpu.sp - cpu.u2 >= LocalsEnd(Top)
    BY Here
  <2>2. QED
    BY <1>1, <1>3, <2>1
<1>4. ASSUME NEW i \in cpu.pp .. cpu.pp + cpu.numParams - 1
      PROVE  i \in Block /\ Top.keep < i /\ i < Top.fp
  <2>a. i \in Int /\ ParamsStart(Top) <= i /\ i < Top.fp
    BY <1>1, SMTT(60)
  <2>1. i \in Nat /\ i < MaxStack /\ Top.keep < i /\ i < Top.fp
    BY <1>1, <1>2, <1>3, <2>a, SMTT(60)
  <2>2. QED
    BY <2>1, BlockIs
<1>5. ASSUME NEW i \in cpu.lp .. cpu.lp + cpu.numLocals - 1
      PROVE  i \in Block /\ Top.keep < i /\ i > Top.fp + 2
  <2>1. i \in Nat /\ i < MaxStack /\ Top.keep < i /\ i > Top.fp + 2
    BY <1>1, <1>2, <1>3, SMTT(60)
  <2>2. QED
    BY <2>1, BlockIs
<1>6. QED
  BY <1>4, <1>5

LEMMA LoadKeeps ==
  ASSUME IInv, NEW base \in Int, NEW size \in Nat,
         \A i \in base .. base + size - 1 : i \in Block, Load(base, size)
  PROVE  IInv' /\ StepRight
<1>1. mode = "run" /\ cpu.sp < MaxStack
  BY DEF Load, Fetch
<1>a. PICK w \in {1, 2} : \E i \in 0 .. size - w :
        Leaves(0, [k \in 1 .. w |-> mem[base + i + k - 1]])
  BY DEF Load
<1>2. PICK i \in 0 .. size - w : Leaves(0, [k \in 1 .. w |-> mem[base + i + k - 1]])
  BY <1>a
<1> DEFINE vals == [k \in 1 .. w |-> mem[base + i + k - 1]]
<1>3. TypeOK /\ Arranged(frames) /\ Running /\ Live
  BY <1>1 DEF IInv, Live
<1>4. \A k \in 1 .. w : base + i + k - 1 \in Block
  OBVIOUS
<1>5. vals \in [1 .. w -> Int]
  BY <1>3, <1>4 DEF TypeOK
<1>6. Leaves(0, vals)
  BY <1>2
<1> HIDE DEF vals
<1>7. vals \in Seq(Int) /\ Len(vals) = w
  BY <1>5, Tuples
<1>8. Operands(0)
  <2>1. cpu.sp \in Nat /\ cpu.u2 \in Nat /\ cpu.sp - cpu.u2 >= LocalsEnd(Top)
        /\ LocalsEnd(Top) \in Nat /\ cpu.lp + cpu.numLocals - 1 = LocalsEnd(Top)
    BY <1>3, Here
  <2>2. QED
    BY <2>1 DEF Operands
<1>9. Len(vals) <= 0 + 2
  BY <1>7
<1>10. Stays
  BY <1>1, <1>6, <1>7, <1>8, <1>9, LeavesStays
<1>11. QED
  BY <1>3, <1>10, StaysKeeps

LEMMA StoreKeeps ==
  ASSUME IInv, NEW base \in Int, NEW size \in Nat,
         \A i \in base .. base + size - 1 :
           i \in Block /\ Top.keep < i /\ (i < Top.fp \/ i > Top.fp + 2),
         Store(base, size)
  PROVE  IInv' /\ StepRight
<1>1. mode = "run" /\ cpu.sp < MaxStack /\ UNCHANGED <<vmsp, acts, mode, result, dbg, frames>>
  BY DEF Store, Fetch
<1>a. PICK w \in {1, 2} : \E i \in 0 .. size - w :
       /\ Operands(w)
       /\ mem' = Pushed([c \in Block |->
                           IF c - base - i \in 0 .. w - 1
                           THEN mem[c - base - i + cpu.sp - w + 1] ELSE mem[c]],
                        cpu.sp - w, <<>>)
       /\ \E cp \in Addrs : cpu' = [cpu EXCEPT !.sp = cpu.sp - w, !.cp = cp]
  BY DEF Store
<1>2. PICK i \in 0 .. size - w :
       /\ Operands(w)
       /\ mem' = Pushed([c \in Block |->
                           IF c - base - i \in 0 .. w - 1
                           THEN mem[c - base - i + cpu.sp - w + 1] ELSE mem[c]],
                        cpu.sp - w, <<>>)
       /\ \E cp \in Addrs : cpu' = [cpu EXCEPT !.sp = cpu.sp - w, !.cp = cp]
  BY <1>a
<1> DEFINE s == cpu.sp - w
           old == [c \in Block |-> IF c - base - i \in 0 .. w - 1
                                   THEN mem[c - base - i + s + 1] ELSE mem[c]]
           none == <<>>
<1>3. TypeOK /\ Arranged(frames) /\ Running /\ Live /\ Modes
  BY <1>1 DEF IInv, Live
<1>4. /\ cpu \in Cpu /\ cpu.sp \in Nat /\ BelongsTo(cpu, Top) /\ LocalsEnd(Top) \in Nat
      /\ cpu.lp + cpu.numLocals - 1 = LocalsEnd(Top)
      /\ Top = frames[Len(frames)] /\ Top.keep \in Nat /\ Top.fp \in Nat
  BY <1>3, Here
<1>5. s \in Nat /\ s >= LocalsEnd(Top) /\ s \in Reach /\ s + w = cpu.sp /\ s \in Int
  <2>1. s \in Nat /\ s >= LocalsEnd(Top) /\ s < MaxStack + Room /\ s + w = cpu.sp
    BY <1>1, <1>2, <1>4, BlockAssumption, SMTT(60) DEF BlockAssumption, Operands
  <2> HIDE DEF s
  <2>2. QED
    BY <2>1, BlockIs
<1>6. mem' = Pushed(old, s, none) /\ \E cp \in Addrs : cpu' = [cpu EXCEPT !.sp = s, !.cp = cp]
  BY <1>2
<1>7. none \in Seq(Int)
  OBVIOUS
<1> HIDE DEF s, none
<1>e. mem \in [Block -> Int]
  BY <1>3 DEF TypeOK
<1>8. mem \in [Block -> Int] /\ cpu.sp < MaxStack
  BY <1>1, <1>e
<1>9. old \in [Block -> Int]
  <2> SUFFICES ASSUME NEW c \in Block, c - base - i \in 0 .. w - 1
               PROVE  c - base - i + s + 1 \in Block
    BY <1>8
  <2>1. c - base - i + s + 1 \in Nat /\ c - base - i + s + 1 < MaxStack
    BY <1>5, <1>8, BlockAssumption DEF BlockAssumption
  <2>2. QED
    BY <2>1, BlockIs
<1>10. Spared(frames, mem, old)
  <2> SUFFICES ASSUME NEW c \in Block, c <= Top.keep \/ (Top.fp <= c /\ c <= Top.fp + 2)
               PROVE  old[c] = mem[c]
    BY <1>4 DEF Spared
  <2>1. c \in Nat
    BY BlockIs
  <2>2. ~(c - base - i \in 0 .. w - 1)
    <3>1. ASSUME c - base - i \in 0 .. w - 1
          PROVE  c \in base .. base + size - 1
      <4>1. i \in Int /\ 0 <= i /\ i <= size - w /\ w \in Int
        OBVIOUS
      <4>2. 0 <= c - base - i /\ c - base - i <= w - 1
        BY <2>1, <3>1
      <4>3. base <= c /\ c <= base + size - 1
        BY <2>1, <4>1, <4>2
      <4>4. QED
        BY <2>1, <4>3
    <3>2. ~(c \in base .. base + size - 1)
      <4>1. Top.keep \in Nat /\ Top.fp \in Nat
        BY <1>4
      <4>2. ASSUME c \in base .. base + size - 1
            PROVE  FALSE
        <5>1. Top.keep < c /\ (c < Top.fp \/ c > Top.fp + 2)
          BY <4>2
        <5>2. QED
          BY <2>1, <4>1, <5>1
      <4>3. QED
        BY <4>2
    <3>3. QED
      BY <3>1, <3>2
  <2>3. QED
    BY <2>2
<1> HIDE DEF old
<1>11. mem' \in [Block -> Int] /\ Spared(frames, mem, mem')
  BY <1>3, <1>5, <1>6, <1>7, <1>9, <1>10, PushSpares
<1>12. PICK cp \in Addrs : cpu' = [cpu EXCEPT !.sp = s, !.cp = cp]
  BY <1>6
<1>c. cp \in Nat
  BY AddrsAreNat
<1>d. cpu.u2 = 0
  BY <1>1, <1>3 DEF Running
<1>13. cp \in Nat /\ cpu.u2 = 0
  BY <1>c, <1>d
<1>14. cpu' \in Cpu /\ BelongsTo(cpu', Top) /\ cpu'.u2 = 0
  <2>1. Moves(cpu, cpu', s, cp)
    BY <1>12, <1>13 DEF Moves
  <2>2. QED
    BY <1>4, <1>5, <1>13, <2>1, CpuMoves
<1>15. vmsp' \in Block /\ vmsp' = vmsp /\ vmsp' < MaxStack
  BY <1>1, <1>3 DEF TypeOK, Modes
<1>16. Stays
  BY <1>1, <1>11, <1>14, <1>15 DEF Stays
<1>17. QED
  BY <1>3, <1>16, StaysKeeps

LEMMA MoveKeeps ==
  ASSUME IInv, Move
  PROVE  IInv' /\ StepRight
<1>1. mode = "run" /\ cpu.sp < MaxStack
  BY DEF Move, LoadParam, LoadLocal, StoreParam, StoreLocal, Load, Store, Fetch
<1>2. TypeOK /\ Arranged(frames) /\ Running /\ Live
  BY <1>1 DEF IInv, Live
<1>3. /\ cpu.pp \in Nat /\ cpu.lp \in Nat /\ cpu.numParams \in Nat /\ cpu.numLocals \in Nat
      /\ Top.fp \in Nat /\ Top.keep \in Nat
  BY <1>2, Here, CpuFields
<1>4. \A i \in cpu.pp .. cpu.pp + cpu.numParams - 1 : i \in Block /\ Top.keep < i /\ i < Top.fp
  BY <1>1, <1>2, Variables
<1>5. \A i \in cpu.lp .. cpu.lp + cpu.numLocals - 1 : i \in Block /\ Top.keep < i /\ i > Top.fp + 2
  BY <1>1, <1>2, Variables
<1>6. CASE LoadParam
  BY <1>3, <1>4, <1>6, LoadKeeps DEF LoadParam
<1>7. CASE LoadLocal
  BY <1>3, <1>5, <1>7, LoadKeeps DEF LoadLocal
<1>8. CASE StoreParam
  BY <1>3, <1>4, <1>8, StoreKeeps DEF StoreParam
<1>9. CASE StoreLocal
  BY <1>3, <1>5, <1>9, StoreKeeps DEF StoreLocal
<1>10. QED
  BY <1>6, <1>7, <1>8, <1>9 DEF Move

LEMMA CallNativeKeeps ==
  ASSUME IInv, NEW n \in NativeParams, CallNative(n)
  PROVE  IInv' /\ StepRight
<1>1. mode = "run" /\ cpu.sp < MaxStack /\ Operands(n)
  BY DEF CallNative, Fetch
<1>2. TypeOK /\ Arranged(frames) /\ Running /\ Live /\ n \in Nat
  BY <1>1, ImageAssumption DEF IInv, Live, ImageAssumption
<1>3. /\ cpu \in Cpu /\ cpu.sp \in Nat /\ cpu.u2 \in Nat /\ BelongsTo(cpu, Top)
      /\ LocalsEnd(Top) \in Nat /\ cpu.lp + cpu.numLocals - 1 = LocalsEnd(Top)
      /\ cpu.sp - cpu.u2 >= LocalsEnd(Top)
  BY <1>2, Here
<1>4. cpu.sp \in Reach /\ cpu.sp - n >= LocalsEnd(Top) /\ cpu.sp >= LocalsEnd(Top)
  BY <1>1, <1>2, <1>3 DEF Operands, Cpu
<1>5. cpu' = [cpu EXCEPT !.u2 = n]
  BY DEF CallNative
<1>6. cpu' \in Cpu /\ cpu'.sp = cpu.sp /\ cpu'.u2 = n
  BY <1>2, <1>3, <1>5 DEF Cpu
<1>7. /\ cpu'.fp = cpu.fp /\ cpu'.pp = cpu.pp /\ cpu'.lp = cpu.lp
      /\ cpu'.numParams = cpu.numParams /\ cpu'.numLocals = cpu.numLocals
  BY <1>3, <1>5 DEF Cpu
<1>8. BelongsTo(cpu', Top)
  BY <1>3, <1>4, <1>6, <1>7 DEF BelongsTo
<1>9. UNCHANGED <<frames, acts, dbg, result, mem>> /\ vmsp' = cpu.sp /\ mode' = "native"
  BY DEF CallNative, SavedSp
<1>10. mem' \in [Block -> Int] /\ Spared(frames, mem, mem')
  BY <1>2, <1>9 DEF TypeOK, Spared
<1>11. vmsp' \in Block /\ vmsp' < MaxStack /\ vmsp' >= LocalsEnd(Top)
  BY <1>1, <1>3, <1>4, <1>9, BlockIs
<1>12. cpu'.sp < MaxStack /\ cpu'.sp <= vmsp'
  BY <1>1, <1>3, <1>6, <1>9
<1>13. Stays
  BY <1>6, <1>8, <1>9, <1>10, <1>11, <1>12 DEF Stays
<1>14. QED
  BY <1>2, <1>13, StaysKeeps

LEMMA NativeReturnsKeeps ==
  ASSUME IInv, NativeReturns
  PROVE  IInv' /\ StepRight
<1>1. mode = "native"
  BY DEF NativeReturns
<1>2. TypeOK /\ Arranged(frames) /\ Running /\ Live /\ Modes
  BY <1>1 DEF IInv, Live
<1>3. cpu.sp < MaxStack
  BY <1>1, <1>2 DEF Running
<1>4. /\ cpu \in Cpu /\ cpu.sp \in Nat /\ cpu.u2 \in Nat /\ BelongsTo(cpu, Top)
      /\ LocalsEnd(Top) \in Nat /\ cpu.sp - cpu.u2 >= LocalsEnd(Top)
  BY <1>2, Here
<1>5. PICK r \in 0 .. 2 : \E vals \in [1 .. r -> Vals] :
       /\ mem' = Pushed(mem, cpu.sp - cpu.u2, vals)
       /\ \E cp \in Addrs :
            cpu' = [cpu EXCEPT !.sp = cpu.sp - cpu.u2 + r, !.cp = cp, !.u2 = 0]
  BY DEF NativeReturns
<1>6. PICK vals \in [1 .. r -> Vals] :
       /\ mem' = Pushed(mem, cpu.sp - cpu.u2, vals)
       /\ \E cp \in Addrs :
            cpu' = [cpu EXCEPT !.sp = cpu.sp - cpu.u2 + r, !.cp = cp, !.u2 = 0]
  BY <1>5
<1> DEFINE t == cpu.sp - cpu.u2
           s == t + r
<1>7. t \in Int /\ t >= LocalsEnd(Top) /\ s >= LocalsEnd(Top) /\ s \in Reach
  <2>1. s \in Nat /\ s >= LocalsEnd(Top) /\ s < MaxStack + Room /\ t \in Int /\ t >= LocalsEnd(Top)
    BY <1>3, <1>4, BlockAssumption, SMTT(60) DEF BlockAssumption
  <2> HIDE DEF s, t
  <2>2. QED
    BY <2>1, BlockIs
<1>8. mem' = Pushed(mem, t, vals) /\ \E cp \in Addrs : cpu' = [cpu EXCEPT !.sp = s, !.cp = cp, !.u2 = 0]
  BY <1>6
<1> HIDE DEF s, t
<1>9. vals \in Seq(Int)
  BY ValsAreInts
<1>10. mem \in [Block -> Int] /\ Spared(frames, mem, mem)
  BY <1>2 DEF TypeOK, Spared
<1>11. mem' \in [Block -> Int] /\ Spared(frames, mem, mem')
  BY <1>2, <1>7, <1>8, <1>9, <1>10, PushSpares
<1>12. PICK cp \in Addrs : cpu' = [cpu EXCEPT !.sp = s, !.cp = cp, !.u2 = 0]
  BY <1>8
<1>13. cp \in Nat
  BY AddrsAreNat
<1>14. cpu' \in Cpu /\ BelongsTo(cpu', Top) /\ cpu'.u2 = 0
  <2>1. Moves(cpu, cpu', s, cp)
    BY <1>12 DEF Moves
  <2>2. QED
    BY <1>4, <1>7, <1>13, <2>1, CpuMoves
<1>15. UNCHANGED <<vmsp, acts, result, dbg, frames>> /\ mode' = "run"
  BY DEF NativeReturns
<1>16. vmsp' \in Block /\ vmsp' = vmsp /\ vmsp' < MaxStack
  BY <1>2, <1>15 DEF TypeOK, Modes
<1>17. Stays
  BY <1>11, <1>14, <1>15, <1>16 DEF Stays
<1>18. QED
  BY <1>2, <1>17, StaysKeeps

-----------------------------------------------------------------------------
\* Entering a method

\* Frame f may follow the frames fs.
Enters(f, fs) ==
  /\ f \in FrameSet
  /\ Placed(f, Len(fs) + 1)
  /\ fs # <<>> => LocalsEnd(fs[Len(fs)]) <= f.keep
  /\ f.first # Len(fs) + 1 => fs # <<>> /\ f.first = fs[Len(fs)].first

\* One more frame, gs, above the frames fs.
Follows(gs, fs, f) ==
  /\ Len(gs) = Len(fs) + 1
  /\ gs[Len(fs) + 1] = f
  /\ \A k \in 1 .. Len(fs) : gs[k] = fs[k]

LEMMA OneFollows ==
  ASSUME NEW fs, Arranged(fs), NEW f, Enters(f, fs)
  PROVE  Arranged(Append(fs, f)) /\ Follows(Append(fs, f), fs, f)
<1>1. /\ f \in FrameSet /\ Placed(f, Len(fs) + 1)
      /\ fs # <<>> => LocalsEnd(fs[Len(fs)]) <= f.keep
      /\ f.first # Len(fs) + 1 => fs # <<>> /\ f.first = fs[Len(fs)].first
  BY DEF Enters
<1>2. QED
  BY <1>1, OneMore DEF Follows

\* The links of f, which lie above top, are written in cells new.
HasLinks(f, fs, new) ==
  f.fp + 2 \in Block =>
    /\ new[f.fp] = f.ret
    /\ new[f.fp + 1] = IF f.first = Len(fs) + 1 THEN 0 ELSE fs[Len(fs)].fp
    /\ new[f.fp + 2] = f.m

LEMMA LinksFollow ==
  ASSUME NEW fs, Arranged(fs), NEW f, Enters(f, fs), NEW gs, Follows(gs, fs, f),
         NEW new, LinksOK(fs, new), HasLinks(f, fs, new)
  PROVE  LinksOK(gs, new)
<1>1. /\ f \in FrameSet /\ f.first \in 1 .. Len(fs) + 1
  BY DEF Enters, Placed
<1>2. /\ Len(gs) = Len(fs) + 1 /\ gs[Len(fs) + 1] = f
      /\ \A k \in 1 .. Len(fs) : gs[k] = fs[k]
  BY DEF Follows
<1>3. f.fp + 2 \in Block =>
        /\ new[f.fp] = f.ret /\ new[f.fp + 2] = f.m
        /\ new[f.fp + 1] = IF f.first = Len(fs) + 1 THEN 0 ELSE fs[Len(fs)].fp
  BY DEF HasLinks
<1>4. QED
  BY <1>1, <1>2, <1>3, LinksOneMore

\* What Frame and Registers compute.
Fits(m, top, keep) ==
  /\ keep < top + 1 - NumParams[m]
  /\ top + 3 + NumLocals[m] < MaxStack + Room

LEMMA MethodWords ==
  ASSUME NEW m \in Methods
  PROVE  /\ NumParams[m] \in Nat /\ NumLocals[m] \in Nat /\ m \in Nat
         /\ NumParams[m] + 3 + NumLocals[m] <= Room
BY ImageAssumption, BlockAssumption DEF ImageAssumption, BlockAssumption

LEMMA FrameRight ==
  ASSUME NEW m \in Methods, NEW top \in Nat, NEW ret \in Nat, NEW first \in Nat,
         NEW keep \in Block, Fits(m, top, keep)
  PROVE  LET f == Frame(m, top, ret, first, keep)
         IN  /\ f \in FrameSet
             /\ f.fp = top + 1 /\ f.m = m /\ f.ret = ret /\ f.first = first /\ f.keep = keep
             /\ LocalsEnd(f) = top + 3 + NumLocals[m] /\ LocalsEnd(f) < MaxStack + Room
             /\ ParamsStart(f) = top + 1 - NumParams[m] /\ keep < ParamsStart(f)
<1>1. NumParams[m] \in Nat /\ NumLocals[m] \in Nat /\ keep \in Nat
  BY MethodWords, BlockIs
<1>2. top + 1 \in Reach
  <2>1. top + 1 \in Nat /\ top + 1 < MaxStack + Room
    BY <1>1, BlockAssumption DEF Fits, BlockAssumption
  <2>2. QED
    BY <2>1, BlockIs
<1>3. Frame(m, top, ret, first, keep) \in FrameSet
  BY <1>2 DEF Frame, FrameSet
<1>4. QED
  BY <1>1, <1>3 DEF Frame, LocalsEnd, ParamsStart, Fits

LEMMA RegistersRight ==
  ASSUME NEW m \in Methods, NEW top \in Nat, NEW ret \in Nat, NEW first \in Nat,
         NEW keep \in Block, Fits(m, top, keep), NEW cp \in Nat
  PROVE  /\ Registers(m, top, cp) \in Cpu
         /\ BelongsTo(Registers(m, top, cp), Frame(m, top, ret, first, keep))
         /\ Registers(m, top, cp).u2 = 0
<1>1. NumParams[m] \in Nat /\ NumLocals[m] \in Nat /\ keep \in Nat
  BY MethodWords, BlockIs
<1>2. top + 1 \in Reach /\ top + 3 + NumLocals[m] \in Reach /\ top + 1 - NumParams[m] \in Reach
  <2>1. /\ top + 1 \in Nat /\ top + 1 < MaxStack + Room
        /\ top + 3 + NumLocals[m] \in Nat /\ top + 3 + NumLocals[m] < MaxStack + Room
        /\ top + 1 - NumParams[m] \in Nat /\ top + 1 - NumParams[m] < MaxStack + Room
    BY <1>1, BlockAssumption DEF Fits, BlockAssumption
  <2>2. QED
    BY <2>1, BlockIs
<1>3. Registers(m, top, cp) \in Cpu
  BY <1>1, <1>2 DEF Registers, Cpu
<1>4. BelongsTo(Registers(m, top, cp), Frame(m, top, ret, first, keep))
  BY <1>1 DEF Registers, Frame, BelongsTo, LocalsEnd, ParamsStart
<1>5. Registers(m, top, cp).u2 = 0
  BY DEF Registers
<1>6. QED
  BY <1>3, <1>4, <1>5

\* Linked writes the links of the frame and spares what lies below.
LEMMA FrameLinks ==
  ASSUME NEW m \in Methods, NEW top \in Nat, NEW ret \in Nat, NEW first \in Nat,
         NEW keep \in Block, Fits(m, top, keep), NEW cells \in [Block -> Int],
         NEW prev \in Int, Linked(cells, top, ret, prev, m), NEW fs,
         prev = IF first = Len(fs) + 1 THEN 0 ELSE fs[Len(fs)].fp
  PROVE  /\ mem' \in [Block -> Int]
         /\ \A i \in Block : i <= top => mem'[i] = cells[i]
         /\ HasLinks(Frame(m, top, ret, first, keep), fs, mem')
<1> DEFINE f == Frame(m, top, ret, first, keep)
<1>1. f.fp = top + 1 /\ f.m = m /\ f.ret = ret /\ f.first = first
  BY DEF Frame
<1>3. ret \in Int
  OBVIOUS
<1>4. /\ mem' \in [Block -> Int]
      /\ \A i \in Block : i <= top => mem'[i] = cells[i]
      /\ top + 3 \in Block => /\ mem'[top + 1] = ret
                              /\ mem'[top + 2] = prev
                              /\ mem'[top + 3] = m
  BY <1>3, LinkedCells, SMTT(60)
<1>5. f.fp + 1 = top + 2 /\ f.fp + 2 = top + 3
  BY <1>1
<1> HIDE DEF f
<1>6. f.fp + 2 \in Block =>
        mem'[f.fp] = f.ret /\ mem'[f.fp + 2] = f.m /\ mem'[f.fp + 1] = prev
  BY <1>1, <1>4, <1>5
<1>7. HasLinks(f, fs, mem')
  BY <1>1, <1>6 DEF HasLinks
<1>8. QED
  BY <1>4, <1>7 DEF f

\* A step that enters a method, with frame f.
Entering(f) ==
  /\ Enters(f, frames)
  /\ frames' = Append(frames, f)
  /\ mem' \in [Block -> Int]
  /\ frames # <<>> => Spared(frames, mem, mem')
  /\ HasLinks(f, frames, mem')
  /\ cpu' \in Cpu
  /\ BelongsTo(cpu', f)
  /\ cpu'.u2 = 0
  /\ mode' = "run"

LEMMA EnteringFollows ==
  ASSUME Arranged(frames), NEW f, Entering(f)
  PROVE  Arranged(frames') /\ Follows(frames', frames, f) /\ frames' # <<>>
         /\ frames'[Len(frames')] = f
<1>1. Arranged(Append(frames, f)) /\ Follows(Append(frames, f), frames, f)
  BY OneFollows DEF Entering
<1>2. Arranged(frames') /\ Follows(frames', frames, f)
  BY <1>1 DEF Entering
<1>3. Len(frames') = Len(frames) + 1 /\ frames'[Len(frames) + 1] = f
  BY <1>2 DEF Follows
<1>4. Len(frames') > 0
  <2>1. Len(frames) \in Nat
    BY SeqFacts
  <2>2. QED
    BY <1>3, <2>1
<1>5. frames' # <<>>
  BY <1>2, <1>4, SeqFacts
<1>6. QED
  BY <1>2, <1>3, <1>5

LEMMA EnteringKeeps ==
  ASSUME IInv, NEW f, Entering(f), acts' \in Seq(Cpu), vmsp' \in Block, vmsp' < MaxStack,
         result' \in Int, Waiting', Bottom'
  PROVE  IInv' /\ StepRight
<1>1. TypeOK /\ Arranged(frames) /\ LinksOK(frames, mem)
  BY DEF IInv
<1>2. Arranged(frames') /\ Follows(frames', frames, f) /\ frames' # <<>> /\ frames'[Len(frames')] = f
  BY <1>1, EnteringFollows
<1>3. LinksOK(frames, mem')
  <2>1. CASE frames = <<>>
    <3>1. Len(frames) = 0
      BY <2>1
    <3>2. QED
      BY <3>1 DEF LinksOK
  <2>2. CASE frames # <<>>
    <3>1. Spared(frames, mem, mem')
      BY <2>2 DEF Entering
    <3>2. QED
      BY <1>1, <3>1, LinksSpared
  <2>3. QED
    BY <2>1, <2>2
<1>4. LinksOK(frames', mem')
  BY <1>1, <1>2, <1>3, LinksFollow DEF Entering
<1>5. TypeOK'
  <2>1. frames' \in Seq([ fp : Reach, m : Methods, ret : Nat, first : Nat, keep : Block ])
    BY <1>2 DEF Arranged, FrameSet
  <2>2. mem' \in [Block -> Int] /\ cpu' \in Cpu /\ mode' = "run"
    BY DEF Entering
  <2>3. QED
    BY <1>2, <2>1, <2>2 DEF TypeOK
<1>6. Running'
  <2>1. Top' = f
    BY <1>2 DEF Top
  <2>2. BelongsTo(cpu', f) /\ mode' = "run" /\ cpu'.u2 = 0
    BY DEF Entering
  <2>3. QED
    BY <2>1, <2>2 DEF Running
<1>7. Modes'
  BY DEF Modes, Entering
<1>8. Arranged(frames)' /\ LinksOK(frames, mem)'
  BY <1>2, <1>4
<1>9. StepRight
  <2> DEFINE n == Len(frames)
  <2>1. n \in Nat /\ Len(frames') = n + 1 /\ Len(frames') \in Nat
    BY <1>1, <1>2, SeqFacts DEF Follows
  <2>2. CASE frames = <<>>
    <3>1. n = 0
      BY <2>2
    <3>2. QED
      BY <2>1, <3>1 DEF StepRight, CellsKept, Resumed
  <2>3. CASE frames # <<>>
    <3>1. n \in 1 .. n
      <4>1. n > 0
        BY <1>1, <2>3, SeqFacts
      <4>2. QED
        BY <2>1, <4>1
    <3>2. \A i \in Block : i <= frames[n].keep => mem'[i] = mem[i]
      BY <2>3 DEF Spared, Entering
    <3>3. CellsKept
      BY <1>1, <2>1, <3>1, <3>2, KeptBelow
    <3>4. Resumed
      BY <2>1 DEF Resumed
    <3>5. QED
      BY <3>3, <3>4 DEF StepRight
  <2>4. QED
    BY <2>2, <2>3
<1>10. QED
  BY <1>5, <1>6, <1>7, <1>8, <1>9 DEF IInv

\* The links above top, and the registers of the method.
LEMMA LinkedEnters ==
  ASSUME Arranged(frames),
         NEW m \in Methods, NEW top \in Nat, NEW ret \in Nat, NEW first \in Nat,
         NEW keep \in Block, Fits(m, top, keep), NEW cells \in [Block -> Int],
         frames # <<>> => \A i \in Block : i <= keep => cells[i] = mem[i],
         Enters(Frame(m, top, ret, first, keep), frames),
         NEW prev \in Int, Linked(cells, top, ret, prev, m),
         prev = IF first = Len(frames) + 1 THEN 0 ELSE frames[Len(frames)].fp,
         NEW cp \in Addrs, cpu' = Registers(m, top, cp),
         frames' = Append(frames, Frame(m, top, ret, first, keep)), mode' = "run"
  PROVE  Entering(Frame(m, top, ret, first, keep))
<1> DEFINE f == Frame(m, top, ret, first, keep)
<1>1. cp \in Nat
  BY AddrsAreNat
<1>2. /\ Registers(m, top, cp) \in Cpu
      /\ BelongsTo(Registers(m, top, cp), f)
      /\ Registers(m, top, cp).u2 = 0
  BY <1>1, RegistersRight
<1>3. /\ mem' \in [Block -> Int]
      /\ \A i \in Block : i <= top => mem'[i] = cells[i]
      /\ HasLinks(f, frames, mem')
  BY FrameLinks
<1>4. f.keep = keep
  BY DEF Frame
<1> HIDE DEF f
<1>5. ASSUME frames # <<>>
      PROVE  Spared(frames, mem, mem')
  <2> DEFINE g == frames[Len(frames)]
  <2>1. Len(frames) > 0 /\ Len(frames) \in Nat
    BY <1>5, SeqFacts
  <2>2. g \in FrameSet /\ Placed(g, Len(frames))
    BY <2>1, FrameAt
  <2>3. LocalsEnd(g) <= keep
    BY <1>4, <1>5 DEF Enters, f
  <2> HIDE DEF g
  <2>4. /\ LocalsEnd(g) \in Nat /\ g.fp \in Nat /\ g.keep \in Nat /\ g.fp + 2 <= LocalsEnd(g)
        /\ ParamsStart(g) \in Int /\ ParamsStart(g) <= g.fp /\ g.keep < ParamsStart(g)
    BY <2>2, FrameFields DEF Placed
  <2>5. keep \in Nat /\ keep <= top
    <3>1. NumParams[m] \in Nat /\ keep \in Nat
      BY MethodWords, BlockIs
    <3>2. QED
      BY <3>1 DEF Fits
  <2>6. ASSUME NEW i \in Block, i <= g.keep \/ (g.fp <= i /\ i <= g.fp + 2)
        PROVE  mem'[i] = mem[i]
    <3>1. i \in Nat
      BY BlockIs
    <3>2. i <= keep /\ i <= top
      BY <2>3, <2>4, <2>5, <2>6, <3>1, SMTT(60)
    <3>3. QED
      BY <1>3, <1>5, <3>2
  <2>7. QED
    BY <2>6 DEF Spared, g
<1>6. cpu' \in Cpu /\ BelongsTo(cpu', f) /\ cpu'.u2 = 0
  BY <1>2
<1>7. Enters(f, frames) /\ frames' = Append(frames, f)
  BY DEF f
<1>8. Entering(f)
  BY <1>3, <1>5, <1>6, <1>7 DEF Entering
<1>9. QED
  BY <1>8 DEF f

LEMMA BottomStays ==
  ASSUME Arranged(frames), frames # <<>>, Bottom, NEW f, Entering(f), dbg' = dbg,
         result' = result, mode' = "run"
  PROVE  Bottom'
<1>1. Follows(frames', frames, f)
  BY EnteringFollows
<1>2. 1 \in 1 .. Len(frames)
  <2>1. Len(frames) > 0 /\ Len(frames) \in Nat
    BY SeqFacts
  <2>2. QED
    BY <2>1
<1>3. frames'[1] = frames[1]
  BY <1>1, <1>2 DEF Follows
<1>4. QED
  BY <1>3 DEF Bottom

\* A method of the same activation is entered.
LEMMA CallsKeeps ==
  ASSUME IInv, mode = "run",
         NEW cells \in [Block -> Int], NEW m \in Methods, NEW top \in Nat,
         top - NumParams[m] >= LocalsEnd(Top), Fits(m, top, top - NumParams[m]),
         top - NumParams[m] < MaxStack,
         \A i \in Block : i <= top - NumParams[m] => cells[i] = mem[i],
         Calls(cells, m, top)
  PROVE  IInv' /\ StepRight
<1> DEFINE keep == top - NumParams[m]
<1>1. TypeOK /\ Arranged(frames) /\ Running /\ Live /\ Waiting /\ Bottom /\ Modes
  BY DEF IInv, Live
<1>2. /\ frames # <<>> /\ Len(frames) \in Nat /\ Len(frames) > 0 /\ Top = frames[Len(frames)]
      /\ Top \in FrameSet /\ Placed(Top, Len(frames)) /\ LocalsEnd(Top) \in Nat
      /\ cpu.fp = Top.fp /\ Top.fp \in Nat
  BY <1>1, Here
<1>3. PICK ret \in Addrs :
        /\ Linked(cells, top, ret, cpu.fp, m)
        /\ \E cp \in Addrs : cpu' = Registers(m, top, cp)
        /\ frames' = Append(frames, Frame(m, top, ret, Top.first, top - NumParams[m]))
        /\ UNCHANGED <<vmsp, acts, mode, result, dbg>>
  BY DEF Calls
<1>4. PICK cp \in Addrs : cpu' = Registers(m, top, cp)
  BY <1>3
<1>5. ret \in Nat /\ ret # 0
  BY AddrsAreNat
<1>6. keep \in Nat /\ keep \in Block /\ keep >= LocalsEnd(Top)
  <2>1. NumParams[m] \in Nat /\ NumLocals[m] \in Nat
    BY MethodWords
  <2>a. LocalsEnd(Top) \in Nat
    BY <1>2
  <2>2. keep \in Nat /\ keep < MaxStack
    BY <2>1, <2>a, BlockAssumption DEF Fits, BlockAssumption
  <2>3. QED
    BY <2>2, BlockIs
<1> DEFINE first == Top.first
           f == Frame(m, top, ret, first, keep)
<1>7. first \in 1 .. Len(frames) /\ first \in Nat /\ first # Len(frames) + 1
  BY <1>2 DEF Placed
<1>8. /\ Fits(m, top, keep) /\ frames' = Append(frames, f)
      /\ \A i \in Block : i <= keep => cells[i] = mem[i]
      /\ Linked(cells, top, ret, cpu.fp, m) /\ cpu.fp \in Int /\ mode' = "run"
      /\ UNCHANGED <<vmsp, acts, result, dbg>>
  BY <1>2, <1>3
<1>9. /\ f \in FrameSet
      /\ f.ret = ret /\ f.first = first /\ f.keep = keep
      /\ LocalsEnd(f) < MaxStack + Room /\ ParamsStart(f) = keep + 1 /\ keep < ParamsStart(f)
  <2>1. /\ f \in FrameSet
        /\ f.ret = ret /\ f.first = first /\ f.keep = keep
        /\ LocalsEnd(f) < MaxStack + Room /\ ParamsStart(f) = top + 1 - NumParams[m]
        /\ keep < ParamsStart(f)
    BY <1>5, <1>6, <1>7, FrameRight
  <2>2. NumParams[m] \in Nat
    BY MethodWords
  <2>3. top + 1 - NumParams[m] = keep + 1
    BY <2>2
  <2>4. QED
    BY <2>1, <2>3
<1>a. Top.first = first /\ LocalsEnd(frames[Len(frames)]) <= keep /\ frames[Len(frames)].first = first
  BY <1>2, <1>6
<1> HIDE DEF keep, f, first
<1>10. Placed(f, Len(frames) + 1)
  BY <1>2, <1>5, <1>6, <1>7, <1>9 DEF Placed
<1>11. Enters(f, frames)
  BY <1>2, <1>7, <1>9, <1>10, <1>a DEF Enters
<1>12. cpu.fp = IF first = Len(frames) + 1 THEN 0 ELSE frames[Len(frames)].fp
  BY <1>2, <1>7
<1>13. Entering(f)
  BY <1>1, <1>4, <1>5, <1>6, <1>7, <1>8, <1>11, <1>12, LinkedEnters DEF f
<1>14. acts' \in Seq(Cpu) /\ vmsp' \in Block /\ vmsp' < MaxStack /\ result' \in Int
  BY <1>1, <1>8 DEF TypeOK, Modes
<1>15. Bottom'
  BY <1>1, <1>2, <1>8, <1>13, BottomStays
<1>16. Waiting'
  <2>1. Follows(frames', frames, f) /\ frames' # <<>> /\ frames'[Len(frames')] = f
    BY <1>1, <1>13, EnteringFollows
  <2>2. SameFirst(frames, frames')
    BY <1>7, <1>9, <1>a, <1>2, <2>1 DEF SameFirst, Follows
  <2>3. PICK b : Waits(b, frames, acts, vmsp)
    BY <1>1, <1>2 DEF Waiting
  <2>4. acts \in Seq(Cpu) /\ vmsp \in Int /\ vmsp >= vmsp
    BY <1>1, BlockIs DEF TypeOK
  <2>5. Waits(b, frames', acts, vmsp)
    BY <2>2, <2>3, <2>4, WaitsOn
  <2>6. QED
    BY <1>8, <2>1, <2>5 DEF Waiting
<1>17. QED
  BY <1>13, <1>14, <1>15, <1>16, EnteringKeeps

LEMMA CallKeeps ==
  ASSUME IInv, NEW m \in Methods, mode = "run", cpu.sp < MaxStack, Operands(NumParams[m]),
         Calls(mem, m, cpu.sp)
  PROVE  IInv' /\ StepRight
<1>1. TypeOK /\ Arranged(frames) /\ Running /\ Live
  BY DEF IInv, Live
<1>2. /\ cpu.sp \in Nat /\ LocalsEnd(Top) \in Nat /\ cpu.lp + cpu.numLocals - 1 = LocalsEnd(Top)
  BY <1>1, Here
<1>3. NumParams[m] \in Nat /\ NumLocals[m] \in Nat /\ NumParams[m] + 3 + NumLocals[m] <= Room
  BY MethodWords
<1>4. cpu.sp - NumParams[m] >= LocalsEnd(Top) /\ cpu.sp - NumParams[m] < MaxStack
  BY <1>2, <1>3, BlockAssumption DEF Operands, BlockAssumption
<1>5. Fits(m, cpu.sp, cpu.sp - NumParams[m])
  BY <1>2, <1>3, <1>4, BlockAssumption DEF Fits, BlockAssumption
<1>6. mem \in [Block -> Int]
  BY <1>1 DEF TypeOK
<1>7. QED
  BY <1>2, <1>4, <1>5, <1>6, CallsKeeps

LEMMA LoadParam0CallKeeps ==
  ASSUME IInv, NEW m \in Methods, LoadParam0Call(m)
  PROVE  IInv' /\ StepRight
<1>0. /\ mode = "run" /\ cpu.sp < MaxStack /\ cpu.numParams >= 1 /\ NumParams[m] >= 1
      /\ Operands(NumParams[m] - 1) /\ Calls(Pushed(mem, cpu.sp, <<mem[cpu.pp]>>), m, cpu.sp + 1)
  BY DEF LoadParam0Call, Fetch
<1>1. TypeOK /\ Arranged(frames) /\ Running /\ Live
  BY <1>0 DEF IInv, Live
<1>2. /\ cpu.sp \in Nat /\ LocalsEnd(Top) \in Nat /\ cpu.lp + cpu.numLocals - 1 = LocalsEnd(Top)
      /\ cpu \in Cpu
  BY <1>1, Here
<1>3. NumParams[m] \in Nat /\ NumLocals[m] \in Nat /\ NumParams[m] + 3 + NumLocals[m] <= Room
  BY MethodWords
<1> DEFINE this == mem[cpu.pp]
           w == <<this>>
           top == cpu.sp + 1
           cells == Pushed(mem, cpu.sp, w)
<1>4. mem \in [Block -> Int] /\ this \in Int
  <2>1. cpu.pp \in Block
    <3>1. cpu.numParams \in Nat /\ cpu.pp \in cpu.pp .. cpu.pp + cpu.numParams - 1
      BY <1>0, <1>2, CpuFields
    <3>2. QED
      BY <1>0, <1>1, <3>1, Variables
  <2>2. QED
    BY <1>1, <2>1 DEF TypeOK
<1>5. top \in Nat /\ top - NumParams[m] >= LocalsEnd(Top) /\ top - NumParams[m] <= cpu.sp
      /\ top - NumParams[m] < MaxStack
  BY <1>0, <1>2, <1>3, BlockAssumption DEF Operands, BlockAssumption
<1>6. Fits(m, top, top - NumParams[m])
  BY <1>0, <1>2, <1>3, <1>5, BlockAssumption DEF Fits, BlockAssumption
<1>7. Calls(cells, m, top)
  BY <1>0
<1> HIDE DEF this
<1>8. w \in Seq(Int)
  BY <1>4
<1> HIDE DEF w
<1>9. cells \in [Block -> Int] /\ \A i \in Block : i <= cpu.sp => cells[i] = mem[i]
  BY <1>2, <1>4, <1>8, PushedCells
<1> HIDE DEF cells, top
<1>10. ASSUME NEW i \in Block, i <= top - NumParams[m]
       PROVE  cells[i] = mem[i]
  <2>1. i <= cpu.sp
    BY <1>2, <1>3, <1>5, <1>10, BlockIs
  <2>2. QED
    BY <1>9, <2>1
<1>11. QED
  BY <1>0, <1>5, <1>6, <1>7, <1>9, <1>10, CallsKeeps

LEMMA CallVirtualKeeps ==
  ASSUME IInv, NEW m \in Methods, CallVirtual(m)
  PROVE  IInv' /\ StepRight
<1>1. mode = "run" /\ cpu.sp < MaxStack /\ Operands(NumParams[m])
  BY DEF CallVirtual, Fetch
<1>2. Dies("null this") \/ Calls(mem, m, cpu.sp)
  BY DEF CallVirtual
<1>3. QED
  BY <1>1, <1>2, CallKeeps, DiesKeeps DEF Died

\* The first frame of an activation.
LEMMA FirstEnters ==
  ASSUME Arranged(frames), NEW m \in Methods, NEW top \in Nat, NEW keep \in Block,
         Fits(m, top, keep), frames # <<>> => LocalsEnd(frames[Len(frames)]) <= keep
  PROVE  Enters(Frame(m, top, 0, Len(frames) + 1, keep), frames)
<1> DEFINE first == Len(frames) + 1
           f == Frame(m, top, 0, first, keep)
<1>1. Len(frames) \in Nat /\ first \in Nat /\ 0 \in Nat
  BY SeqFacts
<1>2. first \in 1 .. Len(frames) + 1 /\ ~(first < Len(frames) + 1) /\ first = Len(frames) + 1
  BY <1>1
<1> HIDE DEF first
<1>3. /\ f \in FrameSet
      /\ f.ret = 0 /\ f.first = first /\ f.keep = keep
      /\ LocalsEnd(f) < MaxStack + Room /\ keep < ParamsStart(f)
  BY <1>1, FrameRight
<1> HIDE DEF f
<1>4. Placed(f, Len(frames) + 1)
  BY <1>2, <1>3 DEF Placed
<1>5. Enters(f, frames)
  BY <1>2, <1>3, <1>4 DEF Enters
<1>6. QED
  BY <1>5 DEF f, first

\* What Activate does to stack, frames and C locals.
LEMMA ActivateEnters ==
  ASSUME Arranged(frames), NEW m \in Methods, NEW sp \in Nat, NEW keep \in Block,
         NEW cells \in [Block -> Int], NEW n \in Nat, NEW args \in [1 .. n -> Vals],
         keep <= sp, Fits(m, sp + n, keep),
         frames # <<>> => LocalsEnd(frames[Len(frames)]) <= keep,
         frames # <<>> => \A i \in Block : i <= keep => cells[i] = mem[i],
         Activate(cells, sp, m, args, keep)
  PROVE  Entering(Frame(m, sp + n, 0, Len(frames) + 1, keep))
<1>1. args \in Seq(Int) /\ Len(args) = n
  BY ValsAreInts
<1> DEFINE top == sp + n
           pushed == Pushed(cells, sp, args)
           first == Len(frames) + 1
<1>a. Len(frames) \in Nat /\ first \in Nat /\ 0 \in Nat /\ 0 \in Int
  BY SeqFacts
<1>2. /\ Linked(pushed, top, 0, 0, m)
      /\ \E cp \in Addrs : cpu' = Registers(m, top, cp)
      /\ frames' = Append(frames, Frame(m, top, 0, first, keep))
      /\ mode' = "run"
  BY <1>1 DEF Activate
<1>3. Enters(Frame(m, top, 0, first, keep), frames)
  BY FirstEnters
<1>4. top \in Nat /\ Fits(m, top, keep)
  OBVIOUS
<1>5. pushed \in [Block -> Int] /\ \A i \in Block : i <= sp => pushed[i] = cells[i]
  BY <1>1, PushedCells
<1>6. 0 = IF first = Len(frames) + 1 THEN 0 ELSE frames[Len(frames)].fp
  OBVIOUS
<1> HIDE DEF top, pushed, first
<1>7. ASSUME frames # <<>>, NEW i \in Block, i <= keep
      PROVE  pushed[i] = mem[i]
  <2>1. i <= sp
    BY <1>7, BlockIs
  <2>2. QED
    BY <1>5, <1>7, <2>1
<1>8. PICK cp \in Addrs : cpu' = Registers(m, top, cp)
  BY <1>2
<1>9. Entering(Frame(m, top, 0, first, keep))
  BY <1>2, <1>3, <1>4, <1>5, <1>6, <1>7, <1>8, <1>a, LinkedEnters
<1>10. QED
  BY <1>9 DEF top, first

LEMMA NativeCallsKeeps ==
  ASSUME IInv, NEW m \in Methods, NativeCalls(m)
  PROVE  IInv' /\ StepRight
<1>1. mode = "native" /\ acts' = Append(acts, cpu) /\ UNCHANGED <<vmsp, result>>
  BY DEF NativeCalls
<1>2. TypeOK /\ Arranged(frames) /\ Running /\ Live /\ Waiting /\ Bottom /\ Modes
  BY <1>1 DEF IInv, Live
<1>3. /\ frames # <<>> /\ Len(frames) \in Nat /\ Len(frames) > 0 /\ Top = frames[Len(frames)]
      /\ BelongsTo(cpu, Top) /\ LocalsEnd(Top) \in Nat
      /\ cpu \in Cpu /\ cpu.sp \in Nat /\ cpu.u2 \in Nat /\ cpu.sp - cpu.u2 >= LocalsEnd(Top)
  BY <1>2, Here
<1>4. cpu.sp < MaxStack /\ cpu.sp <= vmsp
  BY <1>1, <1>2 DEF Running
<1>5. vmsp \in Block /\ vmsp \in Nat /\ vmsp < MaxStack
  <2>1. vmsp \in Block /\ vmsp < MaxStack
    BY <1>2 DEF TypeOK, Modes
  <2>2. QED
    BY <2>1, BlockIs
<1> DEFINE n == NumParams[m]
           keep == cpu.sp
           first == Len(frames) + 1
           f == Frame(m, vmsp + n, 0, first, keep)
<1>6. n \in Nat /\ NumLocals[m] \in Nat /\ n + 3 + NumLocals[m] <= Room
  BY MethodWords
<1>7. PICK args \in [1 .. n -> Vals] : Activate(mem, vmsp, m, args, keep)
  BY DEF NativeCalls
<1>8. Fits(m, vmsp + n, keep)
  <2>1. keep \in Nat /\ keep <= vmsp /\ vmsp \in Nat /\ vmsp < MaxStack
    BY <1>3, <1>4, <1>5
  <2> HIDE DEF keep
  <2>2. QED
    BY <1>6, <2>1, BlockAssumption, SMTT(60) DEF Fits, BlockAssumption
<1>9. keep \in Block /\ keep <= vmsp /\ LocalsEnd(frames[Len(frames)]) <= keep /\ vmsp + n \in Nat
      /\ keep \in Nat
  <2>1. keep \in Block
    BY <1>3, <1>4, BlockIs
  <2>2. LocalsEnd(Top) <= keep
    BY <1>3
  <2>3. QED
    BY <1>3, <1>4, <1>5, <1>6, <2>1, <2>2
<1>10. mem \in [Block -> Int]
  BY <1>2 DEF TypeOK
<1> HIDE DEF n, keep
<1>11. Entering(f)
  BY <1>2, <1>5, <1>6, <1>7, <1>8, <1>9, <1>10, ActivateEnters
<1> HIDE DEF first
<1>13. f.first = first /\ f.keep = keep
  BY DEF Frame
<1> HIDE DEF f
<1>14. Follows(frames', frames, f) /\ frames' # <<>> /\ frames'[Len(frames')] = f
  BY <1>2, <1>11, EnteringFollows
<1>15. CallsBack(frames, frames', cpu, vmsp)
  <2>1. Len(frames') = Len(frames) + 1 /\ \A k \in 1 .. Len(frames) : frames'[k] = frames[k]
    BY <1>14 DEF Follows
  <2>2. frames'[Len(frames')].first = Len(frames') /\ frames'[Len(frames')].keep = cpu.sp
    BY <1>13, <1>14, <2>1 DEF first, keep
  <2>3. BelongsTo(cpu, frames[Len(frames)])
    BY <1>3
  <2>4. QED
    BY <1>3, <1>4, <2>1, <2>2, <2>3 DEF CallsBack
<1>16. acts \in Seq(Cpu)
  BY <1>2 DEF TypeOK
<1>17. PICK b : Waits(b, frames, acts, vmsp)
  BY <1>2, <1>3 DEF Waiting
<1>18. \E d : Waits(d, frames', Append(acts, cpu), vmsp)
  BY <1>2, <1>3, <1>15, <1>16, <1>17, WaitsMore
<1>19. Waiting'
  BY <1>1, <1>14, <1>18 DEF Waiting
<1>20. acts' \in Seq(Cpu) /\ vmsp' \in Block /\ vmsp' < MaxStack /\ result' \in Int
  <2>1. Append(acts, cpu) \in Seq(Cpu)
    BY <1>3, <1>16, ActsMore
  <2>2. result \in Int
    BY <1>2 DEF TypeOK
  <2>3. QED
    BY <1>1, <1>5, <2>1, <2>2
<1>21. dbg' = dbg
  BY <1>2, <1>3, <1>7 DEF Activate, Bottom, add_frame
<1>22. Bottom'
  <2>1. mode' = "run"
    BY <1>11 DEF Entering
  <2>2. result' = result
    BY <1>1
  <2>3. QED
    BY <1>2, <1>3, <1>11, <1>21, <2>1, <2>2, BottomStays
<1>23. QED
  BY <1>11, <1>19, <1>20, <1>22, EnteringKeeps

LEMMA OnlyOne ==
  ASSUME NEW fs, fs[Len(fs)].first = 1, NEW v
  PROVE  \E b : Waits(b, fs, <<>>, v)
<1> DEFINE none == <<>>
           b == [j \in 1 .. 1 |-> 1]
<1>1. Len(none) = 0
  OBVIOUS
<1>2. b \in [1 .. 1 -> Nat] /\ b[1] = 1 /\ \A i, j \in 1 .. 1 : i < j => b[i] < b[j]
  OBVIOUS
<1> HIDE DEF none, b
<1>3. Len(none) + 1 = 1 /\ ~(\E j : j \in 1 .. Len(none))
  BY <1>1
<1>4. b[Len(none) + 1] = fs[Len(fs)].first
  BY <1>2, <1>3
<1>5. Waits(b, fs, none, v)
  BY <1>2, <1>3, <1>4 DEF Waits
<1>6. QED
  BY <1>5 DEF none

LEMMA EntryKeeps ==
  ASSUME IInv, NEW m \in Methods, vmEntry(m),
         \/ mode = "new" /\ m = main
         \/ mode = "halt" /\ result \in { ERR_HIBERNATE, ERR_YIELD } /\ m = resume
  PROVE  IInv' /\ StepRight
<1>a. /\ dbg # <<>> => dbg = <<[frameID |-> 1, methodID |-> main]>>
      /\ dbg = <<>> => m = main
      /\ m = IF result = 0 THEN main ELSE resume
  BY DEF IInv, Bottom, ERR_HIBERNATE, ERR_YIELD, ERR_INVALID_METHOD_PARAMS
<1>1. TypeOK /\ Arranged(frames) /\ Bottom /\ frames = <<>> /\ acts = <<>> /\ LinksOK(frames, mem)
  BY DEF IInv, Modes, Waiting
<1>2. vmsp' = 0 /\ acts' = acts
  BY DEF vmEntry, EntrySp
<1> DEFINE zero == 0
           cells == [mem EXCEPT ![zero] = -1]
<1>3. zero \in Block /\ zero \in Nat /\ zero < MaxStack /\ 5 < MaxStack + Room
  BY BlockAssumption DEF Block, BlockAssumption
<1>4. cells \in [Block -> Int]
  <2>1. mem \in [Block -> Int]
    BY <1>1 DEF TypeOK
  <2> HIDE DEF zero
  <2>2. QED
    BY <1>3, <2>1
<1>5. CASE NumParams[m] = 2
  <2>1. PICK args \in [1 .. 2 -> Vals] : Activate(cells, zero, m, args, zero) /\ UNCHANGED result
    BY <1>5 DEF vmEntry, EntrySp
  <2> DEFINE two == 2
             f == Frame(m, zero + two, 0, Len(frames) + 1, zero)
  <2>2. NumLocals[m] \in Nat /\ NumParams[m] + 3 + NumLocals[m] <= Room
    BY MethodWords
  <2>3. Fits(m, zero + two, zero)
    BY <1>5, <2>2, BlockAssumption DEF Fits, BlockAssumption
  <2>4. two \in Nat /\ args \in [1 .. two -> Vals] /\ zero <= zero /\ zero + two \in Nat
        /\ zero + two + 1 = 3
    OBVIOUS
  <2>5. Activate(cells, zero, m, args, zero)
    BY <2>1
  <2> HIDE DEF two, cells, zero
  <2>6. Entering(f)
    BY <1>1, <1>3, <1>4, <2>3, <2>4, <2>5, ActivateEnters
  <2> HIDE DEF f
  <2>7. Follows(frames', frames, f) /\ frames' # <<>> /\ frames'[Len(frames')] = f
    BY <1>1, <2>6, EnteringFollows
  <2>8. Len(frames) = 0
    BY <1>1
  <2>9. f.first = 1 /\ f.fp = 3
    <3>1. f.first = Len(frames) + 1 /\ f.fp = zero + two + 1
      BY DEF f, Frame
    <3>2. QED
      BY <2>4, <2>8, <3>1
  <2>10. Waiting'
    <3>1. \E b : Waits(b, frames', <<>>, vmsp')
      BY <2>7, <2>9, OnlyOne
    <3>2. acts' = <<>>
      BY <1>1, <1>2
    <3>3. QED
      BY <2>7, <3>1, <3>2 DEF Waiting
  <2>11. frames'[1] = f
    BY <2>7, <2>8 DEF Follows
  <2>12. dbg' = <<[frameID |-> 1, methodID |-> main]>>
    <3>1. dbg' = add_frame(m)
      BY <2>5 DEF Activate
    <3>2. QED
      BY <1>a, <3>1 DEF add_frame
  <2>13. Bottom'
    <3>1. f.m = m
      BY DEF f, Frame
    <3>2. mode' = "run"
      BY <2>6 DEF Entering
    <3>3. frames'[1].m = IF result' = 0 THEN main ELSE resume
      BY <1>a, <2>1, <2>11, <3>1
    <3>4. dbg' # <<>>
      BY <2>12
    <3>5. QED
      BY <2>7, <2>12, <3>2, <3>3, <3>4 DEF Bottom
  <2>14. acts' \in Seq(Cpu) /\ vmsp' \in Block /\ vmsp' < MaxStack /\ result' \in Int
    BY <1>1, <1>2, <1>3, <2>1 DEF TypeOK, zero
  <2>15. QED
    BY <2>6, <2>10, <2>13, <2>14, EnteringKeeps
<1>6. CASE NumParams[m] # 2
  <2>1. /\ mem' = cells /\ result' = ERR_INVALID_METHOD_PARAMS /\ mode' = "halt"
        /\ UNCHANGED <<cpu, dbg, frames>>
    BY <1>6 DEF vmEntry, EntrySp
  <2>2. TypeOK'
    <3>1. mem' \in [Block -> Int] /\ result' \in Int
      BY <1>4, <2>1 DEF ERR_INVALID_METHOD_PARAMS
    <3>2. vmsp' \in Block
      BY <1>2, <1>3 DEF zero
    <3>3. cpu' \in Cpu /\ acts' \in Seq(Cpu)
      BY <1>1, <1>2, <2>1 DEF TypeOK
    <3>4. frames' \in Seq([ fp : Reach, m : Methods, ret : Nat, first : Nat, keep : Block ])
      BY <1>1, <2>1 DEF TypeOK
    <3>5. QED
      BY <2>1, <3>1, <3>2, <3>3, <3>4 DEF TypeOK
  <2>3. Arranged(frames)'
    BY <1>1, <2>1
  <2>4. LinksOK(frames, mem)'
    <3>1. Len(frames') = 0
      BY <1>1, <2>1
    <3>2. QED
      BY <3>1 DEF LinksOK
  <2>5. Running'
    BY <2>1 DEF Running, Live
  <2>6. Waiting' /\ Bottom'
    <3>1. Waiting'
      BY <1>1, <1>2, <2>1 DEF Waiting
    <3>2. Bottom'
      BY <1>1, <1>a, <2>1 DEF Bottom
    <3>3. QED
      BY <3>1, <3>2
  <2>7. Modes'
    BY <1>1, <1>2, <1>3, <2>1 DEF Modes, zero
  <2>8. StepRight
    <3>1. Len(frames) = 0 /\ mode' # "run"
      BY <1>1, <2>1
    <3>2. CellsKept
      BY <3>1 DEF CellsKept
    <3>3. Resumed
      BY <3>1 DEF Resumed
    <3>4. QED
      BY <3>2, <3>3 DEF StepRight
  <2>9. QED
    BY <2>2, <2>3, <2>4, <2>5, <2>6, <2>7, <2>8 DEF IInv
<1>7. QED
  BY <1>5, <1>6

-----------------------------------------------------------------------------
\* Leaving methods

\* The activations but the last.
LEMMA FrontIs ==
  ASSUME NEW S, NEW s \in Seq(S), Len(s) > 0
  PROVE  /\ Front(s) \in Seq(S)
         /\ Len(s) \in Nat
         /\ Len(Front(s)) = Len(s) - 1
         /\ \A j \in 1 .. Len(s) - 1 : Front(s)[j] = s[j]
         /\ Last(s) = s[Len(s)]
         /\ Last(s) \in S
<1> DEFINE n == Len(s) - 1
           gs == SubSeq(s, 1, n)
<1>1. Len(s) \in Nat
  BY LenProperties
<1>2. n \in Int /\ n <= Len(s) /\ n >= 0
  BY <1>1
<1> HIDE DEF n
<1>3. \A i \in 1 .. n : s[i] \in S
  BY <1>1, <1>2, ElementOfSeq
<1>4. /\ gs \in Seq(S) /\ Len(gs) = (IF 1 <= n THEN n - 1 + 1 ELSE 0)
      /\ \A k \in 1 .. n - 1 + 1 : gs[k] = s[1 + k - 1]
  BY <1>2, <1>3, SubSeqProperties
<1> HIDE DEF gs
<1>5. gs \in Seq(S) /\ Len(gs) = n /\ \A k \in 1 .. n : gs[k] = s[k]
  BY <1>2, <1>4
<1>6. Front(s) = gs /\ Last(s) = s[Len(s)]
  BY DEF Front, Last, gs, n
<1>7. s[Len(s)] \in S
  <2>1. Len(s) \in 1 .. Len(s)
    BY <1>1
  <2>2. QED
    BY <2>1, ElementOfSeq
<1>8. QED
  BY <1>1, <1>5, <1>6, <1>7 DEF n

\* The running activation is left.
LeavesLast(fs, gs, as, bs) ==
  /\ Len(as) \in Nat
  /\ Len(as) > 0
  /\ Len(bs) = Len(as) - 1
  /\ \A j \in 1 .. Len(as) - 1 : bs[j] = as[j]
  /\ Len(gs) = fs[Len(fs)].first - 1
  /\ \A k \in 1 .. Len(gs) : gs[k] = fs[k]

LEMMA WaitsLess ==
  ASSUME NEW b, NEW fs, NEW as, NEW v, Waits(b, fs, as, v), NEW gs, NEW bs,
         LeavesLast(fs, gs, as, bs)
  PROVE  \E d : Waits(d, gs, bs, v)
<1> DEFINE l == Len(as)
           x == fs[Len(fs)].first
           d == [j \in 1 .. l |-> b[j]]
<1>a. l \in Nat /\ l > 0
  BY DEF LeavesLast
<1>1. l \in Nat /\ l > 0 /\ l \in 1 .. l /\ l - 1 + 1 = l
  <2> HIDE DEF l
  <2>1. QED
    BY <1>a
<1>2. b \in [1 .. l + 1 -> Nat] /\ b[1] = 1 /\ b[l + 1] = x
  BY DEF Waits
<1>3. WaitsAt(as[l], fs, b[l], x, v)
  BY <1>1, <1>2 DEF Waits
<1> HIDE DEF l, x
<1>4. x \in Nat /\ x >= 2 /\ fs[x - 1].first = b[l]
  BY <1>3 DEF WaitsAt
<1>5. Len(gs) = x - 1 /\ x - 1 \in 1 .. x - 1 /\ x - 1 \in Nat
  BY <1>4 DEF LeavesLast, x
<1>6. gs[Len(gs)].first = b[l] /\ \A k \in 1 .. x - 1 : gs[k] = fs[k]
  BY <1>4, <1>5 DEF LeavesLast
<1>7. \A j \in 1 .. l : d[j] = b[j] /\ b[j] \in Nat
  BY <1>1, <1>2
<1>8. d \in [1 .. l -> Nat]
  BY <1>7
<1> HIDE DEF d
<1>9. ASSUME NEW i \in 1 .. l, NEW j \in 1 .. l, i < j
      PROVE  d[i] < d[j]
  <2>1. i \in 1 .. l + 1 /\ j \in 1 .. l + 1
    BY <1>1
  <2>2. b[i] < b[j]
    BY <1>9, <2>1 DEF Waits, l
  <2>3. QED
    BY <1>7, <2>2
<1>10. ASSUME NEW j \in 1 .. l - 1
       PROVE  WaitsAt(bs[j], gs, d[j], d[j + 1], v)
  <2> DEFINE y == b[j + 1]
             a == as[j]
  <2>1. j \in 1 .. l /\ j + 1 \in 1 .. l /\ j + 1 <= l /\ j + 1 \in 1 .. l + 1 /\ l + 1 \in 1 .. l + 1
    BY <1>1
  <2>2. bs[j] = a /\ d[j] = b[j] /\ d[j + 1] = y /\ y \in Nat
    BY <1>7, <2>1 DEF LeavesLast, l
  <2>3. WaitsAt(a, fs, b[j], y, v)
    BY <2>1 DEF Waits, l
  <2>4. y < x
    <3>1. b[j + 1] < b[l + 1]
      <4>1. j + 1 < l + 1
        BY <1>1, <2>1
      <4>2. QED
        BY <2>1, <4>1 DEF Waits, l
    <3>2. QED
      BY <1>2, <3>1
  <2>5. y <= b[l] /\ b[l] \in Nat
    <3>1. b[l] \in Nat
      BY <1>1, <1>7
    <3>2. CASE j + 1 = l
      BY <3>1, <3>2
    <3>3. CASE j + 1 # l
      <4>1. j + 1 < l /\ l \in 1 .. l + 1
        BY <1>1, <2>1, <3>3
      <4>2. b[j + 1] < b[l]
        BY <2>1, <4>1 DEF Waits, l
      <4>3. QED
        BY <2>2, <3>1, <4>2
    <3>4. QED
      BY <3>2, <3>3
  <2> HIDE DEF y, a
  <2>6. y >= 2
    BY <2>3 DEF WaitsAt
  <2>7. gs[y] = fs[y] /\ gs[y - 1] = fs[y - 1]
    <3>1. y \in 1 .. x - 1 /\ y - 1 \in 1 .. x - 1
      BY <1>4, <2>2, <2>4, <2>6
    <3>2. QED
      BY <1>6, <3>1
  <2>8. y \in 2 .. gs[Len(gs)].first
    <3>1. y \in 2 .. b[l]
      BY <2>2, <2>5, <2>6
    <3>2. QED
      BY <1>6, <3>1
  <2>9. WaitsAt(a, gs, b[j], y, v)
    BY <2>3, <2>7, <2>8 DEF WaitsAt
  <2>10. QED
    BY <2>2, <2>9
<1>11. Len(bs) = l - 1 /\ Len(bs) + 1 = l
  BY <1>1 DEF LeavesLast, l
<1>12. d[1] = 1 /\ d[l] = gs[Len(gs)].first
  BY <1>1, <1>2, <1>6, <1>7
<1>13. Waits(d, gs, bs, v)
  BY <1>8, <1>9, <1>10, <1>11, <1>12 DEF Waits
<1>14. QED
  BY <1>13

LEMMA LeaveKeeps ==
  ASSUME IInv, Live, NEW res \in Int, Leave(res)
  PROVE  IInv' /\ StepRight
<1>1. TypeOK /\ Arranged(frames) /\ LinksOK(frames, mem) /\ Running /\ Waiting /\ Bottom /\ Modes
  BY DEF IInv
<1>2. /\ frames # <<>> /\ Len(frames) \in Nat /\ Len(frames) > 0 /\ Top = frames[Len(frames)]
      /\ Placed(Top, Len(frames))
  BY <1>1, Here
<1> DEFINE n == Len(frames)
           j == Top.first - 1
<1>3. j \in 0 .. n /\ j <= n /\ Top.first = j + 1
  <2>1. Top.first \in 1 .. n
    BY <1>2 DEF Placed
  <2>2. QED
    BY <1>2, <2>1
<1>4. frames' = SubSeq(frames, 1, j) /\ vmsp' = vmsp /\ dbg' = dbg
  BY DEF Leave
<1> HIDE DEF j
<1>5. Arranged(SubSeq(frames, 1, j)) /\ Len(SubSeq(frames, 1, j)) = j
      /\ \A k \in 1 .. j : SubSeq(frames, 1, j)[k] = frames[k]
  BY <1>1, <1>3, Fewer
<1>6. Arranged(frames') /\ Len(frames') = j /\ \A k \in 1 .. j : frames'[k] = frames[k]
  BY <1>4, <1>5
<1>7. LinksOK(frames', mem)
  BY <1>1, <1>3, <1>6, LinksFewer
<1>8. PICK b : Waits(b, frames, acts, vmsp)
  BY <1>1, <1>2 DEF Waiting
<1>9. frames' \in Seq([ fp : Reach, m : Methods, ret : Nat, first : Nat, keep : Block ])
  BY <1>6 DEF Arranged, FrameSet
<1>10. frames' # <<>> => frames'[1] = frames[1]
  <2>1. SUFFICES ASSUME frames' # <<>> PROVE frames'[1] = frames[1]
    OBVIOUS
  <2>2. 1 \in 1 .. j
    <3>1. Len(frames') > 0 /\ Len(frames') \in Nat
      BY <1>6, <2>1, SeqFacts
    <3>2. QED
      BY <1>6, <3>1
  <2>3. QED
    BY <1>6, <2>2
<1>11. vmsp' \in Block /\ vmsp' < MaxStack
  BY <1>1, <1>4 DEF TypeOK, Modes
<1>12. CASE acts = <<>>
  <2>1. mode' = "halt" /\ result' = res /\ UNCHANGED <<mem, cpu, acts>>
    BY <1>12 DEF Leave
  <2>2. j = 0
    <3>1. Len(acts) = 0
      BY <1>12
    <3>2. b[1] = 1 /\ b[Len(acts) + 1] = frames[Len(frames)].first
      BY <1>8 DEF Waits
    <3>3. Top.first = 1
      BY <1>2, <3>1, <3>2
    <3>4. QED
      BY <3>3 DEF j
  <2>3. frames' = <<>>
    <3>1. Len(frames') \in Nat /\ ~(Len(frames') > 0)
      BY <1>6, <2>2
    <3>2. QED
      BY <1>6, <3>1, SeqFacts
  <2>4. TypeOK'
    <3>1. mem' \in [Block -> Int] /\ cpu' \in Cpu
      BY <1>1, <2>1 DEF TypeOK
    <3>2. acts' \in Seq(Cpu)
      BY <1>1, <2>1 DEF TypeOK
    <3>3. QED
      BY <1>9, <1>11, <2>1, <3>1, <3>2 DEF TypeOK
  <2>5. LinksOK(frames, mem)'
    BY <1>7, <2>1
  <2>6. Running'
    BY <2>1 DEF Running, Live
  <2>7. Waiting'
    BY <1>12, <2>1, <2>3 DEF Waiting
  <2>8. Modes'
    BY <1>11, <2>3 DEF Modes
  <2>9. StepRight
    <3>1. mem' = mem /\ mode' # "run"
      BY <2>1
    <3>2. CellsKept
      BY <3>1 DEF CellsKept
    <3>3. Resumed
      BY <3>1 DEF Resumed
    <3>4. QED
      BY <3>2, <3>3 DEF StepRight
  <2>10. Bottom'
    BY <1>1, <1>2, <1>4, <2>1, <2>3 DEF Bottom
  <2>11. QED
    BY <1>6, <2>4, <2>5, <2>6, <2>7, <2>8, <2>9, <2>10 DEF IInv
<1>13. CASE acts # <<>>
  <2>1. /\ mode' = "native" /\ mem' = Pushed(mem, Last(acts).sp, <<>>)
        /\ cpu' = Last(acts) /\ acts' = Front(acts) /\ result' = result
    BY <1>13 DEF Leave
  <2> DEFINE l == Len(acts)
             c == acts[l]
             none == <<>>
  <2>2. acts \in Seq(Cpu) /\ l \in Nat /\ l > 0
    <3>1. acts \in Seq(Cpu)
      BY <1>1 DEF TypeOK
    <3>2. l \in Nat \ {0}
      BY <1>13, <3>1, EmptySeq, LenProperties
    <3>3. QED
      BY <3>1, <3>2
  <2>3. /\ Front(acts) \in Seq(Cpu) /\ Len(Front(acts)) = l - 1
        /\ \A i \in 1 .. l - 1 : Front(acts)[i] = acts[i]
        /\ Last(acts) = c /\ Last(acts) \in Cpu
    BY <2>2, FrontIs
  <2>4. /\ mode' = "native" /\ mem' = Pushed(mem, c.sp, none) /\ cpu' = c /\ cpu' \in Cpu
        /\ c \in Cpu
        /\ acts' \in Seq(Cpu) /\ Len(acts') = l - 1 /\ \A i \in 1 .. l - 1 : acts'[i] = acts[i]
    BY <2>1, <2>3
  <2>5. none \in Seq(Int)
    OBVIOUS
  <2> HIDE DEF none
  <2>6. WaitsAt(c, frames, b[l], j + 1, vmsp)
    <3>1. l \in 1 .. l
      BY <2>2
    <3>2. WaitsAt(acts[l], frames, b[l], b[l + 1], vmsp)
      BY <1>8, <3>1 DEF Waits
    <3>3. b[l + 1] = j + 1
      BY <1>2, <1>3, <1>8 DEF Waits
    <3>4. QED
      BY <3>2, <3>3
  <2> HIDE DEF l, c
  <2> DEFINE g == frames[j]
  <2>7. j \in 1 .. n /\ j + 1 - 1 = j /\ j \in 1 .. j
    <3>1. j + 1 >= 2
      BY <2>6 DEF WaitsAt
    <3>2. j \in Nat /\ j <= n /\ n \in Nat
      BY <1>2, <1>3
    <3>3. QED
      BY <3>1, <3>2
  <2>8. BelongsTo(c, g) /\ c.sp < MaxStack /\ c.sp <= vmsp
    BY <2>6, <2>7 DEF WaitsAt
  <2>9. g \in FrameSet /\ Placed(g, j)
    BY <1>1, <2>7, FrameAt
  <2>10. frames'[Len(frames')] = g /\ frames' # <<>>
    <3>1. frames'[Len(frames')] = g
      BY <1>6, <2>7
    <3>2. Len(frames') > 0
      BY <1>6, <2>7
    <3>3. QED
      BY <1>6, <3>1, <3>2, SeqFacts
  <2> HIDE DEF g
  <2>11. /\ LocalsEnd(g) \in Nat /\ g.fp \in Nat /\ g.keep \in Nat /\ g.fp + 2 <= LocalsEnd(g)
         /\ ParamsStart(g) \in Int /\ ParamsStart(g) <= g.fp /\ g.keep < ParamsStart(g)
    BY <2>9, FrameFields DEF Placed
  <2>12. c.sp \in Nat /\ c.sp \in Int /\ LocalsEnd(g) <= c.sp
    <3>1. c.sp \in Nat /\ c.u2 \in Nat
      BY <2>4, CpuFields
    <3>2. c.sp - c.u2 >= LocalsEnd(g)
      BY <2>8 DEF BelongsTo
    <3>3. QED
      BY <2>11, <3>1, <3>2
  <2>13. mem' \in [Block -> Int] /\ \A i \in Block : i <= c.sp => mem'[i] = mem[i]
    <3>1. mem \in [Block -> Int]
      BY <1>1 DEF TypeOK
    <3>2. /\ Pushed(mem, c.sp, none) \in [Block -> Int]
          /\ \A i \in Block : i <= c.sp => Pushed(mem, c.sp, none)[i] = mem[i]
      BY <2>5, <2>12, <3>1, PushedCells
    <3>3. QED
      BY <2>4, <3>2
  <2>14. Spared(frames', mem, mem')
    <3>1. ASSUME NEW i \in Block, i <= g.keep \/ (g.fp <= i /\ i <= g.fp + 2)
          PROVE  mem'[i] = mem[i]
      <4>1. i \in Nat
        BY BlockIs
      <4>2. i <= c.sp
        BY <2>11, <2>12, <3>1, <4>1
      <4>3. QED
        BY <2>13, <4>2
    <3>2. QED
      BY <2>10, <3>1 DEF Spared
  <2>15. LinksOK(frames', mem')
    BY <1>6, <1>7, <2>14, LinksSpared
  <2>16. TypeOK'
    <3>1. result' \in Int
      BY <1>1, <2>1 DEF TypeOK
    <3>2. QED
      BY <1>9, <1>11, <2>4, <2>10, <2>13, <3>1 DEF TypeOK
  <2>17. Running'
    <3>1. Top' = g
      BY <2>10 DEF Top
    <3>2. BelongsTo(cpu', g) /\ cpu'.sp < MaxStack /\ cpu'.sp <= vmsp'
      BY <1>4, <2>4, <2>8
    <3>3. QED
      BY <2>4, <3>1, <3>2 DEF Running
  <2>18. Waiting'
    <3>1. LeavesLast(frames, frames', acts, acts')
      <4>1. Len(frames') = frames[Len(frames)].first - 1
        BY <1>2, <1>6 DEF j
      <4>2. \A k \in 1 .. Len(frames') : frames'[k] = frames[k]
        BY <1>6
      <4>3. QED
        BY <2>2, <2>4, <4>1, <4>2 DEF LeavesLast, l
    <3>2. \E d : Waits(d, frames', acts', vmsp)
      BY <1>8, <3>1, WaitsLess
    <3>3. QED
      BY <1>4, <2>10, <3>2 DEF Waiting
  <2>19. Modes'
    BY <1>11, <2>1 DEF Modes
  <2>20. Arranged(frames)' /\ LinksOK(frames, mem)'
    BY <1>6, <2>15
  <2>21. StepRight
    <3> DEFINE x == j + 1
    <3>1. frames[x].keep = c.sp
      BY <2>6 DEF WaitsAt
    <3>2. x \in 1 .. Len(frames)
      BY <1>2, <1>3 DEF Placed
    <3>3. Len(frames') \in Nat /\ Len(frames') < x
      BY <1>6, <2>7
    <3> HIDE DEF x
    <3>4. \A i \in Block : i <= frames[x].keep => mem'[i] = mem[i]
      BY <2>13, <3>1
    <3>5. CellsKept
      BY <1>1, <3>2, <3>3, <3>4, KeptBelow
    <3>6. Resumed
      BY <2>1 DEF Resumed
    <3>7. QED
      BY <3>5, <3>6 DEF StepRight
  <2>22. Bottom'
    BY <1>1, <1>2, <1>4, <1>10, <2>1 DEF Bottom
  <2>23. QED
    BY <2>16, <2>17, <2>18, <2>19, <2>20, <2>21, <2>22 DEF IInv
<1>14. QED
  BY <1>12, <1>13

LEMMA FailKeeps ==
  ASSUME IInv, Fail
  PROVE  IInv' /\ StepRight
<1>1. Live
  BY DEF Fail, handleNullPointer, handleStackOverflow, Overrun, UnknownOpcode, MissingNative,
         Fetch, Live
<1>2. \/ Leave(ERR_NULL_POINTER) \/ Leave(ERR_STACK_OVERFLOW) \/ Leave(ERR_UNKNOWN_OPCODE)
      \/ Leave(ERR_MISSING_NATIVE) \/ Dies("no native") \/ Dies("overrun")
  BY DEF Fail, handleNullPointer, handleStackOverflow, Overrun, UnknownOpcode, MissingNative
<1>3. /\ ERR_NULL_POINTER \in Int /\ ERR_STACK_OVERFLOW \in Int /\ ERR_UNKNOWN_OPCODE \in Int
      /\ ERR_MISSING_NATIVE \in Int
  BY DEF ERR_NULL_POINTER, ERR_STACK_OVERFLOW, ERR_UNKNOWN_OPCODE, ERR_MISSING_NATIVE
<1>4. QED
  BY <1>1, <1>2, <1>3, LeaveKeeps, DiesKeeps DEF Died

\* The caller's C locals, with r words of result on its temporaries.
BackIn(c, g, below, r, ret) ==
  c = [ Registers(g.m, g.fp - 1, ret) EXCEPT !.sp = below + r ]

LEMMA BackInRight ==
  ASSUME NEW g \in FrameSet, NEW k \in Nat, Placed(g, k), NEW below \in Nat, NEW r \in 0 .. 2,
         LocalsEnd(g) <= below, below + r \in Reach, NEW ret \in Nat, NEW c,
         BackIn(c, g, below, r, ret)
  PROVE  c \in Cpu /\ BelongsTo(c, g) /\ c.u2 = 0 /\ c.cp = ret /\ c.sp = below + r
<1> DEFINE s == below + r
           m == g.m
<1>1. /\ g.fp \in Nat /\ ParamsStart(g) \in Int /\ ParamsStart(g) <= g.fp /\ g.keep \in Nat
      /\ LocalsEnd(g) \in Nat
  BY FrameFields
<1>2. g.keep < ParamsStart(g) /\ g.fp \in Reach /\ m \in Methods
  BY DEF Placed, FrameSet
<1>3. NumParams[m] \in Nat /\ NumLocals[m] \in Nat
  BY <1>2, MethodWords
<1>4. ParamsStart(g) = g.fp - NumParams[m]
  BY DEF ParamsStart
<1>5. ParamsStart(g) \in Reach
  <2>1. g.fp < MaxStack + Room
    BY <1>1, <1>2, BlockIs
  <2>2. ParamsStart(g) \in Nat /\ ParamsStart(g) < MaxStack + Room
    BY <1>1, <1>2, <2>1, BlockAssumption DEF BlockAssumption
  <2>3. QED
    BY <2>2, BlockIs
<1>6. s \in Reach /\ s \in Nat /\ s >= LocalsEnd(g)
  BY <1>1
<1> HIDE DEF s, m
<1>7. c = [ sp |-> s, cp |-> ret, fp |-> g.fp, pp |-> g.fp - NumParams[m], lp |-> g.fp + 3,
            numParams |-> NumParams[m], numLocals |-> NumLocals[m], u2 |-> 0 ]
  <2>1. g.fp - 1 + 1 = g.fp /\ g.fp - 1 + 4 = g.fp + 3
        /\ g.fp - 1 + 1 - NumParams[m] = g.fp - NumParams[m]
    BY <1>1, <1>3
  <2>2. c = [ Registers(m, g.fp - 1, ret) EXCEPT !.sp = s ]
    BY DEF BackIn, s, m
  <2>3. QED
    BY <2>1, <2>2 DEF Registers
<1>8. c \in Cpu
  BY <1>1, <1>2, <1>3, <1>4, <1>5, <1>6, <1>7 DEF Cpu
<1>9. /\ c.fp = g.fp /\ c.pp = ParamsStart(g) /\ c.lp = g.fp + 3
      /\ c.numParams = NumParams[g.m] /\ c.numLocals = NumLocals[g.m] /\ c.u2 = 0
      /\ c.cp = ret /\ c.sp = s
  BY <1>4, <1>7 DEF m
<1>10. c.sp - c.u2 >= LocalsEnd(g)
  BY <1>6, <1>9
<1>11. QED
  BY <1>8, <1>9, <1>10 DEF BelongsTo, s

\* A method returns to its caller g.
Returned(below, r, vals) ==
  LET g == frames[Len(frames) - 1]
  IN  /\ mem' = Pushed(mem, below, vals)
      /\ BackIn(cpu', g, below, r, Top.ret)
      /\ frames' = SubSeq(frames, 1, Len(frames) - 1)
      /\ UNCHANGED <<vmsp, acts, mode, result, dbg>>

LEMMA ReturnedKeeps ==
  ASSUME IInv, mode = "run", Top.ret # 0, NEW r \in 0 .. 2, NEW vals \in Seq(Int),
         Returned(Top.keep, r, vals)
  PROVE  IInv' /\ StepRight
<1>1. TypeOK /\ Arranged(frames) /\ LinksOK(frames, mem) /\ Running /\ Live /\ Waiting /\ Bottom /\ Modes
  BY DEF IInv, Live
<1>2. /\ frames # <<>> /\ Len(frames) \in Nat /\ Len(frames) > 0 /\ Top = frames[Len(frames)]
      /\ Top \in FrameSet /\ Placed(Top, Len(frames)) /\ Top.keep \in Nat /\ Top.fp \in Nat
      /\ Top.keep < ParamsStart(Top) /\ ParamsStart(Top) <= Top.fp /\ ParamsStart(Top) \in Nat
      /\ Top.fp + 2 <= LocalsEnd(Top) /\ LocalsEnd(Top) \in Nat
  BY <1>1, Here
<1> DEFINE n == Len(frames)
           j == n - 1
           g == frames[j]
           below == Top.keep
           ret == Top.ret
<1>3. Top.first \in 1 .. j /\ j \in 1 .. n /\ j \in Nat /\ j < n /\ j \in 0 .. n /\ Top.first \in Nat
  <2>1. Top.first \in 1 .. n /\ Top.first # n
    BY <1>2 DEF Placed
  <2> HIDE DEF n
  <2>2. n \in Nat
    BY <1>2 DEF n
  <2>3. QED
    BY <2>1, <2>2
<1>4. ret \in Nat
  BY <1>2, FrameFields
<1>5. /\ mem' = Pushed(mem, below, vals)
      /\ BackIn(cpu', g, below, r, ret)
      /\ frames' = SubSeq(frames, 1, j)
      /\ UNCHANGED <<vmsp, acts, mode, result, dbg>>
  BY DEF Returned
<1>6. g \in FrameSet /\ Placed(g, j)
  BY <1>1, <1>3, FrameAt
<1>7. LocalsEnd(g) <= below
  <2>a. n \in 1 .. n /\ j <= n
    BY <1>2, <1>3
  <2>1. LocalsEnd(frames[j]) <= frames[n].keep
    <3> HIDE DEF j
    <3>1. QED
      BY <1>1, <1>3, <2>a, Above
  <2>2. QED
    BY <1>2, <2>1
<1>8. g.first = Top.first
  <2>1. n \in 1 .. n /\ frames[n].first <= j /\ j <= n
    BY <1>2, <1>3
  <2>2. frames[j].first = frames[n].first
    BY <1>1, <1>3, <2>1 DEF Arranged
  <2>3. QED
    BY <1>2, <2>2
<1>9. below + r \in Reach /\ below \in Nat
  <2>1. below + r \in Nat /\ below + r <= LocalsEnd(Top)
    <3>1. below \in Nat /\ below < LocalsEnd(Top) - 1
      BY <1>2
    <3> HIDE DEF below
    <3>2. QED
      BY <1>2, <3>1
  <2>2. LocalsEnd(Top) < MaxStack + Room
    BY <1>2 DEF Placed
  <2>3. below + r < MaxStack + Room
    <3> DEFINE t == below + r
    <3>1. t \in Nat /\ t <= LocalsEnd(Top)
      BY <2>1
    <3> HIDE DEF t
    <3>2. t < MaxStack + Room
      BY <1>2, <2>2, <3>1, BlockAssumption DEF BlockAssumption
    <3>3. QED
      BY <3>2 DEF t
  <2>4. QED
    BY <1>2, <2>1, <2>3, BlockIs
<1>10. Arranged(SubSeq(frames, 1, j)) /\ Len(SubSeq(frames, 1, j)) = j
       /\ \A k \in 1 .. j : SubSeq(frames, 1, j)[k] = frames[k]
  BY <1>1, <1>3, Fewer
<1>11. Arranged(frames') /\ Len(frames') = j /\ \A k \in 1 .. j : frames'[k] = frames[k]
  BY <1>5, <1>10
<1>12. LinksOK(frames', mem)
  BY <1>1, <1>3, <1>11, LinksFewer
<1>13. frames'[Len(frames')] = g /\ frames' # <<>>
  <2>1. j \in 1 .. j /\ Len(frames') > 0
    BY <1>3, <1>11
  <2>2. QED
    BY <1>11, <2>1, SeqFacts
<1>14. cpu' \in Cpu /\ BelongsTo(cpu', g) /\ cpu'.u2 = 0 /\ cpu'.cp = ret /\ cpu'.sp = below + r
  <2>1. BackIn(cpu', g, below, r, ret)
    BY <1>5
  <2> HIDE DEF g, below, ret, j
  <2>2. j \in Nat
    BY <1>3
  <2>3. QED
    BY <1>4, <1>6, <1>7, <1>9, <2>1, <2>2, BackInRight
<1>15. mem' \in [Block -> Int] /\ \A i \in Block : i <= below => mem'[i] = mem[i]
  <2>1. mem \in [Block -> Int] /\ below \in Int
    BY <1>1, <1>2, SMTT(60) DEF TypeOK
  <2> HIDE DEF below
  <2>2. /\ Pushed(mem, below, vals) \in [Block -> Int]
        /\ \A i \in Block : i <= below => Pushed(mem, below, vals)[i] = mem[i]
    BY <2>1, PushedCells
  <2>3. QED
    BY <1>5, <2>2
<1> HIDE DEF g
<1>16. Spared(frames', mem, mem')
  <2>1. /\ LocalsEnd(g) \in Nat /\ g.fp \in Nat /\ g.keep \in Nat /\ g.fp + 2 <= LocalsEnd(g)
        /\ ParamsStart(g) \in Int /\ ParamsStart(g) <= g.fp /\ g.keep < ParamsStart(g)
    BY <1>6, FrameFields DEF Placed
  <2> HIDE DEF below
  <2>2. ASSUME NEW i \in Block, i <= g.keep \/ (g.fp <= i /\ i <= g.fp + 2)
        PROVE  mem'[i] = mem[i]
    <3>1. i \in Nat
      BY BlockIs
    <3>2. i <= below
      BY <1>7, <1>9, <2>1, <2>2, <3>1
    <3>3. QED
      BY <1>15, <3>2
  <2>3. QED
    BY <1>13, <2>2 DEF Spared
<1>17. LinksOK(frames', mem')
  BY <1>11, <1>12, <1>16, LinksSpared
<1>18. TypeOK'
  <2>1. frames' \in Seq([ fp : Reach, m : Methods, ret : Nat, first : Nat, keep : Block ])
    BY <1>11 DEF Arranged, FrameSet
  <2>2. vmsp' \in Block /\ acts' \in Seq(Cpu) /\ result' \in Int
    BY <1>1, <1>5 DEF TypeOK
  <2>3. mode' = "run"
    BY <1>5
  <2>4. QED
    BY <1>13, <1>14, <1>15, <2>1, <2>2, <2>3 DEF TypeOK
<1>19. Running'
  <2>1. Top' = g /\ mode' = "run"
    BY <1>5, <1>13 DEF Top
  <2>2. QED
    BY <1>14, <2>1 DEF Running
<1>20. Waiting'
  <2>1. SameFirst(frames, frames')
    <3>1. \A k \in 1 .. Top.first : frames'[k] = frames[k]
      BY <1>3, <1>11
    <3>2. frames[Len(frames)].first = Top.first
      BY <1>2
    <3>3. QED
      BY <1>3, <1>8, <1>13, <3>1, <3>2 DEF SameFirst
  <2>2. PICK b : Waits(b, frames, acts, vmsp)
    BY <1>1, <1>2 DEF Waiting
  <2>3. acts \in Seq(Cpu) /\ vmsp \in Int /\ vmsp >= vmsp
    BY <1>1, BlockIs DEF TypeOK
  <2>4. Waits(b, frames', acts, vmsp)
    BY <2>1, <2>2, <2>3, WaitsOn
  <2>5. QED
    BY <1>5, <1>13, <2>4 DEF Waiting
<1>21. Bottom'
  <2>1. 1 \in 1 .. j
    BY <1>3
  <2>2. frames'[1] = frames[1]
    BY <1>11, <2>1
  <2>3. QED
    BY <1>1, <1>2, <1>5, <2>2 DEF Bottom
<1>22. Modes'
  BY <1>1, <1>5 DEF Modes
<1>23. CellsKept
  <2>1. n \in 1 .. n /\ Len(frames') \in Nat
    BY <1>2, <1>3, <1>11
  <2>2. frames[n].keep = below
    BY <1>2
  <2> HIDE DEF below
  <2>3. \A i \in Block : i <= frames[n].keep => mem'[i] = mem[i]
    BY <1>15, <2>2
  <2>4. QED
    BY <1>1, <2>1, <2>3, KeptBelow
<1>24. Resumed
  <2>1. below + r \in below .. below + 2
    BY <1>2
  <2>2. QED
    BY <1>14, <2>1 DEF Resumed
<1>25. Arranged(frames)' /\ LinksOK(frames, mem)'
  BY <1>11, <1>17
<1>26. QED
  BY <1>18, <1>19, <1>20, <1>21, <1>22, <1>23, <1>24, <1>25 DEF IInv, StepRight

LEMMA TopLinks ==
  ASSUME TypeOK, Arranged(frames), LinksOK(frames, mem), Running, Live, cpu.sp < MaxStack
  PROVE  /\ mem[cpu.fp] = Top.ret
         /\ Top.ret # 0 => /\ Top.keep = ParamsStart(Top) - 1
                           /\ frames[Len(frames) - 1] \in FrameSet
                           /\ mem[cpu.fp + 1] = frames[Len(frames) - 1].fp
                           /\ mem[frames[Len(frames) - 1].fp + 2] = frames[Len(frames) - 1].m
<1> DEFINE n == Len(frames)
<1>1. /\ n \in Nat /\ n > 0 /\ Top = frames[n] /\ Placed(Top, n) /\ cpu.fp = Top.fp
  BY Here
<1>2. n \in 1 .. n
  BY <1>1
<1>a. /\ Top.fp \in Nat /\ LocalsEnd(Top) \in Nat /\ Top.fp + 2 <= LocalsEnd(Top)
      /\ ParamsStart(Top) \in Nat /\ ParamsStart(Top) <= Top.fp
      /\ Top.keep \in Nat /\ Top.keep < ParamsStart(Top)
      /\ cpu.sp \in Nat /\ cpu.u2 \in Nat /\ cpu.sp - cpu.u2 >= LocalsEnd(Top)
  BY Here
<1>b. MaxStack \in Nat
  BY BlockAssumption DEF BlockAssumption
<1>c. Top.fp + 2 \in Nat /\ Top.fp + 2 < MaxStack
  BY <1>a, <1>b, SMTT(60)
<1>d. frames[n].fp + 2 \in Block
  BY <1>1, <1>c, BlockIs
<1>3. /\ mem[frames[n].fp] = frames[n].ret
      /\ mem[frames[n].fp + 1] = IF n = frames[n].first THEN 0 ELSE frames[n - 1].fp
  BY <1>2, <1>d DEF LinksOK
<1>4. mem[cpu.fp] = Top.ret
  BY <1>1, <1>3
<1>5. ASSUME Top.ret # 0
      PROVE  /\ Top.keep = ParamsStart(Top) - 1
             /\ frames[n - 1] \in FrameSet
             /\ mem[cpu.fp + 1] = frames[n - 1].fp
             /\ mem[frames[n - 1].fp + 2] = frames[n - 1].m
  <2>1. Top.first \in 1 .. n /\ Top.first # n
    BY <1>1, <1>5 DEF Placed
  <2>2. Top.first < n /\ n - 1 \in 1 .. n
    BY <1>1, <2>1
  <2>3. Top.keep = ParamsStart(Top) - 1
    BY <1>1, <2>2 DEF Placed
  <2>4. mem[cpu.fp + 1] = frames[n - 1].fp
    BY <1>1, <1>3, <2>1
  <2>6. frames[n - 1] \in FrameSet
    BY <2>2, FrameAt
  <2>a. frames[n - 1].fp + 2 \in Block
    <3> DEFINE g == frames[n - 1]
    <3>1. LocalsEnd(g) <= frames[n].keep
      <4>1. n - 1 < n /\ n - 1 <= n
        BY <1>1
      <4>2. QED
        BY <1>2, <2>2, <4>1, Above
    <3>2. g.fp \in Nat /\ LocalsEnd(g) \in Nat /\ LocalsEnd(g) >= g.fp + 2
      BY <2>6, FrameFields
    <3>3. LocalsEnd(g) <= Top.keep
      BY <1>1, <3>1
    <3> HIDE DEF g
    <3>4. g.fp + 2 \in Nat /\ g.fp + 2 < MaxStack
      BY <1>a, <1>b, <1>c, <3>2, <3>3, SMTT(60)
    <3>5. QED
      BY <3>4, BlockIs DEF g
  <2>5. mem[frames[n - 1].fp + 2] = frames[n - 1].m
    BY <2>2, <2>a DEF LinksOK
  <2>7. QED
    BY <2>3, <2>4, <2>5, <2>6
<1>6. QED
  BY <1>4, <1>5

LEMMA ReturnKeeps ==
  ASSUME IInv, NEW r \in 0 .. 2, Return(r)
  PROVE  IInv' /\ StepRight
<1>1. mode = "run" /\ Operands(r) /\ cpu.sp < MaxStack
  BY DEF Return, Fetch
<1>2. TypeOK /\ Arranged(frames) /\ LinksOK(frames, mem) /\ Running /\ Live
  BY <1>1 DEF IInv, Live
<1>3. /\ cpu.sp \in Nat /\ LocalsEnd(Top) \in Nat /\ cpu.lp + cpu.numLocals - 1 = LocalsEnd(Top)
      /\ cpu.pp = ParamsStart(Top) /\ cpu.pp + cpu.numParams = Top.fp /\ cpu.fp = Top.fp
      /\ cpu.numParams \in Nat /\ ParamsStart(Top) \in Nat /\ Top.keep \in Nat
      /\ Top.keep < ParamsStart(Top) /\ Top.fp + 2 <= LocalsEnd(Top) /\ Top.fp \in Nat
  BY <1>2, Here
<1>4. mem \in [Block -> Int]
  BY <1>2 DEF TypeOK
<1> DEFINE below == BelowParams
           vals == [k \in 1 .. r |-> mem[cpu.sp - r + k]]
           caller == mem[cpu.fp + 1]
<1>5. below = ParamsStart(Top) - 1
  BY <1>3 DEF BelowParams
<1>6. vals \in [1 .. r -> Int] /\ r \in Nat
  <2>1. ASSUME NEW k \in 1 .. r
        PROVE  cpu.sp - r + k \in Block
    <3>1. cpu.sp - r >= LocalsEnd(Top)
      BY <1>1, <1>3 DEF Operands
    <3>2. cpu.sp - r + k \in Nat /\ cpu.sp - r + k < MaxStack
      BY <1>1, <1>3, <3>1, BlockAssumption DEF BlockAssumption
    <3>3. QED
      BY <3>2, BlockIs
  <2>2. QED
    BY <1>4, <2>1
<1>7. IF mem[cpu.fp] = 0
      THEN Leave(CASE r = 0 -> mem[below] [] r = 1 -> vals[1] [] r = 2 -> 0)
      ELSE /\ mem' = Pushed(mem, below, vals)
           /\ cpu' = [ Registers(CallersMethod, caller - 1, mem[cpu.fp]) EXCEPT !.sp = below + r ]
           /\ frames' = Front(frames)
           /\ UNCHANGED <<vmsp, acts, mode, result, dbg>>
  BY DEF Return
<1>8. mem[cpu.fp] = Top.ret
  BY <1>1, <1>2, TopLinks
<1> HIDE DEF vals, below
<1>9. CASE Top.ret = 0
  <2> DEFINE res == CASE r = 0 -> mem[below] [] r = 1 -> vals[1] [] r = 2 -> 0
  <2>1. Leave(res)
    BY <1>7, <1>8, <1>9
  <2>2. below \in Block
    <3>1. below \in Nat /\ below < MaxStack
      BY <1>1, <1>3, <1>5, BlockAssumption DEF BlockAssumption, Operands
    <3>2. QED
      BY <3>1, BlockIs
  <2>3. mem[below] \in Int
    BY <1>4, <2>2
  <2>4. r = 1 => vals[1] \in Int
    BY <1>6
  <2>5. res \in Int
    BY <2>3, <2>4
  <2> HIDE DEF res
  <2>6. QED
    BY <1>2, <2>1, <2>5, LeaveKeeps
<1>10. CASE Top.ret # 0
  <2> DEFINE g == frames[Len(frames) - 1]
  <2>1. Top.keep = ParamsStart(Top) - 1 /\ g \in FrameSet /\ caller = g.fp /\ mem[g.fp + 2] = g.m
    BY <1>1, <1>2, <1>10, TopLinks
  <2>2. vals \in Seq(Int)
    BY <1>6, Tuples
  <2>3. /\ mem' = Pushed(mem, below, vals)
        /\ cpu' = [ Registers(CallersMethod, caller - 1, mem[cpu.fp]) EXCEPT !.sp = below + r ]
        /\ frames' = Front(frames)
        /\ UNCHANGED <<vmsp, acts, mode, result, dbg>>
    BY <1>7, <1>8, <1>10
  <2>4. CallersMethod = g.m
    BY <2>1 DEF CallersMethod
  <2>5. BackIn(cpu', g, below, r, Top.ret)
    BY <1>8, <2>1, <2>3, <2>4 DEF BackIn
  <2>6. Top.keep = below
    BY <1>5, <2>1
  <2>7. frames' = SubSeq(frames, 1, Len(frames) - 1)
    BY <2>3 DEF Front
  <2>8. Returned(Top.keep, r, vals)
    BY <2>3, <2>5, <2>6, <2>7 DEF Returned
  <2>9. QED
    BY <1>1, <1>10, <2>2, <2>8, ReturnedKeeps
<1>11. QED
  BY <1>9, <1>10

-----------------------------------------------------------------------------
\* The theorems

LEMMA StutterKeeps ==
  ASSUME IInv, UNCHANGED vars
  PROVE  IInv'
<1>1. UNCHANGED <<mem, vmsp, cpu, acts, mode, result, dbg, frames>>
  BY DEF vars
<1>2. TypeOK'
  BY <1>1 DEF IInv, TypeOK
<1>3. Arranged(frames)' /\ LinksOK(frames, mem)'
  BY <1>1 DEF IInv
<1>4. Running'
  BY <1>1 DEF IInv, Running, Live, Top
<1>5. Waiting' /\ Bottom'
  BY <1>1 DEF IInv, Waiting, Bottom
<1>6. Modes'
  BY <1>1 DEF IInv, Modes
<1>7. QED
  BY <1>2, <1>3, <1>4, <1>5, <1>6 DEF IInv

LEMMA NextKeeps ==
  ASSUME IInv, Next
  PROVE  IInv' /\ StepRight
<1>1. CASE Enter
  <2>1. main \in Methods /\ resume \in Methods
    BY ImageAssumption DEF ImageAssumption
  <2>2. CASE vmRun
    BY <2>1, <2>2, EntryKeeps DEF vmRun
  <2>3. CASE vmResume
    BY <2>1, <2>3, EntryKeeps DEF vmResume
  <2>4. QED
    BY <1>1, <2>2, <2>3 DEF Enter
<1>2. CASE Fail
  BY <1>2, FailKeeps
<1>3. ASSUME NEW op \in Ops, Op(op)
      PROVE  IInv' /\ StepRight
  BY <1>3, OpKeeps
<1>a. CASE InitArray
  BY <1>a, InitArrayKeeps
<1>4. CASE Move
  BY <1>4, MoveKeeps
<1>5. ASSUME NEW m \in Methods, Call(m)
      PROVE  IInv' /\ StepRight
  BY <1>5, CallKeeps DEF Call, Fetch
<1>6. ASSUME NEW m \in Methods, LoadParam0Call(m) \/ CallVirtual(m) \/ NativeCalls(m)
      PROVE  IInv' /\ StepRight
  BY <1>6, LoadParam0CallKeeps, CallVirtualKeeps, NativeCallsKeeps
<1>7. ASSUME NEW n \in NativeParams, CallNative(n)
      PROVE  IInv' /\ StepRight
  BY <1>7, CallNativeKeeps
<1>8. CASE NativeReturns
  BY <1>8, NativeReturnsKeeps
<1>9. ASSUME NEW r \in 0 .. 2, Return(r)
      PROVE  IInv' /\ StepRight
  BY <1>9, ReturnKeeps
<1>10. QED
  BY <1>1, <1>2, <1>3, <1>4, <1>5, <1>6, <1>7, <1>8, <1>9, <1>a DEF Next

LEMMA InitRight == Init => IInv
<1> SUFFICES ASSUME Init PROVE IInv
  OBVIOUS
<1>1. /\ mem = [i \in Block |-> 0] /\ vmsp = 0 /\ acts = <<>> /\ mode = "new" /\ result = 0
      /\ dbg = <<>> /\ frames = <<>>
      /\ cpu = [sp |-> 0, cp |-> 0, fp |-> 0, pp |-> 0, lp |-> 0,
                numParams |-> 0, numLocals |-> 0, u2 |-> 0]
  BY DEF Init
<1>2. 0 \in Block /\ 0 \in Reach /\ 0 < MaxStack
  BY BlockAssumption DEF Block, Reach, BlockAssumption
<1>3. TypeOK
  <2>1. mem \in [Block -> Int]
    BY <1>1
  <2>2. cpu \in Cpu
    BY <1>1, <1>2 DEF Cpu
  <2>3. acts \in Seq(Cpu)
    BY <1>1
  <2>4. frames \in Seq([ fp : Reach, m : Methods, ret : Nat, first : Nat, keep : Block ])
    BY <1>1
  <2>5. vmsp \in Block /\ result \in Int /\ mode = "new"
    BY <1>1, <1>2
  <2>6. QED
    BY <2>1, <2>2, <2>3, <2>4, <2>5 DEF TypeOK
<1>4. Arranged(frames)
  BY <1>1, EmptyArranged
<1>5. LinksOK(frames, mem)
  <2>1. Len(frames) = 0
    BY <1>1
  <2>2. QED
    BY <2>1 DEF LinksOK
<1>6. Running
  BY <1>1 DEF Running, Live
<1>7. Waiting /\ Bottom
  BY <1>1 DEF Waiting, Bottom
<1>8. Modes
  BY <1>1, <1>2 DEF Modes
<1>9. QED
  BY <1>3, <1>4, <1>5, <1>6, <1>7, <1>8 DEF IInv

LEMMA Invariance == Spec => []IInv
<1>1. IInv /\ [Next]_vars => IInv'
  BY NextKeeps, StutterKeeps
<1>2. QED
  BY <1>1, InitRight, PTL DEF Spec

\* The cells hold words and the C locals point into the block, whatever the
\* opcodes of the image do within their operands.
THEOREM TypeCorrect == Spec => []TypeOK
<1>1. IInv => TypeOK
  BY DEF IInv
<1>2. QED
  BY <1>1, Invariance, PTL

\* The C locals are those of the method entered last: what a return reads
\* back from the stack, and what waits on the C stack, is right.
THEOREM LocalsAreTheTops == Spec => []LocalsOfTopFrame
<1>1. IInv => LocalsOfTopFrame
  BY DEF IInv, LocalsOfTopFrame, Running, Live, BelongsTo, ParamsStart
<1>2. QED
  BY <1>1, Invariance, PTL

\* No step overwrites the links of a method that has not returned.
THEOREM LinksStayIntact == Spec => []LinksIntact
<1>1. IInv => LinksIntact
  BY DEF IInv, LinksIntact, LinksOK
<1>2. QED
  BY <1>1, Invariance, PTL

\* What the debugger is told of the call stack is the method the program was
\* started with, also while resume or a callback runs.
THEOREM DebuggerIsToldMain == Spec => []DebuggerSeesMain
<1>1. IInv => DebuggerSeesMain
  BY DEF IInv, Bottom, DebuggerSeesMain
<1>2. QED
  BY <1>1, Invariance, PTL

\* A native's callback starts above its caller's temporaries.
THEOREM CallbacksAbove == Spec => []CallbackStartsAbove
<1>1. IInv => CallbackStartsAbove
  <2> SUFFICES ASSUME IInv, mode = "native" PROVE vmsp >= cpu.sp
    BY DEF CallbackStartsAbove
  <2>1. cpu.sp <= vmsp /\ vmsp \in Block /\ cpu \in Cpu
    BY DEF IInv, Running, Live, TypeOK
  <2>2. cpu.sp \in Nat /\ vmsp \in Nat
    BY <2>1, CpuFields, BlockIs
  <2>3. QED
    BY <2>1, <2>2
<1>2. QED
  BY <1>1, Invariance, PTL

\* What a waiting method keeps on the stack is not touched by its callees.
THEOREM CellsAreKept == Spec => CallersKeepTheirCells
<1>1. IInv /\ [Next]_vars => [CellsKept]_vars
  BY NextKeeps DEF StepRight
<1>2. QED
  BY <1>1, Invariance, PTL DEF Spec, CallersKeepTheirCells, CellsKept

\* A return goes to the opcode after the call, with the caller's temporaries.
THEOREM ReturnsAreRight == Spec => ReturnsToItsCall
<1>1. IInv /\ [Next]_vars => [Resumed]_vars
  BY NextKeeps DEF StepRight
<1>2. QED
  BY <1>1, Invariance, PTL DEF Spec, ReturnsToItsCall, Resumed

=============================================================================
