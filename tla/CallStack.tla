------------------------------ MODULE CallStack ------------------------------
(***************************************************************************)
(* The interpreter's stack (vmCallDebug, vm.c).  One block of cells holds   *)
(* the parameters, links, locals and temporaries of every method that is   *)
(* running; the C locals of vmCallDebug point into it.  A native method    *)
(* may call vm->call again: a new activation of vmCallDebug then runs on   *)
(* the same block, from vm->sp upwards, while the C locals of the old one  *)
(* wait on the C stack.                                                    *)
(*                                                                         *)
(* The image is left open: after any opcode the next one may be any other  *)
(* whose operands lie above the locals, which is what the compiler sees    *)
(* to.  Cells are numbers, as the union Cell of sedona.h lets an address,  *)
(* an index or a value be read from any of them.                           *)
(***************************************************************************)
EXTENDS Opcodes, Sequences, SequencesExt

CONSTANTS
  Methods,      \* block indices of the methods of the image
  NumParams,    \* words of parameters and of locals in a method's header
  NumLocals,
  main,         \* the methods at offset 16 and at offset 24 of the image
  resume,
  Addrs,        \* addresses of opcodes
  Vals,         \* values of one word
  NativeParams, \* words a native method may take
  MaxStack,     \* cells of the block; maxStackAddr is behind the last one
  Room          \* cells behind the block that the C locals may point at

NULL == 0

\* errorcodes.h
ERR_UNKNOWN_OPCODE        == 11
ERR_MISSING_NATIVE        == 12
ERR_NULL_POINTER          == 100
ERR_STACK_OVERFLOW        == 101
ERR_INVALID_METHOD_PARAMS == 102
ERR_YIELD                 == 253
ERR_HIBERNATE             == 255

Errors ==
  { ERR_UNKNOWN_OPCODE, ERR_MISSING_NATIVE, ERR_NULL_POINTER, ERR_STACK_OVERFLOW,
    ERR_INVALID_METHOD_PARAMS }

ASSUME ImageAssumption ==
  /\ Methods \subseteq Nat
  /\ NumParams \in [Methods -> Nat]
  /\ NumLocals \in [Methods -> Nat]
  /\ main \in Methods
  /\ resume \in Methods
  /\ Addrs \subseteq Nat \ {0}
  /\ Addrs # {}
  /\ Vals \subseteq Int
  /\ NativeParams \subseteq Nat

\* The block has room for the entry of main; behind it there is a bound for
\* one more frame, and for two words.
ASSUME BlockAssumption ==
  /\ MaxStack \in Nat
  /\ Room \in Nat
  /\ Room >= 5
  /\ MaxStack >= Room
  /\ \A m \in Methods : NumParams[m] + 3 + NumLocals[m] <= Room

VARIABLES
  mem,      \* the block, cell by cell
  vmsp,     \* vm->sp
  cpu,      \* the C locals of the activation of vmCallDebug that runs
  acts,     \* those of the activations below it, which wait in a native method
  mode,     \* "new", "run", "native", "halt", or how the process died
  result,   \* what vmRun or vmResume returned last
  dbg,      \* the debugger's frames
  frames    \* history: the methods entered and not yet left

vars == <<mem, vmsp, cpu, acts, mode, result, dbg, frames>>

\* The cells that were allocated.  What lies behind them belongs to others: a
\* word stored there is lost, and a word read there may be any.
Block == 0 .. MaxStack - 1

\* Where the C locals may point: the stack is checked before an opcode, so an
\* opcode may take them behind the block.
Reach == 0 .. MaxStack + Room - 1

Top == frames[Len(frames)]

-----------------------------------------------------------------------------
\* Entering a method

\* The cells above top take the values vals.  What lies above them is left
\* from earlier use; nothing reads it, except locals that a method has not
\* set yet.
Pushed(cells, top, vals) ==
  [ i \in DOMAIN cells |->
      IF i <= top THEN cells[i]
      ELSE IF i - top \in DOMAIN vals THEN vals[i - top]
      ELSE 0 ]

\* Above cell top: the links of a frame (the address to return to, the frame
\* pointer of the caller, the method) and locals that hold anything.
Linked(cells, top, ret, prev, m) ==
  \E locals \in [1 .. NumLocals[m] -> Vals] :
    mem' = Pushed(cells, top, <<ret, prev, m>> \o locals)

RegistersLow(m, top, cp) ==  \* mutant: local 0 one cell too low
  [ sp |-> top + 3 + NumLocals[m], cp |-> cp,
    fp |-> top + 1, pp |-> top + 1 - NumParams[m], lp |-> top + 3,
    numParams |-> NumParams[m], numLocals |-> NumLocals[m], u2 |-> 0 ]

\* The C locals in a method whose links lie above cell top.
Registers(m, top, cp) ==
  [ sp |-> top + 3 + NumLocals[m], cp |-> cp,
    fp |-> top + 1, pp |-> top + 1 - NumParams[m], lp |-> top + 4,
    numParams |-> NumParams[m], numLocals |-> NumLocals[m], u2 |-> 0 ]

\* What is remembered of a frame: where it is, the method, the address to
\* return to, the index of the first frame of the same activation, and the
\* last cell that still belongs to the caller.
Frame(m, top, ret, first, keep) ==
  [ fp |-> top + 1, m |-> m, ret |-> ret, first |-> first, keep |-> keep ]

\* A frame for the debugger, with the id it is sent under and the method of
\* its location; there is one only if there was none.
add_frame_always(m) == Append(dbg, [frameID |-> Len(dbg) + 1, methodID |-> m])  \* mutant

add_frame(m) ==
  IF dbg = <<>> THEN <<[frameID |-> 1, methodID |-> m]>> ELSE dbg

\* vmCallDebug up to the first opcode: the arguments go on the stack, then
\* the links of a frame with no caller.
Activate(cells, sp, m, args, keep) ==
  LET top == sp + Len(args)
  IN  /\ Linked(Pushed(cells, sp, args), top, 0, 0, m)
      /\ \E cp \in Addrs : cpu' = Registers(m, top, cp)
      /\ frames' = Append(frames, Frame(m, top, 0, Len(frames) + 1, keep))
      /\ dbg' = add_frame(m)
      /\ mode' = "run"

\* Where vmEntry puts the stack pointer.
EntrySp == 0

\* vmEntry: the bottom cell is set, main or resume is called with the list
\* of arguments and its length.
vmEntry(m) ==
  /\ vmsp' = EntrySp
  /\ UNCHANGED acts
  /\ IF NumParams[m] = 2
     THEN /\ \E args \in [1 .. 2 -> Vals] :
               Activate([mem EXCEPT ![EntrySp] = -1], EntrySp, m, args, EntrySp)
          /\ UNCHANGED result
     ELSE /\ mem' = [mem EXCEPT ![EntrySp] = -1]
          /\ result' = ERR_INVALID_METHOD_PARAMS
          /\ mode' = "halt"
          /\ UNCHANGED <<cpu, dbg, frames>>

vmRun == mode = "new" /\ vmEntry(main)

vmResume ==
  /\ mode = "halt"
  /\ result \in { ERR_HIBERNATE, ERR_YIELD }
  /\ vmEntry(resume)

-----------------------------------------------------------------------------
\* Before every opcode

\* The opcode finds n operands above the locals.
Operands(n) == cpu.sp - n >= cpu.lp + cpu.numLocals - 1

NullAt(offset) == offset # NoPointer /\ mem[cpu.sp - offset] = NULL

Fetch(checked) ==
  /\ mode = "run"
  /\ cpu.sp < MaxStack
  /\ ~NullAt(checked)

\* vmCallDebug returns: to the caller of vmRun, or to the native that called
\* it, which goes on with the C locals of its own activation.
Leave(res) ==
  /\ frames' = SubSeq(frames, 1, Top.first - 1)
  /\ IF acts = <<>>
     THEN /\ mode' = "halt"
          /\ result' = res
          /\ UNCHANGED <<mem, cpu, acts>>
     ELSE /\ mode' = "native"
          /\ mem' = Pushed(mem, Last(acts).sp, <<>>)
          /\ cpu' = Last(acts)
          /\ acts' = Front(acts)
          /\ UNCHANGED result
  /\ UNCHANGED <<vmsp, dbg>>

\* The C code goes through NULL: the process ends.
Dies(what) ==
  /\ mode' = what
  /\ UNCHANGED <<mem, vmsp, cpu, acts, result, dbg, frames>>

\* The pointer is tested before the stack is, and may be read behind the block.
handleNullPointer ==
  /\ mode = "run"
  /\ \E op \in StorageOps :
       /\ Operands(op.pop)
       /\ cpu.sp - op.checked \in Block => NullAt(op.checked)
  /\ Leave(ERR_NULL_POINTER)

handleStackOverflow ==
  /\ mode = "run"
  /\ cpu.sp >= MaxStack
  /\ Leave(ERR_STACK_OVERFLOW)

\* The links or operands that were stored behind the block were another's
\* memory: the process may end by it, dumpCallStack may follow a wrong link.
Overrun ==
  /\ mode = "run"
  /\ cpu.sp >= MaxStack
  /\ Dies("overrun")

UnknownOpcode == Fetch(NoPointer) /\ Leave(ERR_UNKNOWN_OPCODE)

\* CallNativeVoid does not ask isNativeIdValid.
MissingNative ==
  /\ Fetch(NoPointer)
  /\ Leave(ERR_MISSING_NATIVE) \/ Dies("no native")

-----------------------------------------------------------------------------
\* Opcodes that stay in the method

\* The running method leaves the cells up to sp - pop alone, and the values
\* vals on top of them.
Leaves(pop, vals) ==
  /\ mem' = Pushed(mem, cpu.sp - pop, vals)
  /\ \E cp \in Addrs :
       cpu' = [cpu EXCEPT !.sp = cpu.sp - pop + Len(vals), !.cp = cp]
  /\ UNCHANGED <<vmsp, acts, mode, result, dbg, frames>>

\* An opcode of module Opcodes; one that dereferences NULL ends the process.
Op(op) ==
  /\ Fetch(op.checked)
  /\ Operands(op.pop)
  /\ IF NullAt(op.deref)
     THEN Dies(IF op.checked = NoPointer THEN "null in init" ELSE "null in storage")
     ELSE \E vals \in [1 .. op.push -> Vals] : Leaves(op.pop, vals)

\* Base, length and size of an array: the references are written through the
\* base, none if there are none.
InitArray ==
  /\ Fetch(NoPointer)
  /\ Operands(3)
  /\ IF NullAt(2) /\ mem[cpu.sp - 1] > 0
     THEN Dies("null in init")
     ELSE Leaves(3, <<>>)

\* LoadParam.., LoadLocal..: words w of the size cells from base.
Load(base, size) ==
  /\ Fetch(NoPointer)
  /\ \E w \in {1, 2} : \E i \in 0 .. size - w :
       Leaves(0, [k \in 1 .. w |-> mem[base + i + k - 1]])

\* StoreParam.., StoreLocal..
Store(base, size) ==
  /\ Fetch(NoPointer)
  /\ \E w \in {1, 2} : \E i \in 0 .. size - w :
       /\ Operands(w)
       /\ mem' = Pushed([c \in Block |->
                           IF c - base - i \in 0 .. w - 1
                           THEN mem[c - base - i + cpu.sp - w + 1] ELSE mem[c]],
                        cpu.sp - w, <<>>)
       /\ \E cp \in Addrs : cpu' = [cpu EXCEPT !.sp = cpu.sp - w, !.cp = cp]
  /\ UNCHANGED <<vmsp, acts, mode, result, dbg, frames>>

LoadParam  == Load(cpu.pp, cpu.numParams)
LoadLocal  == Load(cpu.lp, cpu.numLocals)
StoreParam == Store(cpu.pp, cpu.numParams)
StoreLocal == Store(cpu.lp, cpu.numLocals)

-----------------------------------------------------------------------------
\* Calls and returns

\* The label "call": links above the arguments, which end at cell top.
Calls(cells, m, top) ==
  \E ret \in Addrs :
    /\ Linked(cells, top, ret, cpu.fp, m)
    /\ \E cp \in Addrs : cpu' = Registers(m, top, cp)
    /\ frames' = Append(frames, Frame(m, top, ret, Top.first, top - NumParams[m]))
    /\ UNCHANGED <<vmsp, acts, mode, result, dbg>>

Call(m) ==
  /\ Fetch(NoPointer)
  /\ Operands(NumParams[m])
  /\ Calls(mem, m, cpu.sp)

\* `this` is pushed first.
LoadParam0Call(m) ==
  /\ Fetch(NoPointer)
  /\ cpu.numParams >= 1
  /\ NumParams[m] >= 1
  /\ Operands(NumParams[m] - 1)
  /\ Calls(Pushed(mem, cpu.sp, <<mem[cpu.pp]>>), m, cpu.sp + 1)

\* The method is looked up in the vtable of the first argument, which is not
\* tested for NULL.
CallVirtual(m) ==
  /\ Fetch(NoPointer)
  /\ NumParams[m] >= 1
  /\ Operands(NumParams[m])
  /\ IF mem[cpu.sp - NumParams[m] + 1] = NULL
     THEN Dies("null this")
     ELSE Calls(mem, m, cpu.sp)

\* What is written to vm->sp before a native with n parameters is called.
SavedSpNext(n) == cpu.sp + 1  \* mutant: the first free cell

SavedSpForgotten(n) == vmsp  \* mutant: nothing

SavedSpBelow(n) == cpu.sp - n  \* mutant: as if its parameters were popped

SavedSp(n) == cpu.sp

\* CallNative, CallNativeWide and CallNativeVoid up to the call.
CallNative(n) ==
  /\ Fetch(NoPointer)
  /\ Operands(n)
  /\ vmsp' = SavedSp(n)
  /\ cpu' = [cpu EXCEPT !.u2 = n]
  /\ mode' = "native"
  /\ UNCHANGED <<mem, acts, result, dbg, frames>>

\* The native calls vm->call.
NativeCalls(m) ==
  /\ mode = "native"
  /\ acts' = Append(acts, cpu)
  /\ \E args \in [1 .. NumParams[m] -> Vals] : Activate(mem, vmsp, m, args, cpu.sp)
  /\ UNCHANGED <<vmsp, result>>

\* The native returns no word, one or two, which take the place of its
\* parameters.
NativeReturns ==
  /\ mode = "native"
  /\ \E r \in 0 .. 2 : \E vals \in [1 .. r -> Vals] :
       /\ mem' = Pushed(mem, cpu.sp - cpu.u2, vals)
       /\ \E cp \in Addrs :
            cpu' = [cpu EXCEPT !.sp = cpu.sp - cpu.u2 + r, !.cp = cp, !.u2 = 0]
  /\ mode' = "run"
  /\ UNCHANGED <<vmsp, acts, result, dbg, frames>>

\* The cell below the parameters of the running method.
BelowLinks == cpu.fp - 1  \* mutant: the parameters are not popped

BelowParams == cpu.fp - cpu.numParams - 1

\* The method of the calling frame, read through the link to it.
OwnMethod == mem[cpu.fp + 2]  \* mutant: read before fp is put back

CallersMethod == mem[mem[cpu.fp + 1] + 2]

\* ReturnVoid, ReturnPop and ReturnPopWide, for r = 0, 1 and 2: the result
\* takes the place of the parameters, the C locals are read back from the
\* links.
Return(r) ==
  /\ Fetch(NoPointer)
  /\ Operands(r)
  /\ LET vals   == [k \in 1 .. r |-> mem[cpu.sp - r + k]]
         below  == BelowParams
         ret    == mem[cpu.fp]
         caller == mem[cpu.fp + 1]
     IN  IF ret = 0
         THEN Leave(CASE r = 0 -> mem[below] [] r = 1 -> vals[1] [] r = 2 -> 0)
         ELSE /\ mem' = Pushed(mem, below, vals)
              /\ cpu' = [ Registers(CallersMethod, caller - 1, ret) EXCEPT !.sp = below + r ]
              /\ frames' = Front(frames)
              /\ UNCHANGED <<vmsp, acts, mode, result, dbg>>

-----------------------------------------------------------------------------
Init ==
  /\ mem = [i \in Block |-> 0]
  /\ vmsp = 0
  /\ cpu = [sp |-> 0, cp |-> 0, fp |-> 0, pp |-> 0, lp |-> 0,
            numParams |-> 0, numLocals |-> 0, u2 |-> 0]
  /\ acts = <<>>
  /\ mode = "new"
  /\ result = 0
  /\ dbg = <<>>
  /\ frames = <<>>

Enter == vmRun \/ vmResume

Fail ==
  \/ handleNullPointer
  \/ handleStackOverflow
  \/ Overrun
  \/ UnknownOpcode
  \/ MissingNative

Move == LoadParam \/ LoadLocal \/ StoreParam \/ StoreLocal

Next ==
  \/ Enter
  \/ Fail
  \/ \E op \in Ops : Op(op)
  \/ InitArray
  \/ Move
  \/ \E m \in Methods : Call(m) \/ LoadParam0Call(m) \/ CallVirtual(m) \/ NativeCalls(m)
  \/ \E n \in NativeParams : CallNative(n)
  \/ NativeReturns
  \/ \E r \in 0 .. 2 : Return(r)

Spec == Init /\ [][Next]_vars

-----------------------------------------------------------------------------
\* Properties

Cpu ==
  [ sp : Reach, cp : Nat, fp : Reach, pp : Reach, lp : Nat,
    numParams : Nat, numLocals : Nat, u2 : Nat ]

Died == { "null in storage", "null in init", "null this", "no native", "overrun" }

\* The block holds words, the C locals point into it or one frame behind it,
\* and there is a frame while a method runs.
TypeOK ==
  /\ mem \in [Block -> Int]
  /\ vmsp \in Block
  /\ cpu \in Cpu
  /\ acts \in Seq(Cpu)
  /\ mode \in { "new", "run", "native", "halt" } \cup Died
  /\ result \in Int
  /\ frames \in Seq([ fp : Reach, m : Methods, ret : Nat, first : Nat, keep : Block ])
  /\ (mode \in { "run", "native" }) => frames # <<>>

\* However calls, returns, callbacks and failed callbacks follow each other,
\* the C locals are those of the method entered last and not yet left.  A
\* return reads them back from the links, so this is what the links are for.
LocalsOfTopFrame ==
  mode \in { "run", "native" } =>
    /\ cpu.fp = Top.fp
    /\ cpu.numParams = NumParams[Top.m]
    /\ cpu.numLocals = NumLocals[Top.m]
    /\ cpu.pp = Top.fp - NumParams[Top.m]
    /\ cpu.lp = Top.fp + 3

\* The links of every frame in the block are still those its call wrote:
\* nothing a method, a native or a callback does overwrites them, and the
\* chain that dumpCallStack follows ends at the first method of the
\* activation.
LinksIntact ==
  \A k \in 1 .. Len(frames) :
    LET f == frames[k]
    IN  f.fp + 2 \in Block =>
          /\ mem[f.fp] = f.ret
          /\ mem[f.fp + 1] = IF k = f.first THEN 0 ELSE frames[k - 1].fp
          /\ mem[f.fp + 2] = f.m

\* The cells of a method that waits for a call or for a native's callback
\* (its parameters, its locals, the temporaries the callee does not take)
\* keep their values until it goes on, or is abandoned with its activation.
CallersKeepTheirCells ==
  [][ \A k \in 1 .. Len(frames) - 1 : k <= Len(frames') =>
        \A i \in frames[k].fp - NumParams[frames[k].m] .. frames[k + 1].keep :
          mem'[i] = mem[i] ]_vars

\* A method goes on behind the call it made, with its temporaries below the
\* arguments and at most two words of result.
ReturnsToItsCall ==
  [][ (mode = "run" /\ mode' = "run" /\ Len(frames') < Len(frames)) =>
        /\ cpu'.cp = Top.ret
        /\ cpu'.sp \in Top.keep .. Top.keep + 2 ]_vars

\* A callback never starts below what its caller still uses, although vm->sp
\* is written only by CallNative and is not put back when a callback ends.
CallbackStartsAbove == mode = "native" => vmsp >= cpu.sp

\* Where the table of pointer offsets has an entry for an opcode, it names the
\* very cell the opcode goes through: such an opcode never meets a NULL.
StorageNeverNull == mode # "null in storage"

\* What the debugger is sent as the call stack (Frames, FrameCount) is one
\* frame, the first entry's: calls and callbacks never add one, and after
\* vmResume, when the stack starts with another method, it is still main's.
DebuggerSeesMain ==
  frames # <<>> =>
    /\ dbg = <<[frameID |-> 1, methodID |-> main]>>
    /\ frames[1].m = IF result = 0 THEN main ELSE resume

=============================================================================
