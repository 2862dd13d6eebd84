------------------------------- MODULE Opcodes -------------------------------
(***************************************************************************)
(* What the opcodes of the Sedona image do to the stack.  An opcode that   *)
(* neither calls, nor returns, nor touches a parameter or a local is the   *)
(* number of words it takes from the stack and the number it leaves there; *)
(* which value it computes is left open.  Opcodes with the same effect are *)
(* one member of a set.  An opcode that goes through a pointer also says   *)
(* which cell it dereferences, and which cell, if any, the interpreter     *)
(* tests for NULL before it runs the opcode (the table of scode.h).        *)
(***************************************************************************)
EXTENDS Integers

NoPointer == -1

\* An effect that dereferences nothing.
Eff(pop, push) ==
  [pop |-> pop, push |-> push, deref |-> NoPointer, checked |-> NoPointer]

Literals == { Eff(0, 0), Eff(0, 1), Eff(0, 2) }

IntOps == { Eff(2, 1), Eff(1, 1) }

\* Comparisons of two wide values leave one word, shifts take one word.
LongOps == { Eff(4, 1), Eff(4, 2), Eff(2, 2), Eff(3, 2) }

FloatOps == { Eff(2, 1), Eff(1, 1) }

DoubleOps == { Eff(4, 1), Eff(4, 2), Eff(2, 2) }

ObjOps == { Eff(2, 1) }

ZeroTests == { Eff(1, 1) }

Casts == { Eff(2, 1), Eff(1, 1), Eff(1, 2), Eff(2, 2) }

\* Dup, Dup2, DupDown2, DupDown3, Dup2Down2, Dup2Down3, Pop, Pop2, Pop3.
StackOps ==
  { Eff(1, 2), Eff(2, 4), Eff(2, 3), Eff(3, 4), Eff(3, 5), Eff(4, 6),
    Eff(1, 0), Eff(2, 0), Eff(3, 0) }

\* Foreach leaves array, length and counter, and pushes array and counter
\* when it does not leave the loop.
NearJumps == { Eff(0, 0), Eff(1, 0), Eff(3, 3), Eff(3, 5) }

FarJumps == NearJumps

IntJumps == { Eff(2, 0) }

FarIntJumps == IntJumps

\* The addresses of static data and of inline fields of `this`.
DataAddrs == { Eff(0, 1) }

\* Assert and Switch, MetaSlot.
MiscOps == { Eff(1, 0), Eff(0, 0) }

\* InitVirt and InitComp store through the pointer on top of the stack, for
\* which the table has no entry.  (InitArray: see module CallStack.)
InitOps == { [pop |-> 1, push |-> 0, deref |-> 0, checked |-> NoPointer] }

-----------------------------------------------------------------------------
\* Opcodes that go through a pointer: fields and elements of one word (8, 16
\* and 32 bits, references, constants) or of two (64 bits), and the addresses
\* of inline fields and of elements.
Access == { "LoadField", "StoreField", "LoadArray", "StoreArray", "Add", "LoadInline" }

OffsetsOfWords(access, words) ==  \* mutant: 64-bit fields as those of one word
  CASE access \in { "LoadField", "LoadInline" }         -> 0
    [] access \in { "LoadArray", "Add", "StoreField" }  -> 1
    [] access = "StoreArray"                            -> 2

\* OpcodePointerOffsets: how far below sp lies the cell tested for NULL.
OpcodePointerOffsets(access, words) ==
  CASE access \in { "LoadField", "LoadInline" } -> 0
    [] access \in { "LoadArray", "Add" }        -> 1
    [] access = "StoreField"                    -> IF words = 2 THEN 2 ELSE 1
    [] access = "StoreArray"                    -> IF words = 2 THEN 3 ELSE 2

\* The value, if the opcode takes one, lies above the index, if it takes one,
\* and both above the pointer.
Storage(access, words) ==
  LET value == IF access \in { "StoreField", "StoreArray" } THEN words ELSE 0
      index == IF access \in { "LoadArray", "StoreArray", "Add" } THEN 1 ELSE 0
  IN  [ pop     |-> 1 + index + value,
        push    |-> CASE access \in { "LoadField", "LoadArray" } -> words
                      [] access \in { "Add", "LoadInline" }      -> 1
                      [] OTHER                                   -> 0,
        deref   |-> index + value,
        checked |-> OpcodePointerOffsets(access, words) ]

StorageOps == { Storage(access, words) : access \in Access, words \in {1, 2} }

Ops ==
  UNION { Literals, IntOps, LongOps, FloatOps, DoubleOps, ObjOps, ZeroTests, Casts,
          StackOps, NearJumps, FarJumps, IntJumps, FarIntJumps, DataAddrs, MiscOps,
          InitOps, StorageOps }
=============================================================================
