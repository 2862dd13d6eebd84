--------------------------- MODULE MCDebugSession ---------------------------
(* Instances of DebugSession for TLC: the packets each run lets the        *)
(* debugger send.                                                          *)
EXTENDS DebugSession

Kinds == {"THREAD_START", "BREAKPOINT", "CLASS_PREPARE", "EXCEPTION"}
Muted == {"EXCEPTION"}

Op(op) == [op |-> op]
Set(kind, policy) ==
  [op |-> "ER_Set", kind |-> kind, policy |-> policy, mod |-> "none", writes |-> TRUE]
Clear(kind, id) == [op |-> "ER_Clear", kind |-> kind, id |-> id]

\* Every call on the counter, the hold flag or the process, and requests that
\* are set, cleared and reported meanwhile.  Of handlers that make the same
\* calls there is one: VM_Exit for those that end the process, TR_Status for
\* those that answer.
SessionCommands ==
  {Op("VM_Suspend"), Op("VM_Resume"), Op("VM_HoldEvents"), Op("VM_ReleaseEvents"),
   Op("VM_Exit"), Op("ER_ClearAllBreakpoints"), Clear("BREAKPOINT", 1),
   Set("THREAD_START", "ALL"), Set("BREAKPOINT", "NONE"), Set("EXCEPTION", "ALL"),
   [op |-> "TR_ForceEarlyReturn", app |-> TRUE, badTag |-> TRUE]}
  \cup {[op |-> op, app |-> TRUE] :
           op \in {"TR_Suspend", "TR_Resume", "TR_Status", "TR_SuspendCount"}}

\* Requests of every shape, removals that match and that do not, and the
\* resume that sends THREAD_START.
RequestCommands ==
  {Set("THREAD_START", "ALL"), Set("THREAD_START", "NONE"), Set("BREAKPOINT", "NONE"),
   Set("BREAKPOINT", "EVENT_THREAD"), Set("EXCEPTION", "ALL"),
   [op |-> "ER_Set", kind |-> "CLASS_PREPARE", policy |-> "ALL", mod |-> "unknownClass",
    writes |-> TRUE],
   [op |-> "ER_Set", kind |-> "BREAKPOINT", policy |-> "ALL", mod |-> "exceptionOnly",
    writes |-> TRUE],
   Clear("BREAKPOINT", 1), Clear("BREAKPOINT", 2), Clear("THREAD_START", 1),
   Op("ER_ClearAllBreakpoints"), Op("VM_HoldEvents"), Op("VM_ReleaseEvents"),
   [op |-> "TR_Resume", app |-> TRUE]}

SuspendCommands == {Op("VM_Suspend"), Op("VM_Resume")}

ResumeCommands == {Op("VM_Resume")}

=============================================================================
