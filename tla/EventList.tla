----------------------------- MODULE EventList -----------------------------
(***************************************************************************)
(* The list of event requests of jdwp/eventDispatcher.c (EventRequestList, *)
(* EventRequestBuff) and the operations made on it while MUTEX_T is held.  *)
(*                                                                         *)
(* A request lives on the heap for as long as the process does (nothing    *)
(* frees one), so a request is a handle into the sequence er of request    *)
(* records and the list L is a sequence of handles, its head first.        *)
(*                                                                         *)
(* init_eventDispatcher sets eList->size and leaves eList->head as malloc  *)
(* returned it.  Walks that count size never look at the end of the list;  *)
(* walks that stop at NULL do.  The flag terminated says whether the last  *)
(* node's next (the head, when the list is empty) is NULL; where it is     *)
(* not, a walk that reaches the end dereferences garbage and the process   *)
(* crashes.                                                                *)
(***************************************************************************)
EXTENDS Naturals, Sequences, SequencesExt

CONSTANTS
  EventKinds,  \* event kinds a debugger asks for
  MutedKinds   \* kinds ER_Set stores with triggered = FALSE

ASSUME KindsAssumption ==
  /\ MutedKinds \subseteq EventKinds
  /\ {"THREAD_START", "BREAKPOINT"} \subseteq EventKinds \ MutedKinds

\* Suspend policies: SP_NONE, SP_EVENT_THREAD, SP_ALL.
Policies == {"NONE", "EVENT_THREAD", "ALL"}

(***************************************************************************)
(* An EventRequest.  writes says whether internalDispatch puts any bytes   *)
(* into the request's packet: it does not for the kinds whose case is      *)
(* empty, nor for a CLASS_PREPARE of a class the VM does not know.  Which  *)
(* bytes, and its loop over the modifiers, are left out, and with them     *)
(* what its cases look up: VM_DEATH and THREAD_END ask whether the VM is   *)
(* suspended, CLASS_UNLOAD follows the class of its modifier unchecked.    *)
(***************************************************************************)
EventRequest ==
  [id : Nat, kind : EventKinds, policy : Policies,
   writes : BOOLEAN, triggered : BOOLEAN, isremoved : BOOLEAN]

\* The test the VM thread makes of every request at every opcode.
Pending(e) == ~e.isremoved /\ e.triggered

\* Handles in list L whose request is to be reported.
PendingIn(er, L) == {h \in ToSet(L) : Pending(er[h])}

\* A pass that takes the requests of every policy.
get_by_anyPolicy(er, L, policy) == PendingIn(er, L)

\* get_by_suspendPolicy: the handles one pass of it takes from the list.
get_by_suspendPolicy(er, L, policy) ==
  {h \in PendingIn(er, L) : er[h].policy = policy}

\* The flags left as they were.
ReportedUnflagged(er, taken) == er

\* The flags set only for the requests whose packet has bytes.
ReportedIfWritten(er, taken) ==
  [h \in DOMAIN er |->
     IF h \in taken /\ er[h].writes
     THEN [er[h] EXCEPT !.triggered = FALSE, !.isremoved = TRUE]
     ELSE er[h]]

\* The flags of every request a pass took.
Reported(er, taken) ==
  [h \in DOMAIN er |->
     IF h \in taken
     THEN [er[h] EXCEPT !.triggered = FALSE, !.isremoved = TRUE]
     ELSE er[h]]

\* The handles of a pass whose packet has bytes (offset > 0): the others are
\* dropped from the composite though they are flagged as reported.
Composite(er, taken) == {h \in taken : er[h].writes}

-----------------------------------------------------------------------------
(* internal_remove                                                         *)

HeadMatches(er, L, kind, id) ==
  /\ L # <<>>
  /\ er[L[1]].id = id
  /\ er[L[1]].kind = kind

\* The loop compares the id of the next node but the kind of the current one.
LaterMatches(er, L, kind, id) ==
  {i \in 2 .. Len(L) : er[L[i]].id = id /\ er[L[i - 1]].kind = kind}

\* The node at which the loop stops.
FirstLater(er, L, kind, id) ==
  {i \in LaterMatches(er, L, kind, id) : \A j \in LaterMatches(er, L, kind, id) : i <= j}

\* A match at the head empties the whole list.
internal_remove(er, L, kind, id) ==
  IF HeadMatches(er, L, kind, id) THEN <<>>
  ELSE IF FirstLater(er, L, kind, id) # {}
       THEN RemoveAt(L, CHOOSE i \in FirstLater(er, L, kind, id) : TRUE)
       ELSE L

\* The list is empty, or the walk runs off the end of a list without NULL.
internal_remove_crashes(er, L, terminated, kind, id) ==
  \/ L = <<>>
  \/ /\ ~HeadMatches(er, L, kind, id)
     /\ LaterMatches(er, L, kind, id) = {}
     /\ ~terminated

\* eList->head = NULL is the only assignment that ends the list with NULL.
internal_remove_terminates(er, L, terminated, kind, id) ==
  terminated \/ HeadMatches(er, L, kind, id)

-----------------------------------------------------------------------------
(* removeAll_EventRequests_byKind                                          *)

OfKind(er, L, kind) == {i \in DOMAIN L : er[L[i]].kind = kind}

FirstOfKind(er, L, kind) == L[Min(OfKind(er, L, kind))]

=============================================================================
