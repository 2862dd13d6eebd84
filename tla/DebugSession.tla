---------------------------- MODULE DebugSession ----------------------------
(***************************************************************************)
(* A debug session of the Sedona VM: the two threads of the process and    *)
(* the state they share.                                                   *)
(*                                                                         *)
(*   "vm"    the VM thread: it waits for the handshake, then interprets    *)
(*           opcodes (vmCallDebug); before every opcode it looks for       *)
(*           pending event requests and, while the suspend counter is not  *)
(*           zero, reports them.                                           *)
(*   "jdwp"  the JDWP thread: handshake, then one command packet after     *)
(*           another (onHandShake, onReceive, onCommand).                  *)
(*                                                                         *)
(* A thread is the program counter pc of its own loop and the sequence     *)
(* todo of the calls it still has to make before that loop goes on.  A     *)
(* handler is the sequence of the calls it makes, in the code's order.  A  *)
(* call that reads a shared variable and writes it later is several        *)
(* steps: sub says how far the call at the head of todo is, tmp holds what *)
(* it read.  A critical section of the event list's mutex touches nothing  *)
(* the other thread reads outside that mutex in more than one place, and   *)
(* is one step.                                                            *)
(***************************************************************************)
EXTENDS EventList, FiniteSets

CONSTANTS
  CounterMod,    \* 2^8: suspendCounter is a u1
  MaxCommands,   \* bound: packets the debugger sends in a session
  MaxExceptions, \* bound: null pointers and stack overflows of a session
  Commands       \* the packets the debugger may send

Threads == {"vm", "jdwp"}
Nobody  == "nobody"

Mods == {"none", "unknownClass", "exceptionOnly"}

\* The packets of a session.  Query stands for every command whose handler
\* answers with one packet and changes none of the state below (unknown and
\* unimplemented commands, and reply packets, included); Silent for those
\* that send nothing at all; Short for a length below the header's.
Command ==
       [op : {"VM_Suspend", "VM_Resume", "VM_Exit", "VM_Dispose", "VM_HoldEvents",
              "VM_ReleaseEvents", "TR_Kill", "ER_ClearAllBreakpoints",
              "Query", "Silent", "Short"}]
  \cup [op : {"TR_Suspend", "TR_Resume", "TR_Status", "TR_SuspendCount"}, app : BOOLEAN]
  \cup [op : {"TR_ForceEarlyReturn"}, app : BOOLEAN, badTag : BOOLEAN]
  \cup [op : {"ER_Set"}, kind : EventKinds, policy : Policies, mod : Mods, writes : BOOLEAN]
  \cup [op : {"ER_Clear"}, kind : EventKinds, id : Nat]

ASSUME SessionAssumption ==
  /\ CounterMod \in Nat \ {0, 1}
  /\ MaxCommands \in Nat
  /\ MaxExceptions \in Nat
  /\ Commands \subseteq Command

VARIABLES
  alive,                \* the process runs
  init_jdwp,            \* set once the handshake is done
  suspendCounter,
  HOLD_EVENTS,
  er,                   \* every request ER_Set made, in the order it made them
  eList,                \* the event list: handles into er, head first
  terminated,           \* the list ends with NULL (module EventList)
  erTHREAD_START,       \* _erTHREAD_START: a handle, or 0 for NULL
  eventRequestid_count,
  PACKET_ID_UNIQUE,
  idMutex,              \* owner of packetHandler's MUTEX_T
  pc, todo, sub, tmp,   \* the threads
  mpacket,              \* _MPacket: number of the packet in hand, 0 for NULL
  commands,             \* number of packets received so far
  exceptions,           \* number of exceptions the VM thread met so far
  events,               \* history: the event packets sent
  replies               \* history: the reply and error packets sent

list    == <<er, eList, terminated, erTHREAD_START>>
threads == <<pc, todo, sub, tmp>>
counts  == <<mpacket, commands, exceptions>>
wire    == <<events, replies>>
ids     == <<PACKET_ID_UNIQUE, idMutex>>
flags   == <<alive, init_jdwp, HOLD_EVENTS>>
vars == <<flags, suspendCounter, list, eventRequestid_count, ids, threads, counts, wire>>

-----------------------------------------------------------------------------
(* The calls a thread makes                                                *)

Suspend         == [op |-> "suspend"]
Resume          == [op |-> "resume"]
Exit            == [op |-> "exit"]
NewEvent(e)     == [op |-> "newEvent", req |-> e]
Reply(n, what)  == [op |-> "reply", n |-> n, what |-> what, val |-> 0]
Answer(n, what, v) == [op |-> "reply", n |-> n, what |-> what, val |-> v]
Error(n)        == [op |-> "reply", n |-> n, what |-> "error", val |-> 0]
Send(src, policy, taken) ==
  [op |-> "send", src |-> src, policy |-> policy, reqs |-> taken]
Do(op, n)       == [op |-> op, n |-> n]

NoRequest == [id |-> 0, kind |-> "BREAKPOINT", policy |-> "ALL", writes |-> TRUE,
              triggered |-> TRUE, isremoved |-> FALSE]

Sources == {"VM_INIT", "EXCEPTION", "THREAD_START", "ALL"}

\* What a reply packet answers.
Whats == {"error", "VM_Suspend", "VM_Resume", "VM_Exit", "TR_Suspend", "TR_Resume",
          "TR_Status", "TR_SuspendCount", "ER_Set", "ER_Clear", "Query"}

Call ==
       [op : {"suspend", "resume", "exit", "noteStart", "insert"}]
  \cup [op : {"newEvent"}, req : EventRequest]
  \cup [op : {"reply"}, n : Nat, what : Whats, val : Nat]
  \cup [op : {"send"}, src : Sources, policy : Policies, reqs : SUBSET Nat]
  \cup [op : {"status", "count", "readCount", "startIfLast", "replyId", "hold", "mark",
              "removeAll"}, n : Nat]
  \cup [op : {"forceEarly"}, n : Nat, app : BOOLEAN, badTag : BOOLEAN]
  \cup [op : {"remove"}, kind : EventKinds, id : Nat]

-----------------------------------------------------------------------------
(* Handlers: the calls each makes for packet number n                      *)

onSend_CS_VM_Suspend(n) == <<Suspend, Reply(n, "VM_Suspend")>>

\* The reply leaves before the counter goes down.
onSend_CS_VM_Resume(n) == <<Reply(n, "VM_Resume"), Resume>>

onSend_CS_VM_Exit(n) == <<Reply(n, "VM_Exit"), Exit>>

\* error_exit: the socket is closed and the process ends.
onSend_CS_VM_Dispose == <<Exit>>

onSend_CS_VM_HoldEvents    == <<Do("hold", 1)>>
onSend_CS_VM_ReleaseEvents == <<Do("hold", 0)>>

onSend_CS_TR_Suspend(c, n) ==
  IF c.app THEN <<Reply(n, "TR_Suspend"), Suspend>> ELSE <<Error(n)>>

onSend_CS_TR_Resume(c, n) ==
  IF c.app THEN <<Do("startIfLast", n), Resume, Reply(n, "TR_Resume")>>
           ELSE <<Error(n)>>

\* Asking for the status of the application thread suspends it first; for
\* another known thread the answer is RUNNING.
onSend_CS_TR_Status(c, n) ==
  IF c.app THEN <<Suspend, Do("status", n)>> ELSE <<Reply(n, "TR_Status")>>

onSend_CS_TR_SuspendCount(c, n) ==
  IF c.app THEN <<Do("count", n)>> ELSE <<Reply(n, "TR_SuspendCount")>>

\* TR_Stop and TR_Interrupt end the process, unanswered.
onSend_CS_TR_Stop == <<Exit>>

onSend_CS_TR_ForceEarlyReturn(c, n) ==
  <<[op |-> "forceEarly", n |-> n, app |-> c.app, badTag |-> c.badTag]>>

(***************************************************************************)
(* ER_Set builds the request, answers INVALID_CLASS at once for a class    *)
(* pattern that names no class, adds the request to the list unless an     *)
(* ExceptionOnly modifier has marked it removed, and only then sends the   *)
(* reply that tells the debugger the request's id.                         *)
(***************************************************************************)
RequestOf(c) ==
  [id |-> 0, kind |-> c.kind, policy |-> c.policy,
   writes |-> c.writes /\ c.mod # "unknownClass",
   triggered |-> c.kind \notin MutedKinds /\ c.mod # "exceptionOnly",
   isremoved |-> c.mod = "exceptionOnly"]

add_EventRequest(e) ==
  IF e.kind = "THREAD_START"
  THEN <<[op |-> "noteStart"], [op |-> "insert"]>>
  ELSE <<[op |-> "insert"]>>

onSend_CS_ER_Set(c, n) ==
  <<NewEvent(RequestOf(c))>>
  \o (IF c.mod = "unknownClass" THEN <<Error(n)>> ELSE <<>>)
  \o (IF c.mod = "exceptionOnly" THEN <<>> ELSE add_EventRequest(RequestOf(c)))
  \o <<Do("replyId", n)>>

onSend_CS_ER_Clear(c, n) ==
  <<[op |-> "remove", kind |-> c.kind, id |-> c.id], Reply(n, "ER_Clear")>>

onSend_CS_ER_ClearAllBreakpoints(n) == <<Do("removeAll", n)>>

\* The id of a Short packet's answer is read from the packet in hand, the one
\* before it; where there is none the read is through NULL.
shortPacket(n) == IF n = 0 THEN <<Exit>> ELSE <<Error(n)>>

onCommand(c, n) ==
  CASE c.op = "VM_Suspend"             -> onSend_CS_VM_Suspend(n)
    [] c.op = "VM_Resume"              -> onSend_CS_VM_Resume(n)
    [] c.op = "VM_Exit"                -> onSend_CS_VM_Exit(n)
    [] c.op = "VM_Dispose"             -> onSend_CS_VM_Dispose
    [] c.op = "VM_HoldEvents"          -> onSend_CS_VM_HoldEvents
    [] c.op = "VM_ReleaseEvents"       -> onSend_CS_VM_ReleaseEvents
    [] c.op = "TR_Suspend"             -> onSend_CS_TR_Suspend(c, n)
    [] c.op = "TR_Resume"              -> onSend_CS_TR_Resume(c, n)
    [] c.op = "TR_Status"              -> onSend_CS_TR_Status(c, n)
    [] c.op = "TR_SuspendCount"        -> onSend_CS_TR_SuspendCount(c, n)
    [] c.op = "TR_Kill"                -> onSend_CS_TR_Stop
    [] c.op = "TR_ForceEarlyReturn"    -> onSend_CS_TR_ForceEarlyReturn(c, n)
    [] c.op = "ER_Set"                 -> onSend_CS_ER_Set(c, n)
    [] c.op = "ER_Clear"               -> onSend_CS_ER_Clear(c, n)
    [] c.op = "ER_ClearAllBreakpoints" -> onSend_CS_ER_ClearAllBreakpoints(n)
    [] c.op = "Query"                  -> <<Reply(n, "Query")>>
    [] c.op = "Silent"                 -> <<>>
    [] c.op = "Short"                  -> shortPacket(n)

\* dispatchEvent, for the request of handle h: suspend, flag, send at once.
dispatchEvent(h) ==
  (IF er[h].policy # "NONE" THEN <<Suspend>> ELSE <<>>)
  \o <<Do("mark", h), Send("THREAD_START", er[h].policy, {h})>>

-----------------------------------------------------------------------------
(* Steps common to both threads                                            *)

\* Thread t is at step at of a call of the given name.
At(t, op, at) ==
  /\ alive
  /\ todo[t] # <<>>
  /\ Head(todo[t]).op = op
  /\ sub[t] = at

Idle(t, label) == alive /\ todo[t] = <<>> /\ pc[t] = label

\* The call at the head of todo[t] is replaced by the calls it turns into; what
\* it had read is dropped.
Become(t, calls) ==
  /\ todo' = [todo EXCEPT ![t] = calls \o Tail(@)]
  /\ sub' = [sub EXCEPT ![t] = "idle"]
  /\ tmp' = [tmp EXCEPT ![t] = 0]

Return(t) == Become(t, <<>>)

\* The call at the head of todo[t] has read v.
Load(t, v) ==
  /\ tmp' = [tmp EXCEPT ![t] = v]
  /\ sub' = [sub EXCEPT ![t] = "loaded"]

\* A counter wider than its u1, for comparison with SuspendStore.
SuspendStoreUnbounded(t) ==
  /\ At(t, "suspend", "loaded")
  /\ suspendCounter' = tmp[t] + 1
  /\ Return(t)
  /\ UNCHANGED <<flags, list, eventRequestid_count, ids, pc, counts, wire>>

\* onVM_Suspend: suspendCounter++, a load and a store.
SuspendLoad(t) ==
  /\ At(t, "suspend", "idle")
  /\ Load(t, suspendCounter)
  /\ UNCHANGED <<flags, suspendCounter, list, eventRequestid_count, ids, pc, todo,
                 counts, wire>>

SuspendStore(t) ==
  /\ At(t, "suspend", "loaded")
  /\ suspendCounter' = (tmp[t] + 1) % CounterMod
  /\ Return(t)
  /\ UNCHANGED <<flags, list, eventRequestid_count, ids, pc, counts, wire>>

\* onVM_Resume: its guard compares the address of the function suspendCount
\* with 0, so the counter always goes down, and 0 becomes 255.
ResumeLoad(t) ==
  /\ At(t, "resume", "idle")
  /\ Load(t, suspendCounter)
  /\ UNCHANGED <<flags, suspendCounter, list, eventRequestid_count, ids, pc, todo,
                 counts, wire>>

\* The guard of onVM_Resume never met: nothing is ever resumed.
ResumeStoreNever(t) ==
  /\ At(t, "resume", "loaded")
  /\ UNCHANGED suspendCounter
  /\ Return(t)
  /\ UNCHANGED <<flags, list, eventRequestid_count, ids, pc, counts, wire>>

ResumeStore(t) ==
  /\ At(t, "resume", "loaded")
  /\ suspendCounter' = (tmp[t] + CounterMod - 1) % CounterMod
  /\ Return(t)
  /\ UNCHANGED <<flags, list, eventRequestid_count, ids, pc, counts, wire>>

\* newEventRequest: the id is eventRequestid_count++, under no lock.
NewEventLoad(t) ==
  /\ At(t, "newEvent", "idle")
  /\ Load(t, eventRequestid_count)
  /\ UNCHANGED <<flags, suspendCounter, list, eventRequestid_count, ids, pc, todo,
                 counts, wire>>

\* The id handed out and the count left as it was.
NewEventStoreSameId(t) ==
  /\ At(t, "newEvent", "loaded")
  /\ er' = IF t = "jdwp"
           THEN Append(er, [Head(todo[t]).req EXCEPT !.id = tmp[t]])
           ELSE er
  /\ Return(t)
  /\ UNCHANGED <<flags, suspendCounter, eList, terminated, erTHREAD_START,
                 eventRequestid_count, ids, pc, counts, wire>>

\* The VM thread's request never reaches the list; its id is set to 0.
NewEventStore(t) ==
  /\ At(t, "newEvent", "loaded")
  /\ eventRequestid_count' = tmp[t] + 1
  /\ er' = IF t = "jdwp"
           THEN Append(er, [Head(todo[t]).req EXCEPT !.id = tmp[t]])
           ELSE er
  /\ Return(t)
  /\ UNCHANGED <<flags, suspendCounter, eList, terminated, erTHREAD_START, ids, pc,
                 counts, wire>>

\* gen_packetID without its mutex.
GenIdLoadUnlocked(t) ==
  /\ At(t, "send", "idle")
  /\ tmp' = [tmp EXCEPT ![t] = PACKET_ID_UNIQUE]
  /\ sub' = [sub EXCEPT ![t] = "idLoaded"]
  /\ UNCHANGED <<flags, suspendCounter, list, eventRequestid_count, ids,
                 pc, todo, counts, wire>>

\* newCommandPacket takes the next packet id under its mutex (gen_packetID).
GenIdLoad(t) ==
  /\ At(t, "send", "idle")
  /\ idMutex = Nobody
  /\ idMutex' = t
  /\ tmp' = [tmp EXCEPT ![t] = PACKET_ID_UNIQUE]
  /\ sub' = [sub EXCEPT ![t] = "idLoaded"]
  /\ UNCHANGED <<flags, suspendCounter, list, eventRequestid_count, PACKET_ID_UNIQUE,
                 pc, todo, counts, wire>>

GenIdStore(t) ==
  /\ At(t, "send", "idLoaded")
  /\ PACKET_ID_UNIQUE' = tmp[t] + 1
  /\ idMutex' = Nobody
  /\ sub' = [sub EXCEPT ![t] = "idReady"]
  /\ UNCHANGED <<flags, suspendCounter, list, eventRequestid_count, pc, todo, tmp,
                 counts, wire>>

\* jdwpSend of a command packet: no lock orders it with the other thread's.
SendEvent(t) ==
  /\ At(t, "send", "idReady")
  /\ LET c == Head(todo[t])
     IN events' = Append(events, [id |-> tmp[t], src |-> c.src,
                                  policy |-> c.policy, reqs |-> c.reqs])
  /\ Return(t)
  /\ UNCHANGED <<flags, suspendCounter, list, eventRequestid_count, ids, pc,
                 counts, replies>>

-----------------------------------------------------------------------------
(* The JDWP thread                                                         *)

\* exit and error_exit end the process.
ExitProcess(t) ==
  /\ At(t, "exit", "idle")
  /\ alive' = FALSE
  /\ Return(t)
  /\ UNCHANGED <<init_jdwp, HOLD_EVENTS, suspendCounter, list, eventRequestid_count,
                 ids, pc, counts, wire>>

\* The VM thread let go with the handshake, the VM_INIT event still to send.
onHandShakeReleasing ==
  /\ Idle("jdwp", "handshake")
  /\ init_jdwp' = TRUE
  /\ todo' = [todo EXCEPT !["jdwp"] = <<Send("VM_INIT", "NONE", {})>>]
  /\ pc' = [pc EXCEPT !["jdwp"] = "recv"]
  /\ UNCHANGED <<alive, HOLD_EVENTS, suspendCounter, list, eventRequestid_count,
                 ids, sub, tmp, counts, wire>>

\* onHandShake: the debugger's 14 bytes are the expected ones, or the process
\* ends.  A good handshake is echoed and the VM_INIT event sent.
onHandShake ==
  /\ Idle("jdwp", "handshake")
  /\ \/ /\ todo' = [todo EXCEPT !["jdwp"] = <<Send("VM_INIT", "NONE", {})>>]
        /\ pc' = [pc EXCEPT !["jdwp"] = "release"]
        /\ UNCHANGED alive
     \/ /\ alive' = FALSE
        /\ UNCHANGED <<todo, pc>>
  /\ UNCHANGED <<init_jdwp, HOLD_EVENTS, suspendCounter, list, eventRequestid_count,
                 ids, sub, tmp, counts, wire>>

\* onReceive starts by letting the VM thread go.
release_jdwpInitHalt ==
  /\ Idle("jdwp", "release")
  /\ init_jdwp' = TRUE
  /\ pc' = [pc EXCEPT !["jdwp"] = "recv"]
  /\ UNCHANGED <<alive, HOLD_EVENTS, suspendCounter, list, eventRequestid_count, ids,
                 todo, sub, tmp, counts, wire>>

\* onReceive takes the next packet c of the debugger.
onReceive(c) ==
  /\ Idle("jdwp", "recv")
  /\ commands < MaxCommands
  /\ commands' = commands + 1
  /\ mpacket' = IF c.op = "Short" THEN mpacket ELSE commands + 1
  /\ todo' = [todo EXCEPT !["jdwp"] = onCommand(c, mpacket')]
  /\ UNCHANGED <<flags, suspendCounter, list, eventRequestid_count, ids, pc, sub, tmp,
                 exceptions, wire>>

\* readStream: the debugger closed the connection, the process ends.
Disconnect ==
  /\ Idle("jdwp", "recv")
  /\ alive' = FALSE
  /\ UNCHANGED <<init_jdwp, HOLD_EVENTS, suspendCounter, list, eventRequestid_count,
                 ids, threads, counts, wire>>

SendReply ==
  /\ At("jdwp", "reply", "idle")
  /\ LET c == Head(todo["jdwp"])
     IN replies' = Append(replies, [n |-> c.n, what |-> c.what, val |-> c.val])
  /\ Return("jdwp")
  /\ UNCHANGED <<flags, suspendCounter, list, eventRequestid_count, ids, pc,
                 counts, events>>

\* The reply of ER_Set carries the id of the request it made.
SendRequestId ==
  /\ At("jdwp", "replyId", "idle")
  /\ replies' = Append(replies, [n |-> Head(todo["jdwp"]).n, what |-> "ER_Set",
                                 val |-> er[Len(er)].id])
  /\ Return("jdwp")
  /\ UNCHANGED <<flags, suspendCounter, list, eventRequestid_count, ids, pc,
                 counts, events>>

\* A call of the JDWP thread that reads the counter and turns into calls.
ReadCounter(op, calls) ==
  /\ At("jdwp", op, "idle")
  /\ Become("jdwp", calls)
  /\ UNCHANGED <<flags, suspendCounter, list, eventRequestid_count, ids, pc,
                 counts, wire>>

isVM_Suspended == suspendCounter # 0

\* TR_Status tells suspended (1) from running (0).
ReadStatus ==
  ReadCounter("status", <<Answer(Head(todo["jdwp"]).n, "TR_Status",
                                 IF isVM_Suspended THEN 1 ELSE 0)>>)

\* TR_SuspendCount reads the counter twice: is it zero, and what is it.
ReadIsSuspended ==
  ReadCounter("count", IF isVM_Suspended
                       THEN <<Do("readCount", Head(todo["jdwp"]).n)>>
                       ELSE <<Reply(Head(todo["jdwp"]).n, "TR_SuspendCount")>>)

ReadSuspendCount ==
  ReadCounter("readCount",
              <<Answer(Head(todo["jdwp"]).n, "TR_SuspendCount", suspendCounter)>>)

\* TR_Resume sends the THREAD_START event when this is the last resume.
StartIfLast ==
  ReadCounter("startIfLast", IF suspendCounter <= 1 /\ erTHREAD_START # 0
                             THEN dispatchEvent(erTHREAD_START)
                             ELSE <<>>)

\* ForceEarlyReturn ends in a resume and no reply, an error in between or not.
ForceEarlyReturn ==
  LET c == Head(todo["jdwp"])
  IN ReadCounter("forceEarly",
       IF ~isVM_Suspended \/ ~c.app THEN <<Error(c.n)>>
       ELSE IF c.badTag THEN <<Error(c.n), Resume>>
       ELSE <<Resume>>)

\* holdEvents
HoldEvents ==
  /\ At("jdwp", "hold", "idle")
  /\ HOLD_EVENTS' = (Head(todo["jdwp"]).n = 1)
  /\ Return("jdwp")
  /\ UNCHANGED <<alive, init_jdwp, suspendCounter, list, eventRequestid_count, ids, pc,
                 counts, wire>>

\* dispatchEvent: e->triggered = FALSE, under no lock.
MarkDispatched ==
  /\ At("jdwp", "mark", "idle")
  /\ er' = [er EXCEPT ![Head(todo["jdwp"]).n].triggered = FALSE]
  /\ Return("jdwp")
  /\ UNCHANGED <<flags, suspendCounter, eList, terminated, erTHREAD_START,
                 eventRequestid_count, ids, pc, counts, wire>>

\* add_EventRequest: _erTHREAD_START is set before the lock is taken ...
NoteThreadStart ==
  /\ At("jdwp", "noteStart", "idle")
  /\ erTHREAD_START' = Len(er)
  /\ Return("jdwp")
  /\ UNCHANGED <<flags, suspendCounter, er, eList, terminated, eventRequestid_count,
                 ids, pc, counts, wire>>

\* ... and the request pushed at the head under it.
InsertRequest ==
  /\ At("jdwp", "insert", "idle")
  /\ eList' = <<Len(er)>> \o eList
  /\ Return("jdwp")
  /\ UNCHANGED <<flags, suspendCounter, er, terminated, erTHREAD_START,
                 eventRequestid_count, ids, pc, counts, wire>>

\* A removal that starts over when its walk finds nothing.
RemoveRequestRetrying ==
  /\ At("jdwp", "remove", "idle")
  /\ LET c == Head(todo["jdwp"])
     IN /\ ~internal_remove_crashes(er, eList, terminated, c.kind, c.id)
        /\ eList' = internal_remove(er, eList, c.kind, c.id)
        /\ terminated' = internal_remove_terminates(er, eList, terminated, c.kind, c.id)
  /\ IF eList' = eList THEN UNCHANGED <<todo, sub, tmp>> ELSE Return("jdwp")
  /\ UNCHANGED <<flags, suspendCounter, er, erTHREAD_START, eventRequestid_count, ids, pc,
                 counts, wire>>

\* remove_EventRequest_byKind_RequestID
RemoveRequest ==
  /\ At("jdwp", "remove", "idle")
  /\ LET c == Head(todo["jdwp"])
     IN \/ /\ internal_remove_crashes(er, eList, terminated, c.kind, c.id)
           /\ alive' = FALSE
           /\ UNCHANGED <<eList, terminated>>
        \/ /\ ~internal_remove_crashes(er, eList, terminated, c.kind, c.id)
           /\ eList' = internal_remove(er, eList, c.kind, c.id)
           /\ terminated' = internal_remove_terminates(er, eList, terminated, c.kind, c.id)
           /\ UNCHANGED alive
  /\ Return("jdwp")
  /\ UNCHANGED <<init_jdwp, HOLD_EVENTS, suspendCounter, er, erTHREAD_START,
                 eventRequestid_count, ids, pc, counts, wire>>

(***************************************************************************)
(* removeAll_EventRequests_byKind looks for a request of the kind, calls   *)
(* internal_remove for it, lets the lock go and starts again.  It ends     *)
(* when the walk meets none; where internal_remove did not find what it    *)
(* was asked for, the next round is the same.                              *)
(***************************************************************************)
RemoveAllRound ==
  /\ At("jdwp", "removeAll", "idle")
  /\ OfKind(er, eList, "BREAKPOINT") # {}
  /\ LET id == er[FirstOfKind(er, eList, "BREAKPOINT")].id
     IN \/ /\ internal_remove_crashes(er, eList, terminated, "BREAKPOINT", id)
           /\ alive' = FALSE
           /\ UNCHANGED <<eList, terminated>>
        \/ /\ ~internal_remove_crashes(er, eList, terminated, "BREAKPOINT", id)
           /\ eList' = internal_remove(er, eList, "BREAKPOINT", id)
           /\ terminated' = internal_remove_terminates(er, eList, terminated, "BREAKPOINT", id)
           /\ UNCHANGED alive
  /\ UNCHANGED <<init_jdwp, HOLD_EVENTS, suspendCounter, er, erTHREAD_START,
                 eventRequestid_count, ids, threads, counts, wire>>

RemoveAllDone ==
  /\ At("jdwp", "removeAll", "idle")
  /\ OfKind(er, eList, "BREAKPOINT") = {}
  /\ alive' = terminated
  /\ Return("jdwp")
  /\ UNCHANGED <<init_jdwp, HOLD_EVENTS, suspendCounter, list, eventRequestid_count,
                 ids, pc, counts, wire>>

-----------------------------------------------------------------------------
(* The VM thread                                                           *)

Goto(label) == pc' = [pc EXCEPT !["vm"] = label]

\* Steps of the VM thread's own loop that only move its program counter.
Move(from, to) ==
  /\ Idle("vm", from)
  /\ Goto(to)
  /\ UNCHANGED <<flags, suspendCounter, list, eventRequestid_count, ids, todo, sub,
                 tmp, counts, wire>>

\* init_mainHandler spins until the JDWP thread has set init_jdwp.
LeaveInitHalt == init_jdwp /\ Move("halt", "boundary")

\* Before an opcode: no null pointer and room on the stack ...
PassChecks == Move("boundary", "check")

(***************************************************************************)
(* ... or an exception: handleNullPointer and handleStackOverflow push an  *)
(* EXCEPTION event and make vmCallDebug return an error.  Where a native   *)
(* method had called it and drops the error, the outer call goes on with   *)
(* its next opcode; the outermost call's error ends the process.           *)
(***************************************************************************)
RaiseException ==
  /\ Idle("vm", "boundary")
  /\ exceptions < MaxExceptions
  /\ exceptions' = exceptions + 1
  /\ todo' = [todo EXCEPT !["vm"] =
                <<NewEvent(NoRequest), Suspend, Send("EXCEPTION", "ALL", {})>>]
  /\ \E label \in {"boundary", "return"} : Goto(label)
  /\ UNCHANGED <<flags, suspendCounter, list, eventRequestid_count, ids, sub, tmp,
                 mpacket, commands, wire>>

\* Only the newest request looked at.
check_forEventsHead ==
  /\ Idle("vm", "check")
  /\ todo' = [todo EXCEPT !["vm"] =
                IF eList # <<>> /\ eList[1] \in PendingIn(er, eList)
                THEN <<Suspend>> ELSE <<>>]
  /\ Goto("loop")
  /\ UNCHANGED <<flags, suspendCounter, list, eventRequestid_count, ids, sub, tmp,
                 counts, wire>>

\* check_forEvents suspends the VM when any request of the list is pending.
check_forEvents ==
  /\ Idle("vm", "check")
  /\ todo' = [todo EXCEPT !["vm"] =
                IF PendingIn(er, eList) # {} THEN <<Suspend>> ELSE <<>>]
  /\ Goto("loop")
  /\ UNCHANGED <<flags, suspendCounter, list, eventRequestid_count, ids, sub, tmp,
                 counts, wire>>

EnterSuspendLoop == isVM_Suspended /\ Move("loop", "hold")

LeaveSuspendLoop == ~isVM_Suspended /\ Move("loop", "exec")

\* canDispatchAll
PassHold == ~HOLD_EVENTS /\ Move("hold", "dispatch")

(***************************************************************************)
(* dispatchAll takes the pending requests of each policy, in the order     *)
(* NONE, EVENT_THREAD, ALL, under the lock, then sends a composite for     *)
(* each policy that has any; then the loop resumes the VM.                 *)
(***************************************************************************)
internalDispatchSet(policy) ==
  LET taken == Composite(er, get_by_suspendPolicy(er, eList, policy))
  IN IF taken = {} THEN <<>> ELSE <<Send("ALL", policy, taken)>>

dispatchAll ==
  /\ Idle("vm", "dispatch")
  /\ er' = Reported(er, PendingIn(er, eList))
  /\ todo' = [todo EXCEPT !["vm"] =
                internalDispatchSet("NONE") \o internalDispatchSet("EVENT_THREAD")
                \o internalDispatchSet("ALL") \o <<Resume>>]
  /\ Goto("loop")
  /\ UNCHANGED <<flags, suspendCounter, eList, terminated, erTHREAD_START,
                 eventRequestid_count, ids, sub, tmp, counts, wire>>

\* An opcode: the program goes on, or main has returned.
ExecOpcode == \E label \in {"boundary", "return"} : Move("exec", label)

\* The outermost call returned: main.c ends the process.  (A restart or a
\* resume of the VM is module-external: see the README.)
ReturnFromMain ==
  /\ Idle("vm", "return")
  /\ alive' = FALSE
  /\ UNCHANGED <<init_jdwp, HOLD_EVENTS, suspendCounter, list, eventRequestid_count,
                 ids, threads, counts, wire>>

-----------------------------------------------------------------------------
(* Waiting, and the end of the process, change nothing.                    *)

Spin ==
  /\ \/ ~alive
     \/ Idle("vm", "halt") /\ ~init_jdwp
     \/ Idle("vm", "hold") /\ HOLD_EVENTS
  /\ UNCHANGED vars

\* init__VM_DEBUG_MODE up to accept: the counter starts at 1 (init_vmController
\* calls onVM_Suspend), and the head of the list is whatever malloc returned.
Init ==
  /\ alive = TRUE
  /\ init_jdwp = FALSE
  /\ suspendCounter = 1
  /\ HOLD_EVENTS = FALSE
  /\ er = <<>>
  /\ eList = <<>>
  /\ terminated \in BOOLEAN
  /\ erTHREAD_START = 0
  /\ eventRequestid_count = 1
  /\ PACKET_ID_UNIQUE = 1
  /\ idMutex = Nobody
  /\ pc = [t \in Threads |-> IF t = "vm" THEN "halt" ELSE "handshake"]
  /\ todo = [t \in Threads |-> <<>>]
  /\ sub = [t \in Threads |-> "idle"]
  /\ tmp = [t \in Threads |-> 0]
  /\ mpacket = 0
  /\ commands = 0
  /\ exceptions = 0
  /\ events = <<>>
  /\ replies = <<>>

\* A call both threads make.
CallStep(t) ==
  \/ SuspendLoad(t) \/ SuspendStore(t)
  \/ ResumeLoad(t) \/ ResumeStore(t)
  \/ NewEventLoad(t) \/ NewEventStore(t)
  \/ GenIdLoad(t) \/ GenIdStore(t) \/ SendEvent(t)

\* What the JDWP thread does without a packet of the debugger.
JDWPStep ==
  \/ CallStep("jdwp")
  \/ ExitProcess("jdwp")
  \/ onHandShake \/ release_jdwpInitHalt
  \/ SendReply \/ SendRequestId
  \/ ReadStatus \/ ReadIsSuspended \/ ReadSuspendCount
  \/ StartIfLast \/ ForceEarlyReturn
  \/ HoldEvents \/ MarkDispatched
  \/ NoteThreadStart \/ InsertRequest
  \/ RemoveRequest \/ RemoveAllRound \/ RemoveAllDone

VMStep ==
  \/ CallStep("vm")
  \/ LeaveInitHalt \/ PassChecks \/ RaiseException
  \/ check_forEvents \/ EnterSuspendLoop \/ LeaveSuspendLoop
  \/ PassHold \/ dispatchAll
  \/ ExecOpcode \/ ReturnFromMain

Debugger == Disconnect \/ \E c \in Commands : onReceive(c)

Next == JDWPStep \/ VMStep \/ Debugger \/ Spin

Spec == Init /\ [][Next]_vars

\* The operating system runs both threads; nothing obliges the debugger.
Fairness == WF_vars(JDWPStep) /\ WF_vars(VMStep)

FairSpec == Spec /\ Fairness

-----------------------------------------------------------------------------
(* Properties                                                              *)

\* Every variable stays in its range: the u1 counter, the handles of the list
\* and of _erTHREAD_START point at requests that were made, and the calls a
\* thread has left are calls of the code.
TypeOK ==
  /\ alive \in BOOLEAN /\ init_jdwp \in BOOLEAN /\ HOLD_EVENTS \in BOOLEAN
  /\ suspendCounter \in 0 .. CounterMod - 1
  /\ er \in Seq(EventRequest)
  /\ eList \in Seq(DOMAIN er)
  /\ terminated \in BOOLEAN
  /\ erTHREAD_START \in DOMAIN er \cup {0}
  /\ eventRequestid_count \in Nat
  /\ PACKET_ID_UNIQUE \in Nat
  /\ idMutex \in Threads \cup {Nobody}
  /\ pc \in [Threads -> {"halt", "boundary", "check", "loop", "hold", "dispatch", "exec",
                         "return", "handshake", "release", "recv"}]
  /\ todo \in [Threads -> Seq(Call)]
  /\ sub \in [Threads -> {"idle", "loaded", "idLoaded", "idReady"}]
  /\ tmp \in [Threads -> Nat]
  /\ mpacket \in Nat /\ commands \in Nat /\ exceptions \in Nat
  /\ events \in Seq([id : Nat, src : Sources, policy : Policies, reqs : SUBSET Nat])
  /\ replies \in Seq([n : Nat, what : Whats, val : Nat])

\* No two command packets on the wire carry the same id, though both threads
\* send them ("unique id for packets", packetHandler.c:13).
PacketIdsUnique ==
  \A i, j \in DOMAIN events : i # j => events[i].id # events[j].id

\* The VM thread leaves the wait of init_mainHandler only after the debugger
\* was told VM_INIT, and nothing is sent to it before that.
VMInitFirst ==
  /\ pc["vm"] # "halt" => events # <<>>
  /\ events # <<>> => events[1].src = "VM_INIT"

\* dispatchAll reports a request at most once, whatever the debugger and the
\* JDWP thread do between two rounds of the suspend loop.
ReportedOnce ==
  \A i, j \in DOMAIN events :
    /\ i # j
    /\ events[i].src = "ALL"
    /\ events[j].src = "ALL"
    => events[i].reqs \cap events[j].reqs = {}

\* A composite carries its own policy: all its requests asked for it, and each
\* is one ER_Set has made.
CompositePolicy ==
  \A i \in DOMAIN events : \A h \in events[i].reqs :
    h \in DOMAIN er /\ er[h].policy = events[i].policy

\* Requests have different ids as long as only the JDWP thread makes them: the
\* VM thread's newEventRequest races with ER_Set for eventRequestid_count.
RequestIdsUnique ==
  exceptions = 0 => \A i, j \in DOMAIN er : i # j => er[i].id # er[j].id

\* A pending request does not stay pending: it is reported, or removed, unless
\* the debugger holds the events or the process ends.
PendingIsReported ==
  \A h \in 1 .. MaxCommands :
    h \in PendingIn(er, eList)
      ~> (h \notin PendingIn(er, eList) \/ HOLD_EVENTS \/ ~alive)

\* The suspensions and the resumes among answers i and later.
Suspends(i) ==
  {j \in DOMAIN replies : j >= i /\ replies[j].what \in {"VM_Suspend", "TR_Suspend"}}
Resumes(i) ==
  {j \in DOMAIN replies : j >= i /\ replies[j].what \in {"VM_Resume", "TR_Resume"}}

\* From some answer on, the debugger has suspended the VM more often than it has
\* resumed it.
DebuggerSuspends ==
  \E i \in DOMAIN replies : Cardinality(Suspends(i)) > Cardinality(Resumes(i))

\* An event that asks for a suspension was sent.
EventSuspends == \E i \in DOMAIN events : events[i].policy # "NONE"

\* Once let go, the VM thread executes opcodes for ever, whatever the counter
\* wraps to, as long as nobody has asked for it to stand still: the debugger
\* neither holds the events nor has suspensions outstanding, no event suspended
\* the VM, and the process has not ended.  (What the VM does while it should
\* stand still is StaysSuspended's subject.)
VMProgress ==
  init_jdwp ~> [](<>(pc["vm"] = "exec" \/ HOLD_EVENTS \/ ~alive
                     \/ DebuggerSuspends \/ EventSuspends))

\* Every handler but ClearAllBreakpoints returns to onReceive's loop.
HandlersFinish ==
  (todo["jdwp"] # <<>> /\ Head(todo["jdwp"]).op # "removeAll")
    ~> (todo["jdwp"] = <<>> \/ ~alive)

\* The requests that dispatchAll has taken for a composite, sent or about to be.
Taken ==
  UNION ({events[i].reqs : i \in {j \in DOMAIN events : events[j].src = "ALL"}}
         \cup {todo["vm"][i].reqs : i \in {j \in DOMAIN todo["vm"] :
                                            todo["vm"][j].op = "send"}})

Abstract == INSTANCE EventReporting WITH
  Requests   <- 1 .. MaxCommands,
  registered <- {eList[i] : i \in DOMAIN eList},
  armed      <- PendingIn(er, eList),
  reported   <- Taken

\* The two threads implement the promise: with the list as the registered
\* requests, the pending ones as armed and those in composites as reported,
\* every step is a step of EventReporting or changes none of it.
ImplementsReporting == Abstract!Spec

-----------------------------------------------------------------------------
(* What comments of the code say and the code does not do                  *)

\* "Suspensions of the Virtual Machine and individual threads are counted"
\* (mainHandler.c:327): a suspension raises the counter by one.
SuspensionsCounted ==
  [][\A t \in Threads :
       SuspendStore(t) => suspendCounter' = (suspendCounter + 1) % CounterMod]_vars

\* "Resumes execution of the application" (mainHandler.c:326): a resume never
\* turns a running VM into a suspended one.
ResumeNeverSuspends ==
  [][\A t \in Threads : ResumeStore(t) /\ suspendCounter = 0 => suspendCounter' = 0]_vars

\* "If a particular thread is suspended n times, it must resumed n times before
\* it will continue" (mainHandler.c:328): the resume that the VM thread's own
\* loop makes does not bring the counter to zero while suspensions that were
\* answered are not resumed.  (Without a concurrent update of the counter, which
\* is SuspensionsCounted's subject; the answer to Suspend is sent after the
\* counter was raised, the answer to Resume before it is lowered.)
StaysSuspended ==
  [][ResumeStore("vm") /\ tmp["vm"] = suspendCounter /\ DebuggerSuspends
       => suspendCounter' # 0]_vars

=============================================================================
