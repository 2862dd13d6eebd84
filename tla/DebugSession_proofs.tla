------------------------ MODULE DebugSession_proofs ------------------------
(***************************************************************************)
(* What holds of a debug session for every instance: any width of the      *)
(* counter, any number of packets and exceptions, any set of commands.     *)
(***************************************************************************)
EXTENDS DebugSession, SequenceTheorems, TLAPS

-----------------------------------------------------------------------------
(* Sequences                                                               *)

\* Short sequences written out.
LEMMA Tuples ==
  ASSUME NEW S
  PROVE  /\ <<>> \in Seq(S)
         /\ \A a \in S : <<a>> \in Seq(S)
         /\ \A a, b \in S : <<a, b>> \in Seq(S)
         /\ \A a, b, d \in S : <<a, b, d>> \in Seq(S)
  OBVIOUS

\* Dropping one element of a sequence leaves a sequence of the same set.
LEMMA RemoveAtType ==
  ASSUME NEW S, NEW L \in Seq(S), NEW i \in 1 .. Len(L)
  PROVE  RemoveAt(L, i) \in Seq(S)
<1>1. SubSeq(L, 1, i - 1) \in Seq(S)
  BY SubSeqProperties, ElementOfSeq
<1>2. SubSeq(L, i + 1, Len(L)) \in Seq(S)
  BY SubSeqProperties, ElementOfSeq
<1> QED
  BY <1>1, <1>2, ConcatProperties DEF RemoveAt

\* internal_remove (eventDispatcher.c) leaves a list of requests it was given.
LEMMA RemoveType ==
  ASSUME NEW S, NEW L \in Seq(S), NEW r, NEW kind, NEW id
  PROVE  internal_remove(r, L, kind, id) \in Seq(S)
<1> DEFINE M == FirstLater(r, L, kind, id)
<1>1. M \subseteq 1 .. Len(L)
  BY DEF FirstLater, LaterMatches
<1>2. CASE HeadMatches(r, L, kind, id)
  BY <1>2 DEF internal_remove
<1>3. CASE ~HeadMatches(r, L, kind, id) /\ M # {}
  <2>1. (CHOOSE i \in M : TRUE) \in 1 .. Len(L)
    BY <1>1, <1>3
  <2> HIDE DEF M
  <2>2. RemoveAt(L, CHOOSE i \in M : TRUE) \in Seq(S)
    BY <2>1, RemoveAtType
  <2> QED
    BY <1>3, <2>2 DEF internal_remove, M
<1>4. CASE ~HeadMatches(r, L, kind, id) /\ M = {}
  BY <1>4 DEF internal_remove
<1> QED
  BY <1>2, <1>3, <1>4

-----------------------------------------------------------------------------
(* Calls and handlers                                                      *)

\* Each way the code makes a call makes a member of Call.
LEMMA CallTypes ==
  /\ Suspend \in Call /\ Resume \in Call /\ Exit \in Call
  /\ \A e \in EventRequest : NewEvent(e) \in Call
  /\ \A n \in Nat : Error(n) \in Call
  /\ \A n \in Nat, what \in Whats : Reply(n, what) \in Call
  /\ \A n \in Nat, what \in Whats, v \in Nat : Answer(n, what, v) \in Call
  /\ \A src \in Sources, policy \in Policies, taken \in SUBSET Nat :
       Send(src, policy, taken) \in Call
  /\ \A n \in Nat, op \in {"status", "count", "readCount", "startIfLast", "replyId",
                            "hold", "mark", "removeAll"} : Do(op, n) \in Call
<1>1. Suspend \in Call /\ Resume \in Call /\ Exit \in Call
  BY DEF Call, Suspend, Resume, Exit
<1>2. ASSUME NEW e \in EventRequest PROVE NewEvent(e) \in Call
  BY DEF Call, NewEvent
<1>3. ASSUME NEW n \in Nat, NEW what \in Whats, NEW v \in Nat
      PROVE  Reply(n, what) \in Call /\ Answer(n, what, v) \in Call /\ Error(n) \in Call
  BY DEF Call, Reply, Answer, Error, Whats
<1>4. ASSUME NEW src \in Sources, NEW policy \in Policies, NEW taken \in SUBSET Nat
      PROVE  Send(src, policy, taken) \in Call
  BY DEF Call, Send
<1>5. ASSUME NEW n \in Nat,
             NEW op \in {"status", "count", "readCount", "startIfLast", "replyId", "hold",
                         "mark", "removeAll"}
      PROVE  Do(op, n) \in Call
  BY DEF Call, Do
<1>6. "error" \in Whats
  BY DEF Whats
<1> QED
  BY <1>1, <1>2, <1>3, <1>4, <1>5, <1>6

\* The fields a call of each name has.
LEMMA CallFields ==
  ASSUME NEW c \in Call
  PROVE  /\ c.op = "newEvent" => c.req \in EventRequest
         /\ c.op = "reply" => c.n \in Nat /\ c.what \in Whats /\ c.val \in Nat
         /\ c.op = "send" => c.src \in Sources /\ c.policy \in Policies /\ c.reqs \in SUBSET Nat
         /\ c.op \in {"status", "count", "readCount", "startIfLast", "replyId", "hold", "mark",
                      "removeAll", "forceEarly"} => c.n \in Nat
  BY DEF Call

\* Calls that need the request the handler made before them.
NeedsRequest == {"noteStart", "insert", "replyId"}

\* A list of calls that starts by making a request or does not need one.
MakesFirst(calls) ==
  \/ calls = <<>>
  \/ Head(calls).op = "newEvent"
  \/ \A i \in DOMAIN calls : calls[i].op \notin NeedsRequest

\* The request ER_Set builds.
LEMMA RequestOfType ==
  ASSUME NEW c \in Command, c.op = "ER_Set"
  PROVE  RequestOf(c) \in EventRequest
<1>1. c.kind \in EventKinds /\ c.policy \in Policies /\ c.writes \in BOOLEAN
  BY DEF Command
<1> QED
  BY <1>1 DEF RequestOf, EventRequest

\* ER_Set: the request first, then the rest.
LEMMA SetHandler ==
  ASSUME NEW c \in Command, NEW n \in Nat, c.op = "ER_Set"
  PROVE  /\ onSend_CS_ER_Set(c, n) \in Seq(Call)
         /\ MakesFirst(onSend_CS_ER_Set(c, n))
         /\ \A i \in DOMAIN onSend_CS_ER_Set(c, n) : onSend_CS_ER_Set(c, n)[i].op # "send"
<1> DEFINE make  == NewEvent(RequestOf(c))
           wrong == IF c.mod = "unknownClass" THEN <<Error(n)>> ELSE <<>>
           add   == IF c.mod = "exceptionOnly" THEN <<>> ELSE add_EventRequest(RequestOf(c))
           reply == Do("replyId", n)
           Quiet == {d \in Call : d.op # "send"}
<1>1. make \in Quiet
  <2>1. NewEvent(RequestOf(c)) \in Call
    BY RequestOfType, CallTypes
  <2>2. NewEvent(RequestOf(c)).op = "newEvent"
    BY DEF NewEvent
  <2> QED
    BY <2>1, <2>2
<1>2. wrong \in Seq(Quiet)
  <2>1. Error(n) \in Call
    BY CallTypes
  <2>2. Error(n).op = "reply"
    BY DEF Error
  <2>3. Error(n) \in Quiet
    BY <2>1, <2>2
  <2> HIDE DEF Quiet
  <2>4. <<Error(n)>> \in Seq(Quiet) /\ <<>> \in Seq(Quiet)
    BY <2>3, Tuples
  <2> QED
    BY <2>4
<1>3. add \in Seq(Quiet)
  <2>1. [op |-> "noteStart"] \in Quiet /\ [op |-> "insert"] \in Quiet
    BY DEF Call
  <2> HIDE DEF Quiet
  <2>2. <<>> \in Seq(Quiet) /\ <<[op |-> "insert"]>> \in Seq(Quiet)
    BY <2>1, Tuples
  <2>3. <<[op |-> "noteStart"], [op |-> "insert"]>> \in Seq(Quiet)
    BY <2>1, Tuples
  <2> QED
    BY <2>2, <2>3 DEF add_EventRequest
<1>4. reply \in Quiet
  BY CallTypes DEF Do
<1> HIDE DEF make, wrong, add, reply, Quiet
<1>5. onSend_CS_ER_Set(c, n) = ((<<make>> \o wrong) \o add) \o <<reply>>
  BY DEF onSend_CS_ER_Set, make, wrong, add, reply
<1>6. /\ ((<<make>> \o wrong) \o add) \o <<reply>> \in Seq(Quiet)
      /\ Head(((<<make>> \o wrong) \o add) \o <<reply>>) = make
  <2> DEFINE s1 == <<make>> \o wrong
             s2 == s1 \o add
             s3 == s2 \o <<reply>>
  <2>1. s1 \in Seq(Quiet) /\ Len(s1) >= 1 /\ s1[1] = make
    BY <1>1, <1>2, ConcatProperties
  <2> HIDE DEF s1
  <2>2. s2 \in Seq(Quiet) /\ Len(s2) >= 1 /\ s2[1] = make
    BY <2>1, <1>3, ConcatProperties
  <2> HIDE DEF s2
  <2>3. s3 \in Seq(Quiet) /\ Len(s3) >= 1 /\ s3[1] = make
    BY <2>2, <1>4, ConcatProperties
  <2> HIDE DEF s3
  <2>4. Head(s3) = make
    BY <2>3
  <2> QED
    BY <2>3, <2>4 DEF s1, s2, s3
<1>7. Quiet \subseteq Call /\ \A d \in Quiet : d.op # "send"
  BY DEF Quiet
<1>8. make.op = "newEvent"
  BY DEF make, NewEvent
<1> DEFINE calls == onSend_CS_ER_Set(c, n)
<1>9. calls \in Seq(Quiet) /\ Head(calls).op = "newEvent"
  BY <1>5, <1>6, <1>8
<1> HIDE DEF calls
<1>10. calls \in Seq(Call)
  BY <1>7, <1>9, SeqMonotonic, Zenon
<1>11. \A i \in DOMAIN calls : calls[i] \in Quiet
  BY <1>9, LenProperties, ElementOfSeq
<1> QED
  BY <1>7, <1>9, <1>10, <1>11 DEF MakesFirst, calls

\* The calls of every handler but ER_Set: none makes a request or sends an event.
Plain == {d \in Call : d.op \notin NeedsRequest \cup {"send", "newEvent"}}

LEMMA PlainCalls ==
  /\ Suspend \in Plain /\ Resume \in Plain /\ Exit \in Plain
  /\ \A n \in Nat : Error(n) \in Plain
  /\ \A n \in Nat, what \in Whats : Reply(n, what) \in Plain
  /\ \A n \in Nat, what \in Whats, v \in Nat : Answer(n, what, v) \in Plain
  /\ \A n \in Nat, op \in {"status", "count", "readCount", "startIfLast", "hold", "mark",
                            "removeAll"} : Do(op, n) \in Plain
<1>1. Suspend.op = "suspend" /\ Resume.op = "resume" /\ Exit.op = "exit"
  BY DEF Suspend, Resume, Exit
<1>2. \A n, what, v : Error(n).op = "reply" /\ Reply(n, what).op = "reply"
                     /\ Answer(n, what, v).op = "reply"
  BY DEF Error, Reply, Answer
<1>3. \A op, n : Do(op, n).op = op
  BY DEF Do
<1> QED
  BY <1>1, <1>2, <1>3, CallTypes DEF Plain, NeedsRequest

\* Lists of such calls are lists of calls as every handler makes them.
LEMMA PlainLists ==
  ASSUME NEW calls \in Seq(Plain)
  PROVE  /\ calls \in Seq(Call)
         /\ \A i \in DOMAIN calls : calls[i].op \notin NeedsRequest \cup {"send"}
         /\ MakesFirst(calls)
<1>1. calls \in Seq(Call)
  <2>1. Plain \subseteq Call
    BY DEF Plain
  <2> QED
    BY <2>1, SeqMonotonic, Zenon
<1>2. \A i \in DOMAIN calls : calls[i] \in Plain
  BY LenProperties, ElementOfSeq
<1>3. \A i \in DOMAIN calls : calls[i].op \notin NeedsRequest \cup {"send"}
  BY <1>2 DEF Plain
<1> QED
  BY <1>1, <1>3 DEF MakesFirst

\* Handlers that make no request.
LEMMA PlainHandlers ==
  ASSUME NEW c \in Command, NEW n \in Nat, c.op # "ER_Set"
  PROVE  onCommand(c, n) \in Seq(Plain)
<1>1. {"VM_Suspend", "VM_Resume", "VM_Exit", "TR_Suspend", "TR_Resume", "TR_Status",
       "TR_SuspendCount", "ER_Clear", "Query"} \subseteq Whats
  BY DEF Whats
<1>2. CASE c.op = "VM_Suspend"
  BY <1>2, <1>1, Tuples, PlainCalls DEF onCommand, onSend_CS_VM_Suspend
<1>3. CASE c.op = "VM_Resume"
  BY <1>3, <1>1, Tuples, PlainCalls DEF onCommand, onSend_CS_VM_Resume
<1>4. CASE c.op = "VM_Exit"
  BY <1>4, <1>1, Tuples, PlainCalls DEF onCommand, onSend_CS_VM_Exit
<1>5. CASE c.op = "VM_Dispose"
  BY <1>5, <1>1, Tuples, PlainCalls DEF onCommand, onSend_CS_VM_Dispose
<1>6. CASE c.op = "VM_HoldEvents"
  BY <1>6, <1>1, Tuples, PlainCalls DEF onCommand, onSend_CS_VM_HoldEvents
<1>7. CASE c.op = "VM_ReleaseEvents"
  BY <1>7, <1>1, Tuples, PlainCalls DEF onCommand, onSend_CS_VM_ReleaseEvents
<1>8. CASE c.op = "TR_Suspend"
  BY <1>8, <1>1, Tuples, PlainCalls DEF onCommand, onSend_CS_TR_Suspend
<1>9. CASE c.op = "TR_Resume"
  BY <1>9, <1>1, Tuples, PlainCalls DEF onCommand, onSend_CS_TR_Resume
<1>10. CASE c.op = "TR_Status"
  BY <1>10, <1>1, Tuples, PlainCalls DEF onCommand, onSend_CS_TR_Status
<1>11. CASE c.op = "TR_SuspendCount"
  BY <1>11, <1>1, Tuples, PlainCalls DEF onCommand, onSend_CS_TR_SuspendCount
<1>12. CASE c.op = "TR_Kill"
  BY <1>12, <1>1, Tuples, PlainCalls DEF onCommand, onSend_CS_TR_Stop
<1>13. CASE c.op = "TR_ForceEarlyReturn"
  <2>1. c.app \in BOOLEAN /\ c.badTag \in BOOLEAN
    BY <1>13 DEF Command
  <2>2. [op |-> "forceEarly", n |-> n, app |-> c.app, badTag |-> c.badTag] \in Plain
    BY <2>1 DEF Plain, Call, NeedsRequest
  <2> QED
    BY <1>13, <2>2, Tuples DEF onCommand, onSend_CS_TR_ForceEarlyReturn
<1>14. CASE c.op = "ER_Clear"
  <2>1. c.kind \in EventKinds /\ c.id \in Nat
    BY <1>14 DEF Command
  <2>2. [op |-> "remove", kind |-> c.kind, id |-> c.id] \in Plain
    BY <2>1 DEF Plain, Call, NeedsRequest
  <2> QED
    BY <1>14, <1>1, <2>2, Tuples, PlainCalls DEF onCommand, onSend_CS_ER_Clear
<1>15. CASE c.op = "ER_ClearAllBreakpoints"
  BY <1>15, <1>1, Tuples, PlainCalls DEF onCommand, onSend_CS_ER_ClearAllBreakpoints
<1>16. CASE c.op = "Short"
  BY <1>16, <1>1, Tuples, PlainCalls DEF onCommand, shortPacket
<1>17. CASE c.op = "Query"
  BY <1>17, <1>1, Tuples, PlainCalls DEF onCommand
<1>18. CASE c.op = "Silent"
  BY <1>18, <1>1, Tuples, PlainCalls DEF onCommand
<1> QED
  BY <1>2, <1>3, <1>4, <1>5, <1>6, <1>7, <1>8, <1>9, <1>10, <1>11, <1>12, <1>13, <1>14, <1>15, <1>16, <1>17, <1>18 DEF Command

\* Every handler is a list of calls that makes its request first and sends no
\* event of its own: those the JDWP thread sends come from dispatchEvent.
LEMMA Handlers ==
  ASSUME NEW c \in Command, NEW n \in Nat
  PROVE  /\ onCommand(c, n) \in Seq(Call)
         /\ MakesFirst(onCommand(c, n))
         /\ \A i \in DOMAIN onCommand(c, n) : onCommand(c, n)[i].op # "send"
<1>1. CASE c.op = "ER_Set"
  <2>1. onCommand(c, n) = onSend_CS_ER_Set(c, n)
    BY <1>1 DEF onCommand
  <2> QED
    BY <1>1, <2>1, SetHandler
<1>2. CASE c.op # "ER_Set"
  BY <1>2, PlainHandlers, PlainLists
<1> QED
  BY <1>1, <1>2

-----------------------------------------------------------------------------
(* Every state is typed, and a handler that needs its request has made it. *)

\* The calls of the JDWP thread that read the newest request come after the
\* call that makes it.
RequestMade == er = <<>> => MakesFirst(todo["jdwp"])

TypeInv == TypeOK /\ RequestMade

\* A function over the indices of a sequence is a sequence.
LEMMA SameLength ==
  ASSUME NEW S, NEW T, NEW s \in Seq(S), NEW f \in [DOMAIN s -> T]
  PROVE  f \in Seq(T) /\ DOMAIN f = DOMAIN s
  OBVIOUS

\* The call at the head of a thread's list, and the rest.
LEMMA HeadCall ==
  ASSUME TypeOK, NEW t \in Threads, todo[t] # <<>>
  PROVE  Head(todo[t]) \in Call /\ Tail(todo[t]) \in Seq(Call)
<1>1. todo[t] \in Seq(Call)
  BY DEF TypeOK
<1> QED
  BY <1>1, HeadTailProperties

\* Replacing the call at the head by calls keeps the threads typed.
LEMMA BecomeType ==
  ASSUME TypeOK, NEW t \in Threads, todo[t] # <<>>, NEW calls \in Seq(Call),
         Become(t, calls)
  PROVE  /\ todo' \in [Threads -> Seq(Call)]
         /\ sub' \in [Threads -> {"idle", "loaded", "idLoaded", "idReady"}]
         /\ tmp' \in [Threads -> Nat]
<1>1. calls \o Tail(todo[t]) \in Seq(Call)
  BY HeadCall, ConcatProperties
<1> QED
  BY <1>1 DEF TypeOK, Become

\* ... and RequestMade, unless the call was the one that makes the request.
LEMMA BecomeMade ==
  ASSUME TypeOK, RequestMade, NEW t \in Threads, todo[t] # <<>>, NEW calls \in Seq(Call),
         \A i \in DOMAIN calls : calls[i].op \notin NeedsRequest,
         Become(t, calls), er' = <<>> => er = <<>>,
         t = "jdwp" => Head(todo[t]).op # "newEvent"
  PROVE  RequestMade'
<1> SUFFICES ASSUME er' = <<>> PROVE MakesFirst(todo["jdwp"]')
  BY DEF RequestMade
<1>1. MakesFirst(todo["jdwp"])
  BY DEF RequestMade
<1>2. CASE t = "vm"
  <2>1. todo'["jdwp"] = todo["jdwp"]
    BY <1>2 DEF TypeOK, Become, Threads
  <2> QED
    BY <1>1, <2>1
<1>3. CASE t = "jdwp"
  <2> DEFINE q == todo["jdwp"]
  <2>1. q \in Seq(Call) /\ q # <<>>
    BY <1>3 DEF TypeOK
  <2>2. \A i \in DOMAIN q : q[i].op \notin NeedsRequest
    BY <1>1, <1>3, <2>1 DEF MakesFirst
  <2>3. todo'["jdwp"] = calls \o Tail(q)
    BY <1>3 DEF TypeOK, Become
  <2> HIDE DEF q
  <2>4. /\ Tail(q) \in Seq(Call) /\ Len(Tail(q)) = Len(q) - 1
        /\ \A i \in 1 .. Len(Tail(q)) : Tail(q)[i] = q[i + 1]
    BY <2>1, HeadTailProperties
  <2>5. \A i \in 1 .. Len(Tail(q)) : Tail(q)[i].op \notin NeedsRequest
    BY <2>1, <2>2, <2>4
  <2> DEFINE r == Tail(q)
  <2> HIDE DEF r
  <2>6. r \in Seq(Call) /\ \A i \in 1 .. Len(r) : r[i].op \notin NeedsRequest
    BY <2>4, <2>5 DEF r
  <2>7. calls \o r \in Seq(Call) /\ Len(calls \o r) = Len(calls) + Len(r)
        /\ \A i \in 1 .. Len(calls) + Len(r) :
             (calls \o r)[i] = IF i <= Len(calls) THEN calls[i] ELSE r[i - Len(calls)]
    BY <2>6, ConcatProperties
  <2>8. \A i \in DOMAIN (calls \o r) : (calls \o r)[i].op \notin NeedsRequest
    BY <2>6, <2>7
  <2> QED
    BY <2>3, <2>8 DEF MakesFirst, r
<1> QED
  BY <1>2, <1>3 DEF Threads

\* THREAD_START's calls, for a request that exists.
LEMMA DispatchCalls ==
  ASSUME TypeOK, NEW h \in DOMAIN er
  PROVE  /\ dispatchEvent(h) \in Seq(Call)
         /\ \A i \in DOMAIN dispatchEvent(h) : dispatchEvent(h)[i].op \notin NeedsRequest
<1> DEFINE Safe == {d \in Call : d.op \notin NeedsRequest}
           first == IF er[h].policy # "NONE" THEN <<Suspend>> ELSE <<>>
           second == <<Do("mark", h), Send("THREAD_START", er[h].policy, {h})>>
<1>1. h \in Nat /\ er[h].policy \in Policies
  <2>1. er \in Seq(EventRequest)
    BY DEF TypeOK
  <2>2. h \in Nat /\ er[h] \in EventRequest
    BY <2>1
  <2> QED
    BY <2>2 DEF EventRequest
<1>2. /\ Suspend \in Call /\ Do("mark", h) \in Call
      /\ Send("THREAD_START", er[h].policy, {h}) \in Call
  BY <1>1, CallTypes DEF Sources
<1>3. /\ Suspend \in Safe /\ Do("mark", h) \in Safe
      /\ Send("THREAD_START", er[h].policy, {h}) \in Safe
  BY <1>2 DEF Suspend, Do, Send, NeedsRequest
<1> HIDE DEF Safe
<1>4. first \in Seq(Safe) /\ second \in Seq(Safe)
  BY <1>3, Tuples
<1> HIDE DEF first, second
<1>5. first \o second \in Seq(Safe)
  BY <1>4, ConcatProperties
<1>6. dispatchEvent(h) = first \o second
  BY DEF dispatchEvent, first, second
<1>7. Safe \subseteq Call
  BY DEF Safe
<1>8. dispatchEvent(h) \in Seq(Call)
  BY <1>5, <1>6, <1>7, SeqMonotonic, Zenon
<1>9. \A i \in DOMAIN dispatchEvent(h) : dispatchEvent(h)[i] \in Safe
  BY <1>5, <1>6, LenProperties, ElementOfSeq
<1> QED
  BY <1>8, <1>9 DEF Safe


\* What dispatchAll takes are requests that exist.
LEMMA TakenExist ==
  ASSUME TypeOK
  PROVE  /\ PendingIn(er, eList) \subseteq DOMAIN er
         /\ \A p \in Policies : Composite(er, get_by_suspendPolicy(er, eList, p)) \in SUBSET Nat
<1>1. er \in Seq(EventRequest) /\ eList \in Seq(DOMAIN er)
  BY DEF TypeOK
<1>2. ToSet(eList) \subseteq DOMAIN er
  BY <1>1 DEF ToSet
<1>3. DOMAIN er \subseteq Nat
  BY <1>1
<1> QED
  BY <1>2, <1>3 DEF PendingIn, Composite, get_by_suspendPolicy

\* The calls of dispatchAll.
LEMMA DispatchAllCalls ==
  ASSUME TypeOK
  PROVE  internalDispatchSet("NONE") \o internalDispatchSet("EVENT_THREAD")
           \o internalDispatchSet("ALL") \o <<Resume>> \in Seq(Call)
<1>1. ASSUME NEW p \in Policies PROVE internalDispatchSet(p) \in Seq(Call)
  <2> DEFINE taken == Composite(er, get_by_suspendPolicy(er, eList, p))
  <2>1. Send("ALL", p, taken) \in Call
    BY TakenExist, CallTypes DEF Sources
  <2> HIDE DEF taken
  <2>2. <<Send("ALL", p, taken)>> \in Seq(Call) /\ <<>> \in Seq(Call)
    BY <2>1, Tuples
  <2> QED
    BY <2>2 DEF internalDispatchSet, taken
<1>2. {"NONE", "EVENT_THREAD", "ALL"} \subseteq Policies
  BY DEF Policies
<1>3. <<Resume>> \in Seq(Call)
  BY CallTypes, Tuples
<1> QED
  BY <1>1, <1>2, <1>3, ConcatProperties

\* A call that returns.
LEMMA ReturnType ==
  ASSUME TypeOK, NEW t \in Threads, todo[t] # <<>>, Return(t)
  PROVE  /\ todo' \in [Threads -> Seq(Call)]
         /\ sub' \in [Threads -> {"idle", "loaded", "idLoaded", "idReady"}]
         /\ tmp' \in [Threads -> Nat]
BY BecomeType, Tuples DEF Return

LEMMA ReturnMade ==
  ASSUME TypeOK, RequestMade, NEW t \in Threads, todo[t] # <<>>, Return(t), er' = er,
         t = "jdwp" => Head(todo[t]).op # "newEvent"
  PROVE  RequestMade'
<1> DEFINE none == <<>>
<1>1. none \in Seq(Call) /\ \A i \in DOMAIN none : none[i].op \notin NeedsRequest
  BY Tuples
<1>2. Become(t, none)
  BY DEF Return
<1> HIDE DEF none
<1> QED
  BY <1>1, <1>2, BecomeMade

\* The initial states.
LEMMA TypeInit == Init => TypeInv
<1> SUFFICES ASSUME Init PROVE TypeInv
  OBVIOUS
<1>1. TypeOK
  <2>1. \A S : <<>> \in Seq(S)
    BY Tuples
  <2>2. suspendCounter \in 0 .. CounterMod - 1
    BY SessionAssumption DEF Init
  <2>3. /\ pc \in [Threads -> {"halt", "boundary", "check", "loop", "hold", "dispatch", "exec",
                              "return", "handshake", "release", "recv"}]
        /\ todo \in [Threads -> Seq(Call)]
        /\ sub \in [Threads -> {"idle", "loaded", "idLoaded", "idReady"}]
        /\ tmp \in [Threads -> Nat]
    BY <2>1 DEF Init
  <2> QED
    BY <2>1, <2>2, <2>3 DEF Init, TypeOK
<1>2. RequestMade
  BY DEF Init, RequestMade, MakesFirst, Threads
<1> QED
  BY <1>1, <1>2 DEF TypeInv

\* Steps of a call both threads make.
LEMMA CallStepType ==
  ASSUME TypeInv, NEW t \in Threads, CallStep(t)
  PROVE  TypeInv'
<1> USE DEF TypeInv
<1>1. TypeOK /\ RequestMade /\ <<>> \in Seq(Call)
  BY Tuples
<1>2. CASE SuspendLoad(t)
  <2>1. TypeOK'
    BY <1>1, <1>2 DEF SuspendLoad, Load, At, TypeOK, flags, list, counts, wire, ids, Threads, Nobody
  <2>2. RequestMade'
    BY <1>1, <1>2 DEF SuspendLoad, Load, RequestMade, list
  <2> QED
    BY <2>1, <2>2
<1>3. CASE ResumeLoad(t)
  <2>1. TypeOK'
    BY <1>1, <1>3 DEF ResumeLoad, Load, At, TypeOK, flags, list, counts, wire, ids, Threads, Nobody
  <2>2. RequestMade'
    BY <1>1, <1>3 DEF ResumeLoad, Load, RequestMade, list
  <2> QED
    BY <2>1, <2>2
<1>4. CASE NewEventLoad(t)
  <2>1. TypeOK'
    BY <1>1, <1>4 DEF NewEventLoad, Load, At, TypeOK, flags, list, counts, wire, ids, Threads, Nobody
  <2>2. RequestMade'
    BY <1>1, <1>4 DEF NewEventLoad, Load, RequestMade, list
  <2> QED
    BY <2>1, <2>2
<1>5. CASE GenIdLoad(t)
  <2>1. TypeOK'
    BY <1>1, <1>5 DEF GenIdLoad, At, TypeOK, flags, list, counts, wire, ids, Threads, Nobody
  <2>2. RequestMade'
    BY <1>1, <1>5 DEF GenIdLoad, RequestMade, list
  <2> QED
    BY <2>1, <2>2
<1>6. CASE GenIdStore(t)
  <2>1. TypeOK'
    BY <1>1, <1>6 DEF GenIdStore, At, TypeOK, flags, list, counts, wire, ids, Threads, Nobody
  <2>2. RequestMade'
    BY <1>1, <1>6 DEF GenIdStore, RequestMade, list
  <2> QED
    BY <2>1, <2>2
<1>7. CASE SuspendStore(t)
  <2>1. todo[t] # <<>> /\ Return(t) /\ Head(todo[t]).op # "newEvent"
    BY <1>7 DEF SuspendStore, At
  <2>2. suspendCounter' \in 0 .. CounterMod - 1
    BY <1>1, <1>7, SessionAssumption, SMTT(30) DEF SuspendStore, TypeOK
  <2>3. TypeOK'
    BY <1>1, <1>7, <2>1, <2>2, ReturnType DEF SuspendStore, TypeOK, flags, list, counts, wire, ids
  <2>4. RequestMade'
    BY <1>1, <1>7, <2>1, ReturnMade DEF SuspendStore, list
  <2> QED
    BY <2>3, <2>4
<1>8. CASE ResumeStore(t)
  <2>1. todo[t] # <<>> /\ Return(t) /\ Head(todo[t]).op # "newEvent"
    BY <1>8 DEF ResumeStore, At
  <2>2. suspendCounter' \in 0 .. CounterMod - 1
    BY <1>1, <1>8, SessionAssumption, SMTT(30) DEF ResumeStore, TypeOK
  <2>3. TypeOK'
    BY <1>1, <1>8, <2>1, <2>2, ReturnType DEF ResumeStore, TypeOK, flags, list, counts, wire, ids
  <2>4. RequestMade'
    BY <1>1, <1>8, <2>1, ReturnMade DEF ResumeStore, list
  <2> QED
    BY <2>3, <2>4
<1>9. CASE NewEventStore(t)
  <2>1. todo[t] # <<>> /\ Return(t) /\ Head(todo[t]).op = "newEvent" /\ tmp[t] \in Nat
    BY <1>1, <1>9 DEF NewEventStore, At, TypeOK
  <2>2. Head(todo[t]).req \in EventRequest
    BY <1>1, <2>1, HeadCall, CallFields
  <2> DEFINE e == [Head(todo[t]).req EXCEPT !.id = tmp[t]]
  <2>3. er' \in Seq(EventRequest) /\ DOMAIN er \subseteq DOMAIN er' /\ (t = "jdwp" => er' # <<>>)
    <3>1. e \in EventRequest
      BY <2>1, <2>2 DEF EventRequest
    <3>2. er' = IF t = "jdwp" THEN Append(er, e) ELSE er
      BY <1>9 DEF NewEventStore
    <3> HIDE DEF e
    <3>3. er \in Seq(EventRequest)
      BY <1>1 DEF TypeOK
    <3>4. /\ Append(er, e) \in Seq(EventRequest) /\ Len(Append(er, e)) = Len(er) + 1
          /\ Len(er) \in Nat
      BY <3>1, <3>3, AppendProperties, LenProperties
    <3>5. DOMAIN er \subseteq DOMAIN Append(er, e) /\ Append(er, e) # <<>>
      BY <3>3, <3>4, LenProperties
    <3> QED
      BY <3>2, <3>3, <3>4, <3>5
  <2>4. eList \in Seq(DOMAIN er')
    BY <1>1, <2>3, SeqMonotonic, Zenon DEF TypeOK
  <2> HIDE DEF e
  <2>5. TypeOK'
    <3>1. eventRequestid_count' \in Nat
      BY <1>9, <2>1 DEF NewEventStore
    <3> QED
      BY <1>1, <1>9, <2>1, <2>3, <2>4, <3>1, ReturnType
         DEF NewEventStore, TypeOK, flags, counts, wire, ids
  <2>6. RequestMade'
    <3>1. CASE t = "jdwp"
      BY <2>3, <3>1 DEF RequestMade
    <3>2. CASE t = "vm"
      BY <1>1, <1>9, <2>1, <3>2, ReturnMade DEF NewEventStore
    <3> QED
      BY <3>1, <3>2 DEF Threads
  <2> QED
    BY <2>5, <2>6
<1>10. CASE SendEvent(t)
  <2>1. todo[t] # <<>> /\ Return(t) /\ Head(todo[t]).op = "send" /\ tmp[t] \in Nat
    BY <1>1, <1>10 DEF SendEvent, At, TypeOK
  <2> DEFINE c == Head(todo[t])
             e == [id |-> tmp[t], src |-> c.src, policy |-> c.policy, reqs |-> c.reqs]
  <2>2. c.src \in Sources /\ c.policy \in Policies /\ c.reqs \in SUBSET Nat
    BY <1>1, <2>1, HeadCall, CallFields
  <2>3. e \in [id : Nat, src : Sources, policy : Policies, reqs : SUBSET Nat]
    BY <2>1, <2>2
  <2>4. events' = Append(events, e)
    BY <1>10 DEF SendEvent
  <2> HIDE DEF e
  <2>5. events' \in Seq([id : Nat, src : Sources, policy : Policies, reqs : SUBSET Nat])
    BY <1>1, <2>3, <2>4 DEF TypeOK
  <2>6. TypeOK'
    BY <1>1, <1>10, <2>1, <2>5, ReturnType DEF SendEvent, TypeOK, flags, list, counts, ids
  <2>7. RequestMade'
    BY <1>1, <1>10, <2>1, ReturnMade DEF SendEvent, list
  <2> QED
    BY <2>6, <2>7
<1> QED
  BY <1>2, <1>3, <1>4, <1>5, <1>6, <1>7, <1>8, <1>9, <1>10 DEF CallStep

\* ... also when it rewrites the flags of the requests.
LEMMA ReturnMade2 ==
  ASSUME TypeOK, RequestMade, NEW t \in Threads, todo[t] # <<>>, Return(t),
         er' = <<>> => er = <<>>, t = "jdwp" => Head(todo[t]).op # "newEvent"
  PROVE  RequestMade'
<1> DEFINE none == <<>>
<1>1. none \in Seq(Call) /\ \A i \in DOMAIN none : none[i].op \notin NeedsRequest
  BY Tuples
<1>2. Become(t, none)
  BY DEF Return
<1> HIDE DEF none
<1> QED
  BY <1>1, <1>2, BecomeMade

\* A call that only reads the counter.
LEMMA ReadCounterType ==
  ASSUME TypeInv, NEW op, op # "newEvent", NEW calls \in Seq(Call),
         \A i \in DOMAIN calls : calls[i].op \notin NeedsRequest, ReadCounter(op, calls)
  PROVE  TypeInv'
<1>1. todo["jdwp"] # <<>> /\ Become("jdwp", calls) /\ Head(todo["jdwp"]).op # "newEvent"
  BY DEF ReadCounter, At
<1>2. "jdwp" \in Threads /\ TypeOK /\ RequestMade
  BY DEF Threads, TypeInv
<1>3. TypeOK'
  BY <1>1, <1>2, BecomeType DEF ReadCounter, TypeOK, flags, list, counts, wire, ids
<1>4. RequestMade'
  BY <1>1, <1>2, BecomeMade DEF ReadCounter, list
<1> QED
  BY <1>3, <1>4 DEF TypeInv

\* One call is a list that needs no request unless it is one of the three.
LEMMA OneCall ==
  ASSUME NEW d \in Plain
  PROVE  <<d>> \in Seq(Call) /\ \A i \in DOMAIN <<d>> : <<d>>[i].op \notin NeedsRequest
<1>1. <<d>> \in Seq(Plain)
  BY Tuples
<1> DEFINE q == <<d>>
<1> HIDE DEF q
<1>2. q \in Seq(Call) /\ \A i \in DOMAIN q : q[i].op \notin NeedsRequest
  BY <1>1, PlainLists DEF q
<1> QED
  BY <1>2 DEF q

\* A call that needs a request has one.
LEMMA HasRequest ==
  ASSUME TypeInv, todo["jdwp"] # <<>>, Head(todo["jdwp"]).op \in NeedsRequest
  PROVE  Len(er) \in DOMAIN er
<1>1. er \in Seq(EventRequest) /\ todo["jdwp"] \in Seq(Call)
  BY DEF TypeInv, TypeOK, Threads
<1>2. er # <<>>
  <2>1. SUFFICES ASSUME er = <<>> PROVE FALSE
    OBVIOUS
  <2>2. MakesFirst(todo["jdwp"])
    BY <2>1 DEF TypeInv, RequestMade
  <2>3. 1 \in DOMAIN todo["jdwp"] /\ Head(todo["jdwp"]) = todo["jdwp"][1]
    BY <1>1
  <2> QED
    BY <2>2, <2>3 DEF MakesFirst, NeedsRequest
<1> QED
  BY <1>1, <1>2

\* The steps of the JDWP thread's own.
LEMMA JDWPStepType ==
  ASSUME TypeInv, JDWPStep
  PROVE  TypeInv'
<1>1. /\ TypeOK /\ RequestMade /\ <<>> \in Seq(Call) /\ "jdwp" \in Threads
      /\ \A i \in DOMAIN <<>> : <<>>[i].op \notin NeedsRequest
  BY Tuples DEF TypeInv, Threads
<1>2. todo["jdwp"] # <<>> => Head(todo["jdwp"]) \in Call
  BY <1>1, HeadCall
<1>3. CASE CallStep("jdwp")
  BY <1>1, <1>3, CallStepType
<1>4. CASE ExitProcess("jdwp")
  <2>1. todo["jdwp"] # <<>> /\ Return("jdwp") /\ Head(todo["jdwp"]).op # "newEvent"
    BY <1>4 DEF ExitProcess, At
  <2>2. TypeOK'
    BY <1>1, <1>4, <2>1, ReturnType DEF ExitProcess, TypeOK, flags, list, counts, wire, ids
  <2>3. RequestMade'
    BY <1>1, <1>4, <2>1, ReturnMade DEF ExitProcess, list
  <2> QED
    BY <2>2, <2>3 DEF TypeInv
<1>5. CASE onHandShake
  <2>1. <<Send("VM_INIT", "NONE", {})>> \in Seq(Call)
    BY CallTypes, Tuples DEF Sources, Policies
  <2>2. /\ todo' \in [Threads -> Seq(Call)] /\ alive' \in BOOLEAN
        /\ pc' \in [Threads -> {"halt", "boundary", "check", "loop", "hold", "dispatch", "exec",
                                "return", "handshake", "release", "recv"}]
    <3> DEFINE q == <<Send("VM_INIT", "NONE", {})>>
    <3>1. \/ todo' = [todo EXCEPT !["jdwp"] = q] /\ pc' = [pc EXCEPT !["jdwp"] = "release"]
             /\ UNCHANGED alive
          \/ alive' = FALSE /\ UNCHANGED <<todo, pc>>
      BY <1>5 DEF onHandShake
    <3>2. q \in Seq(Call)
      BY <2>1
    <3> HIDE DEF q
    <3>3. todo' \in [Threads -> Seq(Call)]
      <4>1. todo \in [Threads -> Seq(Call)]
        BY <1>1 DEF TypeOK
      <4>2. CASE todo' = todo
        BY <4>1, <4>2
      <4>3. CASE todo' = [todo EXCEPT !["jdwp"] = q]
        BY <3>2, <4>1, <4>3
      <4> QED
        BY <3>1, <4>2, <4>3
    <3>4. alive' \in BOOLEAN
      BY <1>1, <3>1 DEF TypeOK
    <3>5. /\ pc \in [Threads -> {"halt", "boundary", "check", "loop", "hold", "dispatch", "exec",
                                "return", "handshake", "release", "recv"}]
      BY <1>1 DEF TypeOK
    <3> QED
      BY <3>1, <3>3, <3>4, <3>5
  <2>4. TypeOK'
    BY <1>1, <1>5, <2>2 DEF onHandShake, TypeOK, flags, list, counts, wire, ids
  <2>3. RequestMade'
    <3>1. CASE todo' = todo
      BY <1>1, <1>5, <3>1 DEF onHandShake, RequestMade, list
    <3>2. CASE todo'["jdwp"] = <<Send("VM_INIT", "NONE", {})>>
      BY <3>2 DEF RequestMade, MakesFirst, Send, NeedsRequest
    <3> QED
      BY <1>1, <1>5, <3>1, <3>2 DEF onHandShake, TypeOK
  <2> QED
    BY <2>4, <2>3 DEF TypeInv
<1>6. CASE release_jdwpInitHalt
  BY <1>1, <1>6 DEF release_jdwpInitHalt, Idle, TypeInv, TypeOK, RequestMade, flags, list, counts, wire, ids
<1>7. CASE SendReply
  <2>1. todo["jdwp"] # <<>> /\ Return("jdwp") /\ Head(todo["jdwp"]).op # "newEvent"
    BY <1>7 DEF SendReply, At
  <2>2. replies' \in Seq([n : Nat, what : Whats, val : Nat])
    <3> DEFINE c == Head(todo["jdwp"])
               r == [n |-> c.n, what |-> c.what, val |-> c.val]
    <3>1. c.op = "reply" /\ replies' = Append(replies, r)
      BY <1>7 DEF SendReply, At
    <3>2. r \in [n : Nat, what : Whats, val : Nat]
      BY <1>2, <2>1, <3>1, CallFields
    <3> HIDE DEF r
    <3> QED
      BY <1>1, <3>1, <3>2 DEF TypeOK
  <2>3. TypeOK'
    BY <1>1, <1>7, <2>1, <2>2, ReturnType DEF SendReply, TypeOK, flags, list, counts, ids
  <2>4. RequestMade'
    BY <1>1, <1>7, <2>1, ReturnMade DEF SendReply, list
  <2> QED
    BY <2>3, <2>4 DEF TypeInv
<1>8. CASE SendRequestId
  <2>1. todo["jdwp"] # <<>> /\ Return("jdwp") /\ Head(todo["jdwp"]).op # "newEvent"
    BY <1>8 DEF SendRequestId, At
  <2>2. replies' \in Seq([n : Nat, what : Whats, val : Nat])
    <3> DEFINE r == [n |-> Head(todo["jdwp"]).n, what |-> "ER_Set", val |-> er[Len(er)].id]
    <3>1. Head(todo["jdwp"]).op = "replyId" /\ replies' = Append(replies, r)
      BY <1>8 DEF SendRequestId, At
    <3>2. Head(todo["jdwp"]).n \in Nat
      BY <1>2, <2>1, <3>1, CallFields
    <3>3. er[Len(er)].id \in Nat
      <4>1. Len(er) \in DOMAIN er
        BY <2>1, <3>1, HasRequest DEF NeedsRequest
      <4>2. er[Len(er)] \in EventRequest
        BY <1>1, <4>1 DEF TypeOK
      <4> QED
        BY <4>2 DEF EventRequest
    <3>4. r \in [n : Nat, what : Whats, val : Nat]
      BY <3>2, <3>3 DEF Whats
    <3> HIDE DEF r
    <3> QED
      BY <1>1, <3>1, <3>4 DEF TypeOK
  <2>3. TypeOK'
    BY <1>1, <1>8, <2>1, <2>2, ReturnType DEF SendRequestId, TypeOK, flags, list, counts, ids
  <2>4. RequestMade'
    BY <1>1, <1>8, <2>1, ReturnMade DEF SendRequestId, list
  <2> QED
    BY <2>3, <2>4 DEF TypeInv
<1>9. CASE ReadStatus
  <2>1. Head(todo["jdwp"]).n \in Nat
    BY <1>2, <1>9, CallFields DEF ReadStatus, ReadCounter, At
  <2> DEFINE d == Answer(Head(todo["jdwp"]).n, "TR_Status", IF isVM_Suspended THEN 1 ELSE 0)
  <2>2. d \in Plain
    BY <2>1, PlainCalls DEF Whats
  <2>3. ReadCounter("status", <<d>>)
    BY <1>9 DEF ReadStatus
  <2> HIDE DEF d
  <2> QED
    BY <2>2, <2>3, OneCall, ReadCounterType
<1>10. CASE ReadIsSuspended
  <2>1. Head(todo["jdwp"]).n \in Nat
    BY <1>2, <1>10, CallFields DEF ReadIsSuspended, ReadCounter, At
  <2> DEFINE d == IF isVM_Suspended THEN Do("readCount", Head(todo["jdwp"]).n)
                  ELSE Reply(Head(todo["jdwp"]).n, "TR_SuspendCount")
  <2>2. d \in Plain
    BY <2>1, PlainCalls DEF Whats
  <2>3. ReadCounter("count", <<d>>)
    BY <1>10 DEF ReadIsSuspended
  <2> HIDE DEF d
  <2> QED
    BY <2>2, <2>3, OneCall, ReadCounterType
<1>11. CASE ReadSuspendCount
  <2>1. Head(todo["jdwp"]).n \in Nat
    BY <1>2, <1>11, CallFields DEF ReadSuspendCount, ReadCounter, At
  <2>2. suspendCounter \in Nat
    BY <1>1, SessionAssumption DEF TypeOK
  <2> DEFINE d == Answer(Head(todo["jdwp"]).n, "TR_SuspendCount", suspendCounter)
  <2>3. d \in Plain
    BY <2>1, <2>2, PlainCalls DEF Whats
  <2>4. ReadCounter("readCount", <<d>>)
    BY <1>11 DEF ReadSuspendCount
  <2> HIDE DEF d
  <2> QED
    BY <2>3, <2>4, OneCall, ReadCounterType
<1>12. CASE StartIfLast
  <2> DEFINE calls == IF suspendCounter <= 1 /\ erTHREAD_START # 0
                      THEN dispatchEvent(erTHREAD_START) ELSE <<>>
  <2>1. erTHREAD_START # 0 => erTHREAD_START \in DOMAIN er
    BY <1>1 DEF TypeOK
  <2>2. calls \in Seq(Call) /\ \A i \in DOMAIN calls : calls[i].op \notin NeedsRequest
    BY <1>1, <2>1, DispatchCalls
  <2>3. ReadCounter("startIfLast", calls)
    BY <1>12 DEF StartIfLast
  <2> HIDE DEF calls
  <2> QED
    BY <2>2, <2>3, ReadCounterType
<1>13. CASE ForceEarlyReturn
  <2> DEFINE c == Head(todo["jdwp"])
             calls == IF ~isVM_Suspended \/ ~c.app THEN <<Error(c.n)>>
                      ELSE IF c.badTag THEN <<Error(c.n), Resume>> ELSE <<Resume>>
  <2>1. ReadCounter("forceEarly", calls)
    BY <1>13 DEF ForceEarlyReturn
  <2>2. c.n \in Nat
    BY <1>2, <2>1, CallFields DEF ReadCounter, At
  <2>3. calls \in Seq(Plain)
    <3>1. Error(c.n) \in Plain /\ Resume \in Plain
      BY <2>2, PlainCalls
    <3>2. <<Error(c.n)>> \in Seq(Plain) /\ <<Error(c.n), Resume>> \in Seq(Plain)
          /\ <<Resume>> \in Seq(Plain)
      BY <3>1, Tuples
    <3> QED
      BY <3>2
  <2> HIDE DEF calls
  <2>4. calls \in Seq(Call) /\ \A i \in DOMAIN calls : calls[i].op \notin NeedsRequest
    BY <2>3, PlainLists
  <2> QED
    BY <2>1, <2>4, ReadCounterType
<1>14. CASE HoldEvents
  <2>1. todo["jdwp"] # <<>> /\ Return("jdwp") /\ Head(todo["jdwp"]).op # "newEvent"
    BY <1>14 DEF HoldEvents, At
  <2>2. TypeOK'
    BY <1>1, <1>14, <2>1, ReturnType DEF HoldEvents, TypeOK, flags, list, counts, wire, ids
  <2>3. RequestMade'
    BY <1>1, <1>14, <2>1, ReturnMade DEF HoldEvents, list
  <2> QED
    BY <2>2, <2>3 DEF TypeInv
<1>15. CASE MarkDispatched
  <2>1. todo["jdwp"] # <<>> /\ Return("jdwp") /\ Head(todo["jdwp"]).op # "newEvent"
    BY <1>15 DEF MarkDispatched, At
  <2>2. er' \in Seq(EventRequest) /\ DOMAIN er' = DOMAIN er
    <3>1. er \in Seq(EventRequest)
      BY <1>1 DEF TypeOK
    <3>2. er' = [er EXCEPT ![Head(todo["jdwp"]).n].triggered = FALSE]
      BY <1>15 DEF MarkDispatched
    <3>3. \A i \in DOMAIN er : er[i] \in EventRequest
                            /\ [er[i] EXCEPT !.triggered = FALSE] \in EventRequest
      <4>1. \A e \in EventRequest : [e EXCEPT !.triggered = FALSE] \in EventRequest
        BY DEF EventRequest
      <4> QED
        BY <3>1, <4>1
    <3>4. er' = [i \in DOMAIN er |-> IF i = Head(todo["jdwp"]).n
                                     THEN [er[i] EXCEPT !.triggered = FALSE] ELSE er[i]]
      BY <3>1, <3>2
    <3>5. er' \in [DOMAIN er -> EventRequest]
      BY <3>3, <3>4
    <3> QED
      BY <3>1, <3>5, SameLength
  <2>3. TypeOK'
    BY <1>1, <1>15, <2>1, <2>2, ReturnType DEF MarkDispatched, TypeOK, flags, counts, wire, ids
  <2>4. er' = <<>> => er = <<>>
    BY <1>1, <1>15 DEF MarkDispatched, TypeOK
  <2>5. RequestMade'
    BY <1>1, <2>1, <2>4, ReturnMade2
  <2> QED
    BY <2>3, <2>5 DEF TypeInv
<1>16. CASE NoteThreadStart
  <2>1. todo["jdwp"] # <<>> /\ Return("jdwp") /\ Head(todo["jdwp"]).op # "newEvent"
    BY <1>16 DEF NoteThreadStart, At
  <2>2. Len(er) \in DOMAIN er
    BY <1>16, <2>1, HasRequest DEF NoteThreadStart, At, NeedsRequest
  <2>3. TypeOK'
    BY <1>1, <1>16, <2>1, <2>2, ReturnType DEF NoteThreadStart, TypeOK, flags, counts, wire, ids
  <2>4. RequestMade'
    BY <1>1, <1>16, <2>1, ReturnMade DEF NoteThreadStart, list
  <2> QED
    BY <2>3, <2>4 DEF TypeInv
<1>17. CASE InsertRequest
  <2>1. todo["jdwp"] # <<>> /\ Return("jdwp") /\ Head(todo["jdwp"]).op # "newEvent"
    BY <1>17 DEF InsertRequest, At
  <2>2. eList' \in Seq(DOMAIN er)
    <3>1. Len(er) \in DOMAIN er
      BY <1>17, <2>1, HasRequest DEF InsertRequest, At, NeedsRequest
    <3>2. <<Len(er)>> \in Seq(DOMAIN er) /\ eList \in Seq(DOMAIN er)
      BY <1>1, <3>1, Tuples DEF TypeOK
    <3>3. <<Len(er)>> \o eList \in Seq(DOMAIN er)
      BY <3>2, ConcatProperties
    <3> QED
      BY <1>17, <3>3 DEF InsertRequest
  <2>3. TypeOK'
    BY <1>1, <1>17, <2>1, <2>2, ReturnType DEF InsertRequest, TypeOK, flags, counts, wire, ids
  <2>4. RequestMade'
    BY <1>1, <1>17, <2>1, ReturnMade DEF InsertRequest, list
  <2> QED
    BY <2>3, <2>4 DEF TypeInv
<1>18. CASE RemoveRequest
  <2>1. todo["jdwp"] # <<>> /\ Return("jdwp") /\ Head(todo["jdwp"]).op # "newEvent"
    BY <1>18 DEF RemoveRequest, At
  <2>2. eList' \in Seq(DOMAIN er) /\ terminated' \in BOOLEAN /\ alive' \in BOOLEAN
    <3>1. internal_remove(er, eList, Head(todo["jdwp"]).kind, Head(todo["jdwp"]).id) \in Seq(DOMAIN er)
      BY <1>1, RemoveType DEF TypeOK
    <3>2. internal_remove_terminates(er, eList, terminated, Head(todo["jdwp"]).kind, Head(todo["jdwp"]).id) \in BOOLEAN
      BY <1>1 DEF TypeOK, internal_remove_terminates
    <3> QED
      BY <1>1, <1>18, <3>1, <3>2 DEF RemoveRequest, TypeOK
  <2>3. TypeOK'
    BY <1>1, <1>18, <2>1, <2>2, ReturnType DEF RemoveRequest, TypeOK, counts, wire, ids
  <2>4. RequestMade'
    BY <1>1, <1>18, <2>1, ReturnMade DEF RemoveRequest, list
  <2> QED
    BY <2>3, <2>4 DEF TypeInv
<1>19. CASE RemoveAllRound
  <2>1. eList' \in Seq(DOMAIN er) /\ terminated' \in BOOLEAN /\ alive' \in BOOLEAN
    <3>1. internal_remove(er, eList, "BREAKPOINT", er[FirstOfKind(er, eList, "BREAKPOINT")].id) \in Seq(DOMAIN er)
      BY <1>1, RemoveType DEF TypeOK
    <3>2. internal_remove_terminates(er, eList, terminated, "BREAKPOINT", er[FirstOfKind(er, eList, "BREAKPOINT")].id) \in BOOLEAN
      BY <1>1 DEF TypeOK, internal_remove_terminates
    <3> QED
      BY <1>1, <1>19, <3>1, <3>2 DEF RemoveAllRound, TypeOK
  <2>2. TypeOK'
    BY <1>1, <1>19, <2>1 DEF RemoveAllRound, TypeOK, threads, counts, wire, ids
  <2>3. RequestMade'
    BY <1>1, <1>19 DEF RemoveAllRound, RequestMade, threads
  <2> QED
    BY <2>2, <2>3 DEF TypeInv
<1>20. CASE RemoveAllDone
  <2>1. todo["jdwp"] # <<>> /\ Return("jdwp") /\ Head(todo["jdwp"]).op # "newEvent"
    BY <1>20 DEF RemoveAllDone, At
  <2>2. TypeOK'
    BY <1>1, <1>20, <2>1, ReturnType DEF RemoveAllDone, TypeOK, flags, list, counts, wire, ids
  <2>3. RequestMade'
    BY <1>1, <1>20, <2>1, ReturnMade DEF RemoveAllDone, list
  <2> QED
    BY <2>2, <2>3 DEF TypeInv
<1> QED
  BY <1>3, <1>4, <1>5, <1>6, <1>7, <1>8, <1>9, <1>10, <1>11, <1>12, <1>13, <1>14, <1>15, <1>16, <1>17, <1>18, <1>19, <1>20 DEF JDWPStep

\* A new list of calls for the VM thread, which had none left.
LEMMA VMCallsType ==
  ASSUME TypeInv, NEW calls \in Seq(Call), todo' = [todo EXCEPT !["vm"] = calls]
  PROVE  /\ todo' \in [Threads -> Seq(Call)]
         /\ (er' = <<>> => er = <<>>) => RequestMade'
<1>1. todo \in [Threads -> Seq(Call)]
  BY DEF TypeInv, TypeOK
<1>2. todo'["jdwp"] = todo["jdwp"]
  BY <1>1 DEF Threads
<1> QED
  BY <1>1, <1>2 DEF TypeInv, RequestMade

Labels == {"halt", "boundary", "check", "loop", "hold", "dispatch", "exec", "return",
           "handshake", "release", "recv"}

LEMMA MoveType ==
  ASSUME TypeInv, NEW from, NEW to \in Labels, Move(from, to)
  PROVE  TypeInv'
<1>1. pc' \in [Threads -> Labels]
  BY DEF Move, Goto, TypeInv, TypeOK, Labels
<1> QED
  BY <1>1 DEF Move, TypeInv, TypeOK, RequestMade, Labels, flags, list, counts, wire, ids

\* The steps of the VM thread's own.
LEMMA VMStepType ==
  ASSUME TypeInv, VMStep
  PROVE  TypeInv'
<1>1. TypeOK /\ RequestMade /\ <<>> \in Seq(Call) /\ "vm" \in Threads
  BY Tuples DEF TypeInv, Threads
<1>2. CASE CallStep("vm")
  BY <1>1, <1>2, CallStepType
<1>3. CASE LeaveInitHalt
  BY <1>3, MoveType DEF LeaveInitHalt, Labels
<1>4. CASE PassChecks
  BY <1>4, MoveType DEF PassChecks, Labels
<1>5. CASE RaiseException
  <2> DEFINE calls == <<NewEvent(NoRequest), Suspend, Send("EXCEPTION", "ALL", {})>>
  <2>1. calls \in Seq(Call)
    <3>1. NoRequest \in EventRequest
      BY KindsAssumption DEF NoRequest, EventRequest, Policies
    <3>2. NewEvent(NoRequest) \in Call /\ Suspend \in Call /\ Send("EXCEPTION", "ALL", {}) \in Call
      BY <3>1, CallTypes DEF Sources, Policies
    <3> QED
      BY <3>2, Tuples
  <2>2. todo' = [todo EXCEPT !["vm"] = calls] /\ er' = er
    BY <1>5 DEF RaiseException, list
  <2> HIDE DEF calls
  <2>3. todo' \in [Threads -> Seq(Call)] /\ RequestMade'
    BY <2>1, <2>2, VMCallsType
  <2>4. pc' \in [Threads -> Labels]
    BY <1>1, <1>5 DEF RaiseException, Goto, TypeOK, Labels
  <2>5. TypeOK'
    BY <1>1, <1>5, <2>3, <2>4, SMTT(30) DEF RaiseException, TypeOK, Labels, flags, list, wire, ids
  <2> QED
    BY <2>3, <2>5 DEF TypeInv
<1>6. CASE check_forEvents
  <2> DEFINE calls == IF PendingIn(er, eList) # {} THEN <<Suspend>> ELSE <<>>
  <2>1. calls \in Seq(Call)
    BY <1>1, CallTypes, Tuples
  <2>2. todo' = [todo EXCEPT !["vm"] = calls] /\ er' = er
    BY <1>6 DEF check_forEvents, list
  <2> HIDE DEF calls
  <2>3. todo' \in [Threads -> Seq(Call)] /\ RequestMade'
    BY <2>1, <2>2, VMCallsType
  <2>4. pc' \in [Threads -> Labels]
    BY <1>1, <1>6 DEF check_forEvents, Goto, TypeOK, Labels
  <2>5. TypeOK'
    BY <1>1, <1>6, <2>3, <2>4
       DEF check_forEvents, TypeOK, Labels, flags, list, counts, wire, ids
  <2> QED
    BY <2>3, <2>5 DEF TypeInv
<1>7. CASE EnterSuspendLoop
  BY <1>7, MoveType DEF EnterSuspendLoop, Labels
<1>8. CASE LeaveSuspendLoop
  BY <1>8, MoveType DEF LeaveSuspendLoop, Labels
<1>9. CASE PassHold
  BY <1>9, MoveType DEF PassHold, Labels
<1>10. CASE dispatchAll
  <2> DEFINE calls == internalDispatchSet("NONE") \o internalDispatchSet("EVENT_THREAD")
                        \o internalDispatchSet("ALL") \o <<Resume>>
  <2>1. calls \in Seq(Call)
    BY <1>1, DispatchAllCalls
  <2>2. er' \in Seq(EventRequest) /\ DOMAIN er' = DOMAIN er
    <3>1. er \in Seq(EventRequest)
      BY <1>1 DEF TypeOK
    <3>2. \A e \in EventRequest : [e EXCEPT !.triggered = FALSE, !.isremoved = TRUE] \in EventRequest
      BY DEF EventRequest
    <3>3. \A h \in DOMAIN er : er[h] \in EventRequest
      BY <3>1
    <3>4. er' = [h \in DOMAIN er |-> IF h \in PendingIn(er, eList)
                 THEN [er[h] EXCEPT !.triggered = FALSE, !.isremoved = TRUE] ELSE er[h]]
      BY <1>10 DEF dispatchAll, Reported
    <3>5. er' \in [DOMAIN er -> EventRequest]
      BY <3>2, <3>3, <3>4
    <3> QED
      BY <3>1, <3>5, SameLength
  <2>3. todo' = [todo EXCEPT !["vm"] = calls]
    BY <1>10 DEF dispatchAll
  <2>4. er' = <<>> => er = <<>>
    BY <1>1, <2>2 DEF TypeOK
  <2> HIDE DEF calls
  <2>5. todo' \in [Threads -> Seq(Call)] /\ RequestMade'
    BY <2>1, <2>3, <2>4, VMCallsType
  <2>6. pc' \in [Threads -> Labels]
    BY <1>1, <1>10 DEF dispatchAll, Goto, TypeOK, Labels
  <2>7. TypeOK'
    BY <1>1, <1>10, <2>2, <2>5, <2>6
       DEF dispatchAll, TypeOK, Labels, flags, counts, wire, ids
  <2> QED
    BY <2>5, <2>7 DEF TypeInv
<1>11. CASE ExecOpcode
  BY <1>11, MoveType DEF ExecOpcode, Labels
<1>12. CASE ReturnFromMain
  BY <1>1, <1>12
     DEF ReturnFromMain, TypeInv, TypeOK, RequestMade, list, threads, counts, wire, ids
<1> QED
  BY <1>2, <1>3, <1>4, <1>5, <1>6, <1>7, <1>8, <1>9, <1>10, <1>11, <1>12 DEF VMStep

\* The debugger's packets and its disconnection.
LEMMA DebuggerType ==
  ASSUME TypeInv, Debugger
  PROVE  TypeInv'
<1>1. TypeOK /\ RequestMade
  BY DEF TypeInv
<1>2. CASE Disconnect
  BY <1>1, <1>2 DEF Disconnect, TypeInv, TypeOK, RequestMade, list, threads, counts, wire, ids
<1>3. ASSUME NEW c \in Commands, onReceive(c) PROVE TypeInv'
  <2>1. c \in Command /\ mpacket' \in Nat /\ commands' \in Nat
    BY <1>1, <1>3, SessionAssumption DEF onReceive, TypeOK
  <2> DEFINE calls == onCommand(c, mpacket')
  <2>2. calls \in Seq(Call) /\ MakesFirst(calls)
    BY <2>1, Handlers
  <2>3. todo' = [todo EXCEPT !["jdwp"] = calls]
    BY <1>3 DEF onReceive
  <2> HIDE DEF calls
  <2>4. todo \in [Threads -> Seq(Call)]
    BY <1>1 DEF TypeOK
  <2>5. todo' \in [Threads -> Seq(Call)] /\ todo'["jdwp"] = calls
    BY <2>2, <2>3, <2>4 DEF Threads
  <2>6. TypeOK'
    BY <1>1, <1>3, <2>1, <2>5 DEF onReceive, TypeOK, flags, list, wire, ids
  <2>7. RequestMade'
    BY <2>2, <2>5 DEF RequestMade
  <2> QED
    BY <2>6, <2>7 DEF TypeInv
<1> QED
  BY <1>2, <1>3 DEF Debugger

\* Every step keeps the states typed.
LEMMA TypeStep ==
  ASSUME TypeInv, [Next]_vars
  PROVE  TypeInv'
<1>1. CASE UNCHANGED vars
  BY <1>1 DEF vars, TypeInv, TypeOK, RequestMade, flags, list, threads, counts, wire, ids
<1>2. CASE Spin
  BY <1>1, <1>2 DEF Spin
<1> QED
  BY <1>1, <1>2, JDWPStepType, VMStepType, DebuggerType DEF Next

\* Type correctness, for every width of the counter, any number of packets and
\* exceptions, and every set of commands: the counter stays within its u1, every
\* handle points at a request, and what is left to do is a list of calls.
THEOREM TypeCorrect == Spec => []TypeOK
<1>1. Init => TypeInv
  BY TypeInit
<1>2. TypeInv /\ [Next]_vars => TypeInv'
  BY TypeStep
<1>3. TypeInv => TypeOK
  BY DEF TypeInv
<1> QED
  BY <1>1, <1>2, <1>3, PTL DEF Spec

-----------------------------------------------------------------------------
(* Packet ids                                                              *)

\* The thread that has read PACKET_ID_UNIQUE and not yet written it owns the mutex ...
LockHeld == \A t \in Threads : idMutex = t <=> sub[t] = "idLoaded"

\* ... so what it read is still the value of the variable.
FreshId == \A t \in Threads : sub[t] = "idLoaded" => tmp[t] = PACKET_ID_UNIQUE

\* An id taken and not yet sent was handed out once, to one thread.
ReadyId ==
  \A t \in Threads : sub[t] = "idReady" =>
    /\ tmp[t] < PACKET_ID_UNIQUE
    /\ \A i \in DOMAIN events : events[i].id # tmp[t]

ReadyApart ==
  \A t, u \in Threads :
    t # u /\ sub[t] = "idReady" /\ sub[u] = "idReady" => tmp[t] # tmp[u]

\* Every id on the wire was handed out before.
SentIds == \A i \in DOMAIN events : events[i].id < PACKET_ID_UNIQUE

IdInv == LockHeld /\ FreshId /\ ReadyId /\ ReadyApart /\ SentIds /\ PacketIdsUnique

\* Steps that leave the ids alone: the threads' part of them either stays as it
\* is or moves for one thread that holds no id.
LeavesIds ==
  /\ UNCHANGED <<PACKET_ID_UNIQUE, idMutex, events>>
  /\ \/ UNCHANGED <<sub, tmp>>
     \/ \E t \in Threads :
          /\ sub[t] \in {"idle", "loaded"} /\ sub'[t] \in {"idle", "loaded"}
          /\ \A u \in Threads \ {t} : sub'[u] = sub[u] /\ tmp'[u] = tmp[u]

LEMMA LeavesIdsKeeps ==
  ASSUME IdInv, LeavesIds
  PROVE  IdInv'
<1>1. \A t \in Threads :
        sub'[t] \in {"idLoaded", "idReady"} \/ sub[t] \in {"idLoaded", "idReady"}
          => sub'[t] = sub[t] /\ tmp'[t] = tmp[t]
  BY DEF LeavesIds
<1>2. PACKET_ID_UNIQUE' = PACKET_ID_UNIQUE /\ idMutex' = idMutex /\ events' = events
  BY DEF LeavesIds
<1>3. LockHeld'
  BY <1>1, <1>2 DEF IdInv, LockHeld
<1>4. FreshId'
  BY <1>1, <1>2 DEF IdInv, FreshId
<1>5. ReadyId'
  BY <1>1, <1>2 DEF IdInv, ReadyId
<1>6. ReadyApart'
  BY <1>1 DEF IdInv, ReadyApart
<1>7. SentIds' /\ PacketIdsUnique'
  BY <1>2 DEF IdInv, SentIds, PacketIdsUnique
<1> QED
  BY <1>3, <1>4, <1>5, <1>6, <1>7 DEF IdInv

\* A call that returns, turns into others or has read a variable.
LEMMA CallLeavesIds ==
  ASSUME TypeOK, NEW t \in Threads, sub[t] \in {"idle", "loaded"},
         UNCHANGED <<PACKET_ID_UNIQUE, idMutex, events>>,
         (\E calls : Become(t, calls)) \/ (\E v : Load(t, v))
  PROVE  LeavesIds
BY DEF TypeOK, LeavesIds, Become, Load

\* Taking and sending ids are three actions; every other step leaves them alone.
LEMMA IdSteps ==
  ASSUME TypeOK, Next
  PROVE  \/ \E t \in Threads : GenIdLoad(t) \/ GenIdStore(t) \/ SendEvent(t)
         \/ LeavesIds
<1>1. ASSUME NEW t \in Threads, CallStep(t), ~GenIdLoad(t), ~GenIdStore(t), ~SendEvent(t)
      PROVE  LeavesIds
  <2>1. CASE SuspendLoad(t)
    BY <1>1, <2>1, CallLeavesIds DEF SuspendLoad, At, wire, ids
  <2>2. CASE SuspendStore(t)
    BY <1>1, <2>2, CallLeavesIds DEF SuspendStore, At, Return, wire, ids
  <2>3. CASE ResumeLoad(t)
    BY <1>1, <2>3, CallLeavesIds DEF ResumeLoad, At, wire, ids
  <2>4. CASE ResumeStore(t)
    BY <1>1, <2>4, CallLeavesIds DEF ResumeStore, At, Return, wire, ids
  <2>5. CASE NewEventLoad(t)
    BY <1>1, <2>5, CallLeavesIds DEF NewEventLoad, At, wire, ids
  <2>6. CASE NewEventStore(t)
    BY <1>1, <2>6, CallLeavesIds DEF NewEventStore, At, Return, wire, ids
  <2> QED
    BY <1>1, <2>1, <2>2, <2>3, <2>4, <2>5, <2>6 DEF CallStep
<1>2. ASSUME JDWPStep, ~CallStep("jdwp") PROVE LeavesIds
  <2> "jdwp" \in Threads
    BY DEF Threads
  <2>1. CASE ExitProcess("jdwp")
    BY <1>2, <2>1, CallLeavesIds DEF ExitProcess, At, Return, wire, ids
  <2>2. CASE SendReply
    BY <1>2, <2>2, CallLeavesIds DEF SendReply, At, Return, wire, ids
  <2>3. CASE SendRequestId
    BY <1>2, <2>3, CallLeavesIds DEF SendRequestId, At, Return, wire, ids
  <2>4. CASE ReadStatus
    BY <1>2, <2>4, CallLeavesIds DEF ReadStatus, At, ReadCounter, wire, ids
  <2>5. CASE ReadIsSuspended
    BY <1>2, <2>5, CallLeavesIds DEF ReadIsSuspended, At, ReadCounter, wire, ids
  <2>6. CASE ReadSuspendCount
    BY <1>2, <2>6, CallLeavesIds DEF ReadSuspendCount, At, ReadCounter, wire, ids
  <2>7. CASE StartIfLast
    BY <1>2, <2>7, CallLeavesIds DEF StartIfLast, At, ReadCounter, wire, ids
  <2>8. CASE ForceEarlyReturn
    BY <1>2, <2>8, CallLeavesIds DEF ForceEarlyReturn, At, ReadCounter, wire, ids
  <2>9. CASE HoldEvents
    BY <1>2, <2>9, CallLeavesIds DEF HoldEvents, At, Return, wire, ids
  <2>10. CASE MarkDispatched
    BY <1>2, <2>10, CallLeavesIds DEF MarkDispatched, At, Return, wire, ids
  <2>11. CASE NoteThreadStart
    BY <1>2, <2>11, CallLeavesIds DEF NoteThreadStart, At, Return, wire, ids
  <2>12. CASE InsertRequest
    BY <1>2, <2>12, CallLeavesIds DEF InsertRequest, At, Return, wire, ids
  <2>13. CASE RemoveRequest
    BY <1>2, <2>13, CallLeavesIds DEF RemoveRequest, At, Return, wire, ids
  <2>14. CASE RemoveAllDone
    BY <1>2, <2>14, CallLeavesIds DEF RemoveAllDone, At, Return, wire, ids
  <2>15. CASE onHandShake
    BY <2>15 DEF onHandShake, LeavesIds, threads, wire, ids
  <2>16. CASE release_jdwpInitHalt
    BY <2>16 DEF release_jdwpInitHalt, LeavesIds, threads, wire, ids
  <2>17. CASE RemoveAllRound
    BY <2>17 DEF RemoveAllRound, LeavesIds, threads, wire, ids
  <2> QED
    BY <1>2, <2>1, <2>2, <2>3, <2>4, <2>5, <2>6, <2>7, <2>8, <2>9, <2>10, <2>11, <2>12, <2>13, <2>14, <2>15, <2>16, <2>17 DEF JDWPStep
<1>3. ASSUME VMStep, ~CallStep("vm") PROVE LeavesIds
  BY <1>3 DEF VMStep, LeaveInitHalt, PassChecks, RaiseException, check_forEvents, EnterSuspendLoop,
             LeaveSuspendLoop, PassHold, dispatchAll, ExecOpcode, ReturnFromMain, Move,
             LeavesIds, threads, wire, ids
<1>4. ASSUME Debugger PROVE LeavesIds
  BY <1>4 DEF Debugger, Disconnect, onReceive, LeavesIds, threads, wire, ids
<1>5. ASSUME Spin PROVE LeavesIds
  BY <1>5 DEF Spin, vars, LeavesIds, threads, wire, ids
<1>6. "jdwp" \in Threads /\ "vm" \in Threads
  BY DEF Threads
<1>7. CASE JDWPStep
  BY <1>1, <1>2, <1>6, <1>7 DEF CallStep
<1>8. CASE VMStep
  BY <1>1, <1>3, <1>6, <1>8 DEF CallStep
<1> QED
  BY <1>4, <1>5, <1>7, <1>8 DEF Next

\* gen_packetID and jdwpSend keep the ids apart.
LEMMA IdStep ==
  ASSUME TypeOK, IdInv, [Next]_vars
  PROVE  IdInv'
<1>0. sub \in [Threads -> {"idle", "loaded", "idLoaded", "idReady"}] /\ tmp \in [Threads -> Nat]
      /\ PACKET_ID_UNIQUE \in Nat /\ Nobody \notin Threads
  BY DEF TypeOK, Nobody, Threads
<1>1. ASSUME NEW t \in Threads, GenIdLoad(t) PROVE IdInv'
  <2>1. /\ idMutex = Nobody /\ idMutex' = t /\ events' = events
        /\ PACKET_ID_UNIQUE' = PACKET_ID_UNIQUE
        /\ sub' = [sub EXCEPT ![t] = "idLoaded"] /\ tmp' = [tmp EXCEPT ![t] = PACKET_ID_UNIQUE]
    BY <1>1 DEF GenIdLoad, wire
  <2>2. \A u \in Threads : sub[u] # "idLoaded"
    BY <1>0, <2>1 DEF IdInv, LockHeld
  <2>3. LockHeld' /\ FreshId'
    BY <1>0, <2>1, <2>2 DEF LockHeld, FreshId
  <2>4. ReadyId' /\ ReadyApart'
    BY <1>0, <2>1 DEF IdInv, ReadyId, ReadyApart
  <2>5. SentIds' /\ PacketIdsUnique'
    BY <2>1 DEF IdInv, SentIds, PacketIdsUnique
  <2> QED
    BY <2>3, <2>4, <2>5 DEF IdInv
<1>2. ASSUME NEW t \in Threads, GenIdStore(t) PROVE IdInv'
  <2>1. /\ sub[t] = "idLoaded" /\ idMutex' = Nobody /\ events' = events
        /\ PACKET_ID_UNIQUE' = tmp[t] + 1
        /\ sub' = [sub EXCEPT ![t] = "idReady"] /\ tmp' = tmp
    BY <1>2 DEF GenIdStore, At, wire
  <2>2. tmp[t] = PACKET_ID_UNIQUE /\ PACKET_ID_UNIQUE' = PACKET_ID_UNIQUE + 1
    BY <2>1 DEF IdInv, FreshId
  <2>3. \A u \in Threads : sub'[u] # "idLoaded"
    BY <1>0, <2>1 DEF IdInv, LockHeld
  <2>4. LockHeld' /\ FreshId'
    BY <1>0, <2>1, <2>3 DEF LockHeld, FreshId
  <2>5. \A i \in DOMAIN events : events[i].id \in Nat
    <3> DEFINE E == [id : Nat, src : Sources, policy : Policies, reqs : SUBSET Nat]
    <3>1. events \in Seq(E)
      BY DEF TypeOK
    <3>2. \A e \in E : e.id \in Nat
      OBVIOUS
    <3> HIDE DEF E
    <3>3. \A i \in DOMAIN events : events[i] \in E
      BY <3>1, LenProperties, ElementOfSeq
    <3> QED
      BY <3>2, <3>3
  <2>6. ReadyId'
    BY <1>0, <2>1, <2>2, <2>5 DEF IdInv, ReadyId, SentIds
  <2>7. ReadyApart'
    BY <1>0, <2>1, <2>2 DEF IdInv, ReadyId, ReadyApart
  <2>8. SentIds' /\ PacketIdsUnique'
    BY <1>0, <2>1, <2>2, <2>5 DEF IdInv, SentIds, PacketIdsUnique
  <2> QED
    BY <2>4, <2>6, <2>7, <2>8 DEF IdInv
<1>3. ASSUME NEW t \in Threads, SendEvent(t) PROVE IdInv'
  <2> DEFINE c == Head(todo[t])
             e == [id |-> tmp[t], src |-> c.src, policy |-> c.policy, reqs |-> c.reqs]
  <2>1. /\ sub[t] = "idReady" /\ idMutex' = idMutex /\ PACKET_ID_UNIQUE' = PACKET_ID_UNIQUE
        /\ sub' = [sub EXCEPT ![t] = "idle"] /\ tmp' = [tmp EXCEPT ![t] = 0]
    BY <1>3 DEF SendEvent, At, Return, Become, ids
  <2>2. events' = Append(events, e) /\ e.id = tmp[t]
    BY <1>3 DEF SendEvent
  <2> HIDE DEF e
  <2>3. events \in Seq([id : Nat, src : Sources, policy : Policies, reqs : SUBSET Nat])
    BY DEF TypeOK
  <2>4. /\ DOMAIN events' = DOMAIN events \cup {Len(events) + 1}
        /\ Len(events) + 1 \notin DOMAIN events
        /\ \A i \in DOMAIN events : events'[i] = events[i]
        /\ events'[Len(events) + 1].id = tmp[t]
    BY <2>2, <2>3
  <2>5. LockHeld' /\ FreshId'
    BY <1>0, <2>1 DEF IdInv, LockHeld, FreshId
  <2>6. ReadyId'
    BY <1>0, <2>1, <2>4 DEF IdInv, ReadyId, ReadyApart
  <2>7. ReadyApart'
    BY <1>0, <2>1 DEF IdInv, ReadyApart
  <2>8. SentIds'
    BY <1>0, <2>1, <2>4 DEF IdInv, SentIds, ReadyId
  <2>9. PacketIdsUnique'
    BY <2>1, <2>4 DEF IdInv, PacketIdsUnique, ReadyId
  <2> QED
    BY <2>5, <2>6, <2>7, <2>8, <2>9 DEF IdInv
<1>4. CASE UNCHANGED vars
  BY <1>4, LeavesIdsKeeps DEF vars, LeavesIds, threads, wire, ids
<1> QED
  BY <1>1, <1>2, <1>3, <1>4, IdSteps, LeavesIdsKeeps

\* No two event packets of a session carry the same id, whatever the two
\* threads' interleaving: gen_packetID's mutex makes read and increment one.
THEOREM PacketIdsAreUnique == Spec => []PacketIdsUnique
<1>1. Init => IdInv
  BY DEF Init, IdInv, LockHeld, FreshId, ReadyId, ReadyApart, SentIds, PacketIdsUnique,
         Threads, Nobody
<1>2. TypeOK /\ IdInv /\ [Next]_vars => IdInv'
  BY IdStep
<1>3. IdInv => PacketIdsUnique
  BY DEF IdInv
<1> QED
  BY <1>1, <1>2, <1>3, TypeCorrect, PTL DEF Spec

-----------------------------------------------------------------------------
(* VM_INIT is the first event                                              *)

\* The VM thread does not run before the JDWP thread has let it go ...
HaltedUntilInit ==
  /\ pc["vm"] # "halt" => init_jdwp
  /\ pc["vm"] = "halt" => todo["vm"] = <<>>

\* ... which happens after an event was sent; the first one is VM_INIT.
ReleasedAfterEvent ==
  /\ init_jdwp => events # <<>>
  /\ events # <<>> => events[1].src = "VM_INIT"

\* Before it the JDWP thread is in its handshake or has that event to send.
BeforeFirstEvent ==
  events = <<>> =>
    \/ pc["jdwp"] = "handshake" /\ todo["jdwp"] = <<>>
    \/ pc["jdwp"] = "release" /\ todo["jdwp"] = <<Send("VM_INIT", "NONE", {})>>

InitInv == HaltedUntilInit /\ ReleasedAfterEvent /\ BeforeFirstEvent

\* Once an event was sent only the VM thread's wait matters.
LEMMA AfterFirstEvent ==
  ASSUME TypeOK, InitInv, events # <<>>, events' = events \/ \E e : events' = Append(events, e),
         init_jdwp => init_jdwp',
         pc'["vm"] = "halt" => pc["vm"] = "halt" /\ todo'["vm"] = todo["vm"],
         pc'["vm"] # "halt" => pc["vm"] # "halt" \/ init_jdwp
  PROVE  InitInv'
<1>1. events' # <<>> /\ events'[1] = events[1]
  <2> DEFINE E == [id : Nat, src : Sources, policy : Policies, reqs : SUBSET Nat]
  <2>1. events \in Seq(E)
    BY DEF TypeOK
  <2> HIDE DEF E
  <2>2. \A e : Append(events, e) # <<>> /\ Append(events, e)[1] = events[1]
    BY <2>1
  <2> QED
    BY <2>2
<1> QED
  BY <1>1 DEF InitInv, HaltedUntilInit, ReleasedAfterEvent, BeforeFirstEvent

\* A call of the JDWP thread other than sending: its first event is gone.
LEMMA JDWPCall ==
  ASSUME InitInv, todo["jdwp"] # <<>>, Head(todo["jdwp"]).op # "send"
  PROVE  events # <<>>
BY DEF InitInv, BeforeFirstEvent, Send

\* A thread's calls leave the other thread's as they are.
LEMMA OtherThread ==
  ASSUME TypeOK, NEW calls, Become("jdwp", calls)
  PROVE  todo'["vm"] = todo["vm"]
BY DEF TypeOK, Become, Threads

\* Steps of the calls both threads make.
LEMMA InitCallStep ==
  ASSUME TypeOK, InitInv, NEW t \in Threads, CallStep(t)
  PROVE  InitInv'
<1>1. t = "vm" => events # <<>> /\ pc["vm"] # "halt"
  BY DEF CallStep, SuspendLoad, SuspendStore, ResumeLoad, ResumeStore, NewEventLoad, NewEventStore,
         GenIdLoad, GenIdStore, SendEvent, At, InitInv, HaltedUntilInit, ReleasedAfterEvent
<1>2. todo["jdwp"] # <<>> /\ Head(todo["jdwp"]).op # "send" => events # <<>>
  BY JDWPCall
<1>3. t = "vm" \/ t = "jdwp"
  BY DEF Threads
<1>4. CASE SuspendLoad(t)
  BY <1>1, <1>2, <1>3, <1>4, AfterFirstEvent DEF SuspendLoad, At, flags, wire
<1>5. CASE ResumeLoad(t)
  BY <1>1, <1>2, <1>3, <1>5, AfterFirstEvent DEF ResumeLoad, At, flags, wire
<1>6. CASE NewEventLoad(t)
  BY <1>1, <1>2, <1>3, <1>6, AfterFirstEvent DEF NewEventLoad, At, flags, wire
<1>7. CASE SuspendStore(t)
  BY <1>1, <1>2, <1>3, <1>7, AfterFirstEvent, OtherThread DEF SuspendStore, At, Return, flags, wire
<1>8. CASE ResumeStore(t)
  BY <1>1, <1>2, <1>3, <1>8, AfterFirstEvent, OtherThread DEF ResumeStore, At, Return, flags, wire
<1>9. CASE NewEventStore(t)
  BY <1>1, <1>2, <1>3, <1>9, AfterFirstEvent, OtherThread DEF NewEventStore, At, Return, flags, wire
<1>10. CASE GenIdLoad(t)
  BY <1>10 DEF GenIdLoad, InitInv, HaltedUntilInit, ReleasedAfterEvent, BeforeFirstEvent, flags, wire
<1>11. CASE GenIdStore(t)
  BY <1>11 DEF GenIdStore, InitInv, HaltedUntilInit, ReleasedAfterEvent, BeforeFirstEvent, flags, wire
<1>12. CASE SendEvent(t)
  <2> DEFINE c == Head(todo[t])
             e == [id |-> tmp[t], src |-> c.src, policy |-> c.policy, reqs |-> c.reqs]
  <2>1. events' = Append(events, e) /\ e.src = c.src
    BY <1>12 DEF SendEvent
  <2>2. pc' = pc /\ init_jdwp' = init_jdwp /\ (t = "jdwp" => todo'["vm"] = todo["vm"])
    BY <1>12, OtherThread DEF SendEvent, Return, flags
  <2>3. CASE events # <<>>
    BY <1>1, <1>3, <2>1, <2>2, <2>3, AfterFirstEvent
  <2>4. CASE events = <<>>
    <3>1. t = "jdwp" /\ c.src = "VM_INIT"
      BY <1>1, <1>3, <1>12, <2>4 DEF SendEvent, At, InitInv, BeforeFirstEvent, Send
    <3>2. events' # <<>> /\ events'[1].src = "VM_INIT"
      BY <2>1, <2>4, <3>1
    <3> QED
      BY <2>2, <3>1, <3>2 DEF InitInv, HaltedUntilInit, ReleasedAfterEvent, BeforeFirstEvent
  <2> QED
    BY <2>3, <2>4
<1> QED
  BY <1>4, <1>5, <1>6, <1>7, <1>8, <1>9, <1>10, <1>11, <1>12 DEF CallStep

\* The JDWP thread's own steps.
LEMMA InitJDWPStep ==
  ASSUME TypeOK, InitInv, JDWPStep, ~CallStep("jdwp")
  PROVE  InitInv'
<1>1. todo["jdwp"] # <<>> /\ Head(todo["jdwp"]).op # "send" => events # <<>>
  BY JDWPCall
<1>2. CASE ExitProcess("jdwp")
  BY <1>1, <1>2, AfterFirstEvent, OtherThread DEF ExitProcess, At, Return, flags, wire
<1>3. CASE SendReply
  BY <1>1, <1>3, AfterFirstEvent, OtherThread DEF SendReply, At, Return, flags, wire
<1>4. CASE SendRequestId
  BY <1>1, <1>4, AfterFirstEvent, OtherThread DEF SendRequestId, At, Return, flags, wire
<1>5. CASE ReadStatus
  BY <1>1, <1>5, AfterFirstEvent, OtherThread DEF ReadStatus, At, ReadCounter, flags, wire
<1>6. CASE ReadIsSuspended
  BY <1>1, <1>6, AfterFirstEvent, OtherThread DEF ReadIsSuspended, At, ReadCounter, flags, wire
<1>7. CASE ReadSuspendCount
  BY <1>1, <1>7, AfterFirstEvent, OtherThread DEF ReadSuspendCount, At, ReadCounter, flags, wire
<1>8. CASE StartIfLast
  BY <1>1, <1>8, AfterFirstEvent, OtherThread DEF StartIfLast, At, ReadCounter, flags, wire
<1>9. CASE ForceEarlyReturn
  BY <1>1, <1>9, AfterFirstEvent, OtherThread DEF ForceEarlyReturn, At, ReadCounter, flags, wire
<1>10. CASE HoldEvents
  BY <1>1, <1>10, AfterFirstEvent, OtherThread DEF HoldEvents, At, Return, flags, wire
<1>11. CASE MarkDispatched
  BY <1>1, <1>11, AfterFirstEvent, OtherThread DEF MarkDispatched, At, Return, flags, wire
<1>12. CASE NoteThreadStart
  BY <1>1, <1>12, AfterFirstEvent, OtherThread DEF NoteThreadStart, At, Return, flags, wire
<1>13. CASE InsertRequest
  BY <1>1, <1>13, AfterFirstEvent, OtherThread DEF InsertRequest, At, Return, flags, wire
<1>14. CASE RemoveRequest
  BY <1>1, <1>14, AfterFirstEvent, OtherThread DEF RemoveRequest, At, Return, flags, wire
<1>15. CASE RemoveAllDone
  BY <1>1, <1>15, AfterFirstEvent, OtherThread DEF RemoveAllDone, At, Return, flags, wire
<1>16. CASE RemoveAllRound
  BY <1>1, <1>16, AfterFirstEvent DEF RemoveAllRound, At, threads, wire
<1>17. CASE onHandShake
  <2>1. init_jdwp' = init_jdwp /\ events' = events /\ todo["jdwp"] = <<>>
        /\ pc["jdwp"] = "handshake"
    BY <1>17 DEF onHandShake, Idle, wire
  <2>2. CASE todo' = todo /\ pc' = pc
    BY <2>1, <2>2 DEF InitInv, HaltedUntilInit, ReleasedAfterEvent, BeforeFirstEvent
  <2>3. CASE /\ todo' = [todo EXCEPT !["jdwp"] = <<Send("VM_INIT", "NONE", {})>>]
             /\ pc' = [pc EXCEPT !["jdwp"] = "release"]
    <3>1. /\ todo'["vm"] = todo["vm"] /\ pc'["vm"] = pc["vm"] /\ pc'["jdwp"] = "release"
          /\ todo'["jdwp"] = <<Send("VM_INIT", "NONE", {})>>
      BY <2>3 DEF TypeOK, Threads
    <3> QED
      BY <2>1, <3>1 DEF InitInv, HaltedUntilInit, ReleasedAfterEvent, BeforeFirstEvent
  <2> QED
    BY <1>17, <2>2, <2>3 DEF onHandShake
<1>18. CASE release_jdwpInitHalt
  <2>1. events # <<>> /\ events' = events
    BY <1>18 DEF release_jdwpInitHalt, Idle, InitInv, BeforeFirstEvent, wire
  <2>2. pc'["vm"] = pc["vm"] /\ todo' = todo /\ init_jdwp'
    BY <1>18 DEF release_jdwpInitHalt, TypeOK, Threads
  <2> QED
    BY <2>1, <2>2, AfterFirstEvent
<1> QED
  BY <1>2, <1>3, <1>4, <1>5, <1>6, <1>7, <1>8, <1>9, <1>10, <1>11, <1>12, <1>13, <1>14, <1>15, <1>16, <1>17, <1>18 DEF JDWPStep

\* The VM thread's own steps.
LEMMA InitVMStep ==
  ASSUME TypeOK, InitInv, VMStep, ~CallStep("vm")
  PROVE  InitInv'
<1>1. pc["vm"] # "halt" \/ init_jdwp => events # <<>>
  BY DEF InitInv, HaltedUntilInit, ReleasedAfterEvent
<1>2. pc \in [Threads -> Labels] /\ "vm" \in Threads
  BY DEF TypeOK, Threads, Labels
<1>3. ASSUME NEW from, NEW to, Move(from, to), from # "halt" \/ init_jdwp, to # "halt"
      PROVE  InitInv'
  BY <1>1, <1>2, <1>3, AfterFirstEvent DEF Move, Idle, Goto, flags, wire
<1>4. CASE LeaveInitHalt
  BY <1>3, <1>4 DEF LeaveInitHalt
<1>5. CASE PassChecks
  BY <1>3, <1>5 DEF PassChecks
<1>6. CASE EnterSuspendLoop
  BY <1>3, <1>6 DEF EnterSuspendLoop
<1>7. CASE LeaveSuspendLoop
  BY <1>3, <1>7 DEF LeaveSuspendLoop
<1>8. CASE PassHold
  BY <1>3, <1>8 DEF PassHold
<1>9. CASE ExecOpcode
  BY <1>3, <1>9 DEF ExecOpcode
<1>10. CASE RaiseException
  BY <1>1, <1>2, <1>10, AfterFirstEvent DEF RaiseException, Idle, Goto, flags, wire
<1>11. CASE check_forEvents
  BY <1>1, <1>2, <1>11, AfterFirstEvent DEF check_forEvents, Idle, Goto, flags, wire
<1>12. CASE dispatchAll
  BY <1>1, <1>2, <1>12, AfterFirstEvent DEF dispatchAll, Idle, Goto, flags, wire
<1>13. CASE ReturnFromMain
  BY <1>13 DEF ReturnFromMain, InitInv, HaltedUntilInit, ReleasedAfterEvent, BeforeFirstEvent,
               threads, wire
<1> QED
  BY <1>4, <1>5, <1>6, <1>7, <1>8, <1>9, <1>10, <1>11, <1>12, <1>13 DEF VMStep

\* Every step.
LEMMA InitStep ==
  ASSUME TypeOK, InitInv, [Next]_vars
  PROVE  InitInv'
<1>1. "vm" \in Threads /\ "jdwp" \in Threads
  BY DEF Threads
<1>2. CASE UNCHANGED vars
  BY <1>2 DEF vars, InitInv, HaltedUntilInit, ReleasedAfterEvent, BeforeFirstEvent, flags,
              threads, wire
<1>3. CASE JDWPStep
  BY <1>1, <1>3, InitCallStep, InitJDWPStep
<1>4. CASE VMStep
  BY <1>1, <1>4, InitCallStep, InitVMStep
<1>5. CASE Disconnect
  BY <1>5 DEF Disconnect, InitInv, HaltedUntilInit, ReleasedAfterEvent, BeforeFirstEvent,
              threads, wire
<1>6. ASSUME NEW c \in Commands, onReceive(c) PROVE InitInv'
  <2>1. events # <<>>
    BY <1>6 DEF onReceive, Idle, InitInv, BeforeFirstEvent
  <2>2. todo'["vm"] = todo["vm"] /\ pc' = pc /\ init_jdwp' = init_jdwp /\ events' = events
    BY <1>6 DEF onReceive, TypeOK, Threads, flags, wire
  <2> QED
    BY <2>1, <2>2, AfterFirstEvent
<1>7. CASE Spin
  BY <1>2, <1>7 DEF Spin
<1> QED
  BY <1>2, <1>3, <1>4, <1>5, <1>6, <1>7 DEF Next, Debugger

\* The first event of every session is VM_INIT, and the VM thread executes
\* nothing before it was sent.
THEOREM VMInitIsFirst == Spec => []VMInitFirst
<1>1. Init => InitInv
  BY DEF Init, InitInv, HaltedUntilInit, ReleasedAfterEvent, BeforeFirstEvent, Threads
<1>2. TypeOK /\ InitInv /\ [Next]_vars => InitInv'
  BY InitStep
<1>3. InitInv => VMInitFirst
  BY DEF InitInv, HaltedUntilInit, ReleasedAfterEvent, VMInitFirst
<1> QED
  BY <1>1, <1>2, <1>3, TypeCorrect, PTL DEF Spec

-----------------------------------------------------------------------------
(* A request is reported once, under its own policy                        *)

\* What a send still to be made, or an event on the wire, says of its requests:
\* they exist, asked for that policy, and are marked once dispatchAll took them.
SaysTruth(c) ==
  \A h \in c.reqs : /\ h \in DOMAIN er
                    /\ er[h].policy = c.policy
                    /\ c.src = "ALL" => er[h].isremoved

SentTruth == \A i \in DOMAIN events : SaysTruth(events[i])

QueuedTruth ==
  \A t \in Threads : \A i \in DOMAIN todo[t] :
    todo[t][i].op = "send" => SaysTruth(todo[t][i])

\* The composites dispatchAll has still to send.
FromDispatchAll(c) == c.op = "send" /\ c.src = "ALL"

OnlyVMDispatches == \A i \in DOMAIN todo["jdwp"] : ~FromDispatchAll(todo["jdwp"][i])

\* They have different policies, and share no request with one that was sent.
QueuedApart ==
  \A i \in DOMAIN todo["vm"] : FromDispatchAll(todo["vm"][i]) =>
    /\ \A j \in DOMAIN todo["vm"] :
         i # j /\ FromDispatchAll(todo["vm"][j]) => todo["vm"][i].policy # todo["vm"][j].policy
    /\ \A k \in DOMAIN events :
         events[k].src = "ALL" => events[k].reqs \cap todo["vm"][i].reqs = {}

ReportInv == SentTruth /\ QueuedTruth /\ OnlyVMDispatches /\ QueuedApart /\ ReportedOnce

\* Requests are added, never dropped; their policy stays and the mark is not undone.
RequestsGrow ==
  /\ DOMAIN er \subseteq DOMAIN er'
  /\ \A h \in DOMAIN er : /\ er'[h].policy = er[h].policy
                          /\ er[h].isremoved => er'[h].isremoved

LEMMA TruthKept ==
  ASSUME RequestsGrow, NEW c, SaysTruth(c)
  PROVE  /\ \A h \in c.reqs : /\ h \in DOMAIN er'
                              /\ er'[h].policy = c.policy
                              /\ c.src = "ALL" => er'[h].isremoved
BY DEF RequestsGrow, SaysTruth

\* The VM thread's list stays, loses its head, or is one without composites.
VMListKept ==
  \/ todo'["vm"] = todo["vm"]
  \/ todo["vm"] # <<>> /\ todo'["vm"] = Tail(todo["vm"])
  \/ \A i \in DOMAIN todo'["vm"] :
       todo'["vm"][i].op = "send" => todo'["vm"][i].reqs = {} /\ todo'["vm"][i].src # "ALL"

\* A new call of the JDWP thread: not a send, or one that says the truth.
Harmless(c) ==
  c.op = "send" => /\ c.src # "ALL"
                   /\ \A h \in c.reqs : h \in DOMAIN er' /\ er'[h].policy = c.policy

JDWPListKept ==
  \A i \in DOMAIN todo'["jdwp"] :
    \/ \E j \in DOMAIN todo["jdwp"] : todo'["jdwp"][i] = todo["jdwp"][j]
    \/ Harmless(todo'["jdwp"][i])

\* Steps that send nothing and take no request.
LEMMA NothingReported ==
  ASSUME TypeOK, ReportInv, events' = events, RequestsGrow, VMListKept, JDWPListKept
  PROVE  ReportInv'
<1>1. SentTruth'
  BY TruthKept DEF ReportInv, SentTruth, SaysTruth
<1>2. ReportedOnce'
  BY DEF ReportInv, ReportedOnce
<1>3. OnlyVMDispatches'
  BY DEF ReportInv, OnlyVMDispatches, JDWPListKept, Harmless, FromDispatchAll
<1>4. \A i \in DOMAIN todo'["jdwp"] : todo'["jdwp"][i].op = "send" => SaysTruth(todo["jdwp"][i])'
  <2> SUFFICES ASSUME NEW i \in DOMAIN todo'["jdwp"], todo'["jdwp"][i].op = "send"
               PROVE  SaysTruth(todo["jdwp"][i])'
    OBVIOUS
  <2>1. CASE \E j \in DOMAIN todo["jdwp"] : todo'["jdwp"][i] = todo["jdwp"][j]
    <3>1. PICK j \in DOMAIN todo["jdwp"] : todo'["jdwp"][i] = todo["jdwp"][j]
      BY <2>1
    <3>2. SaysTruth(todo["jdwp"][j])
      BY <3>1 DEF ReportInv, QueuedTruth, Threads
    <3> QED
      BY <3>1, <3>2, TruthKept DEF SaysTruth
  <2>2. CASE Harmless(todo'["jdwp"][i])
    BY <2>2 DEF Harmless, SaysTruth
  <2> QED
    BY <2>1, <2>2 DEF JDWPListKept
<1> DEFINE q == todo["vm"]
           r == todo'["vm"]
<1>5. q \in Seq(Call)
  BY DEF TypeOK, Threads
<1>6. CASE r = q
  <2>1. \A i \in DOMAIN r : r[i].op = "send" => SaysTruth(todo["vm"][i])'
    BY <1>6, TruthKept DEF ReportInv, QueuedTruth, SaysTruth, Threads
  <2>2. QueuedApart'
    BY <1>6 DEF ReportInv, QueuedApart
  <2> QED
    BY <1>1, <1>2, <1>3, <1>4, <2>1, <2>2 DEF ReportInv, QueuedTruth, Threads
<1>7. CASE q # <<>> /\ r = Tail(q)
  <2>1. \A i \in DOMAIN r : i + 1 \in DOMAIN q /\ r[i] = q[i + 1] /\ i \in Nat
    <3> HIDE DEF q, r
    <3> QED
      BY <1>5, <1>7, HeadTailProperties
  <2>2. \A i \in DOMAIN r : r[i].op = "send" => SaysTruth(todo["vm"][i])'
    BY <2>1, TruthKept DEF ReportInv, QueuedTruth, SaysTruth, Threads
  <2>3. QueuedApart'
    <3> SUFFICES ASSUME NEW i \in DOMAIN r, FromDispatchAll(r[i])
                 PROVE  /\ \A j \in DOMAIN r : i # j /\ FromDispatchAll(r[j])
                                                 => r[i].policy # r[j].policy
                        /\ \A k \in DOMAIN events : events[k].src = "ALL"
                                                 => events[k].reqs \cap r[i].reqs = {}
      BY DEF QueuedApart, FromDispatchAll
    <3>1. FromDispatchAll(q[i + 1])
      BY <2>1
    <3>2. \A j \in DOMAIN q : i + 1 # j /\ FromDispatchAll(q[j]) => q[i + 1].policy # q[j].policy
      BY <2>1, <3>1 DEF ReportInv, QueuedApart
    <3>3. \A k \in DOMAIN events : events[k].src = "ALL" => events[k].reqs \cap q[i + 1].reqs = {}
      BY <2>1, <3>1 DEF ReportInv, QueuedApart
    <3>4. ASSUME NEW j \in DOMAIN r, i # j, FromDispatchAll(r[j]) PROVE r[i].policy # r[j].policy
      <4>1. i + 1 # j + 1 /\ j + 1 \in DOMAIN q /\ r[j] = q[j + 1] /\ r[i] = q[i + 1]
        BY <2>1, <3>4
      <4> QED
        BY <3>2, <3>4, <4>1
    <3> QED
      BY <2>1, <3>3, <3>4
  <2> QED
    BY <1>1, <1>2, <1>3, <1>4, <2>2, <2>3 DEF ReportInv, QueuedTruth, Threads
<1>8. CASE \A i \in DOMAIN r : r[i].op = "send" => r[i].reqs = {} /\ r[i].src # "ALL"
  <2>1. \A i \in DOMAIN r : r[i].op = "send" => SaysTruth(todo["vm"][i])'
    BY <1>8 DEF SaysTruth
  <2>2. QueuedApart'
    BY <1>8 DEF QueuedApart, FromDispatchAll
  <2> QED
    BY <1>1, <1>2, <1>3, <1>4, <2>1, <2>2 DEF ReportInv, QueuedTruth, Threads
<1> QED
  BY <1>6, <1>7, <1>8 DEF VMListKept

\* A call that returns or turns into calls that harm nothing.
LEMMA BecomeReport ==
  ASSUME TypeOK, ReportInv, NEW t \in Threads, todo[t] # <<>>, NEW calls \in Seq(Call),
         Become(t, calls), events' = events, RequestsGrow, t = "vm" => calls = <<>>,
         \A i \in DOMAIN calls : Harmless(calls[i])
  PROVE  ReportInv'
<1> DEFINE r == Tail(todo[t])
<1>1. /\ todo'[t] = calls \o r
      /\ \A u \in Threads \ {t} : todo'[u] = todo[u]
  BY DEF TypeOK, Become
<1>2. /\ r \in Seq(Call)
      /\ \A i \in DOMAIN r : \E j \in DOMAIN todo[t] : r[i] = todo[t][j]
  <2> DEFINE q == todo[t]
  <2>1. q \in Seq(Call) /\ q # <<>>
    BY DEF TypeOK
  <2> HIDE DEF q
  <2>2. /\ Tail(q) \in Seq(Call) /\ Len(Tail(q)) = Len(q) - 1
        /\ \A i \in 1 .. Len(Tail(q)) : Tail(q)[i] = q[i + 1]
    BY <2>1, HeadTailProperties
  <2>3. \A i \in 1 .. Len(Tail(q)) : i + 1 \in DOMAIN q
    BY <2>1, <2>2
  <2>4. \A i \in DOMAIN Tail(q) : \E j \in DOMAIN q : Tail(q)[i] = q[j]
    BY <2>2, <2>3
  <2> QED
    BY <2>2, <2>4 DEF q
<1> HIDE DEF r
<1>3. CASE t = "vm"
  <2>1. todo'["vm"] = Tail(todo["vm"])
    <3>1. <<>> \o r = r
      BY <1>2, ConcatEmptySeq
    <3> QED
      BY <1>1, <1>3, <3>1 DEF r
  <2>2. todo'["jdwp"] = todo["jdwp"]
    BY <1>1, <1>3 DEF Threads
  <2>3. VMListKept /\ JDWPListKept
    BY <1>3, <2>1, <2>2 DEF VMListKept, JDWPListKept
  <2> QED
    BY <2>3, NothingReported
<1>4. CASE t = "jdwp"
  <2>1. todo'["vm"] = todo["vm"]
    BY <1>1, <1>4 DEF Threads
  <2>2. /\ Len(calls \o r) = Len(calls) + Len(r)
        /\ \A i \in 1 .. Len(calls) + Len(r) :
             (calls \o r)[i] = IF i <= Len(calls) THEN calls[i] ELSE r[i - Len(calls)]
    BY <1>2, ConcatProperties
  <2>3. ASSUME NEW i \in DOMAIN (calls \o r)
        PROVE  \/ \E j \in DOMAIN todo["jdwp"] : (calls \o r)[i] = todo["jdwp"][j]
               \/ Harmless((calls \o r)[i])
    <3>1. calls \o r \in Seq(Call) /\ Len(calls) \in Nat /\ Len(r) \in Nat
      BY <1>2, ConcatProperties, LenProperties
    <3>2. i \in 1 .. Len(calls) + Len(r)
      BY <2>2, <3>1, LenProperties
    <3>3. CASE i <= Len(calls)
      BY <2>2, <3>1, <3>2, <3>3
    <3>4. CASE ~(i <= Len(calls))
      <4>1. i - Len(calls) \in DOMAIN r /\ (calls \o r)[i] = r[i - Len(calls)]
        BY <1>2, <2>2, <3>1, <3>2, <3>4
      <4> QED
        BY <1>2, <1>4, <4>1
    <3> QED
      BY <3>3, <3>4
  <2>4. VMListKept /\ JDWPListKept
    BY <1>1, <1>4, <2>1, <2>3 DEF VMListKept, JDWPListKept
  <2> QED
    BY <2>4, NothingReported
<1> QED
  BY <1>3, <1>4 DEF Threads

\* A call that returns.
LEMMA ReturnReport ==
  ASSUME TypeOK, ReportInv, NEW t \in Threads, todo[t] # <<>>, Return(t), events' = events,
         RequestsGrow
  PROVE  ReportInv'
<1> DEFINE none == <<>>
<1>1. none \in Seq(Call) /\ \A i \in DOMAIN none : Harmless(none[i])
  BY Tuples
<1>2. Become(t, none) /\ none = <<>>
  BY DEF Return
<1> HIDE DEF none
<1> QED
  BY <1>1, <1>2, BecomeReport

\* A step that leaves every list of calls as it is.
LEMMA ListsReport ==
  ASSUME TypeOK, ReportInv, todo' = todo, events' = events, RequestsGrow
  PROVE  ReportInv'
BY NothingReported DEF VMListKept, JDWPListKept

\* The requests left alone.
LEMMA SameRequests ==
  ASSUME er' = er
  PROVE  RequestsGrow
BY DEF RequestsGrow

\* A call of the JDWP thread that reads the counter.
LEMMA ReadCounterReport ==
  ASSUME TypeOK, ReportInv, NEW op, NEW calls \in Seq(Call),
         \A i \in DOMAIN calls : Harmless(calls[i]), ReadCounter(op, calls)
  PROVE  ReportInv'
<1>1. /\ todo["jdwp"] # <<>> /\ Become("jdwp", calls) /\ events' = events /\ er' = er
      /\ "jdwp" \in Threads
  BY DEF ReadCounter, At, wire, list, Threads
<1> QED
  BY <1>1, SameRequests, BecomeReport

\* Calls that are no sends.
LEMMA QuietHarmless ==
  ASSUME NEW d \in Plain
  PROVE  <<d>> \in Seq(Call) /\ \A i \in DOMAIN <<d>> : Harmless(<<d>>[i])
<1>1. <<d>> \in Seq(Plain)
  BY Tuples
<1> DEFINE q == <<d>>
<1> HIDE DEF q
<1>2. q \in Seq(Call) /\ \A i \in DOMAIN q : q[i].op # "send"
  BY <1>1, PlainLists DEF q
<1> QED
  BY <1>2 DEF q, Harmless

\* Places of a sequence without its head.
LEMMA TailIndex ==
  ASSUME NEW S, NEW q \in Seq(S), q # <<>>
  PROVE  /\ \A i \in DOMAIN Tail(q) : i \in Nat \ {0} /\ i + 1 \in DOMAIN q /\ Tail(q)[i] = q[i + 1]
         /\ 1 \in DOMAIN q /\ Head(q) = q[1]
<1>1. /\ Tail(q) \in Seq(S) /\ Len(Tail(q)) = Len(q) - 1
      /\ \A i \in 1 .. Len(Tail(q)) : Tail(q)[i] = q[i + 1]
  BY HeadTailProperties
<1> QED
  BY <1>1

\* The packet a thread sends is its next composite, THREAD_START or another.
LEMMA SendReport ==
  ASSUME TypeOK, ReportInv, NEW t \in Threads, SendEvent(t)
  PROVE  ReportInv'
<1> DEFINE q == todo[t]
           c == Head(q)
           e == [id |-> tmp[t], src |-> c.src, policy |-> c.policy, reqs |-> c.reqs]
           n == Len(events) + 1
<1>1. q \in Seq(Call) /\ q # <<>> /\ c.op = "send"
  BY DEF SendEvent, At, TypeOK
<1>2. er' = er /\ events' = Append(events, e)
  BY DEF SendEvent, list
<1>3. /\ e.src = c.src /\ e.policy = c.policy /\ e.reqs = c.reqs
  OBVIOUS
<1>4. /\ todo'[t] = Tail(q)
      /\ \A u \in Threads \ {t} : todo'[u] = todo[u]
  <2>1. Tail(q) \in Seq(Call)
    BY HeadCall, <1>1
  <2>2. <<>> \o Tail(q) = Tail(q)
    BY <2>1, ConcatEmptySeq
  <2> QED
    BY <2>2 DEF SendEvent, Return, Become, TypeOK
<1>5. /\ \A i \in DOMAIN Tail(q) : i \in Nat \ {0} /\ i + 1 \in DOMAIN q /\ Tail(q)[i] = q[i + 1]
      /\ 1 \in DOMAIN q /\ c = q[1]
  <2> HIDE DEF q
  <2> QED
    BY <1>1, TailIndex
<1> HIDE DEF e, c
<1>6. /\ DOMAIN events' = DOMAIN events \cup {n} /\ n \notin DOMAIN events
      /\ \A i \in DOMAIN events : events'[i] = events[i]
      /\ events'[n] = e
  <2> DEFINE E == [id : Nat, src : Sources, policy : Policies, reqs : SUBSET Nat]
  <2>1. events \in Seq(E)
    BY DEF TypeOK
  <2> HIDE DEF E
  <2> QED
    BY <1>2, <2>1
<1> HIDE DEF n
<1>7. SaysTruth(c)
  BY <1>1, <1>5 DEF ReportInv, QueuedTruth
<1>8. SentTruth'
  BY <1>2, <1>3, <1>6, <1>7 DEF ReportInv, SentTruth, SaysTruth
<1>9. QueuedTruth'
  <2>1. ASSUME NEW i \in DOMAIN Tail(q), Tail(q)[i].op = "send" PROVE SaysTruth(Tail(q)[i])
    BY <1>5, <2>1 DEF ReportInv, QueuedTruth
  <2>2. \A i \in DOMAIN todo'[t] : todo'[t][i].op = "send" => SaysTruth(todo[t][i])'
    BY <1>2, <1>4, <2>1 DEF SaysTruth
  <2>3. ASSUME NEW u \in Threads, u # t, NEW i \in DOMAIN todo'[u], todo'[u][i].op = "send"
        PROVE  SaysTruth(todo[u][i])'
    BY <1>2, <1>4, <2>3 DEF ReportInv, QueuedTruth, SaysTruth
  <2> QED
    BY <2>2, <2>3 DEF QueuedTruth
<1>10. c.src = "ALL" => t = "vm"
  BY <1>1, <1>5 DEF ReportInv, OnlyVMDispatches, FromDispatchAll, Threads
<1>11. OnlyVMDispatches'
  <2>1. CASE t = "jdwp"
    <3>1. \A i \in DOMAIN Tail(q) : ~FromDispatchAll(Tail(q)[i])
      BY <1>5, <2>1 DEF ReportInv, OnlyVMDispatches
    <3>2. todo'["jdwp"] = Tail(q)
      BY <1>4, <2>1
    <3> QED
      BY <3>1, <3>2 DEF OnlyVMDispatches, FromDispatchAll
  <2>2. CASE t # "jdwp"
    BY <1>4, <2>2 DEF ReportInv, OnlyVMDispatches, FromDispatchAll, Threads
  <2> QED
    BY <2>1, <2>2
<1>12. ReportedOnce'
  <2>1. \A k \in DOMAIN events : c.src = "ALL" /\ events[k].src = "ALL"
                                   => events[k].reqs \cap c.reqs = {}
    BY <1>1, <1>5, <1>10 DEF ReportInv, QueuedApart, FromDispatchAll
  <2> QED
    BY <1>3, <1>6, <2>1 DEF ReportInv, ReportedOnce
<1>13. QueuedApart'
  <2>1. CASE t = "jdwp"
    <3>1. todo'["vm"] = todo["vm"] /\ c.src # "ALL"
      BY <1>4, <1>10, <2>1 DEF Threads
    <3>2. \A k \in DOMAIN events' : events'[k].src = "ALL"
                                     => k \in DOMAIN events /\ events'[k] = events[k]
      BY <1>3, <1>6, <3>1
    <3> SUFFICES ASSUME NEW i \in DOMAIN todo["vm"], FromDispatchAll(todo["vm"][i])
                 PROVE  /\ \A j \in DOMAIN todo["vm"] :
                             i # j /\ FromDispatchAll(todo["vm"][j])
                               => todo["vm"][i].policy # todo["vm"][j].policy
                        /\ \A k \in DOMAIN events' : events'[k].src = "ALL"
                                          => events'[k].reqs \cap todo["vm"][i].reqs = {}
      BY <3>1 DEF QueuedApart, FromDispatchAll
    <3> QED
      BY <3>2 DEF ReportInv, QueuedApart
  <2>2. CASE t = "vm"
    <3>0. todo'["vm"] = Tail(q)
      BY <1>4, <2>2
    <3> SUFFICES ASSUME NEW i \in DOMAIN todo'["vm"], FromDispatchAll(todo'["vm"][i])
                 PROVE  /\ \A j \in DOMAIN todo'["vm"] : i # j /\ FromDispatchAll(todo'["vm"][j])
                                           => todo'["vm"][i].policy # todo'["vm"][j].policy
                        /\ \A k \in DOMAIN events' : events'[k].src = "ALL"
                                           => events'[k].reqs \cap todo'["vm"][i].reqs = {}
      BY DEF QueuedApart, FromDispatchAll
    <3>1. i \in Nat \ {0} /\ i + 1 \in DOMAIN q /\ Tail(q)[i] = q[i + 1] /\ FromDispatchAll(q[i + 1])
      BY <1>5, <3>0
    <3>2. /\ \A j \in DOMAIN q : i + 1 # j /\ FromDispatchAll(q[j]) => q[i + 1].policy # q[j].policy
          /\ \A k \in DOMAIN events : events[k].src = "ALL"
                                   => events[k].reqs \cap q[i + 1].reqs = {}
      BY <2>2, <3>1 DEF ReportInv, QueuedApart
    <3>3. ASSUME NEW j \in DOMAIN Tail(q), i # j, FromDispatchAll(Tail(q)[j])
          PROVE  Tail(q)[i].policy # Tail(q)[j].policy
      <4>1. j + 1 \in DOMAIN q /\ Tail(q)[j] = q[j + 1] /\ i + 1 # j + 1
        BY <1>5, <3>1, <3>3
      <4> QED
        BY <3>1, <3>2, <3>3, <4>1
    <3>4. c.src = "ALL" => c.reqs \cap q[i + 1].reqs = {}
      <4>1. SUFFICES ASSUME c.src = "ALL", NEW h \in c.reqs, h \in q[i + 1].reqs PROVE FALSE
        OBVIOUS
      <4>2. 1 # i + 1 /\ FromDispatchAll(q[1])
        BY <1>1, <1>5, <3>1, <4>1 DEF FromDispatchAll
      <4>3. q[i + 1].policy # c.policy
        BY <1>5, <3>2, <4>2
      <4>4. SaysTruth(q[i + 1])
        BY <3>1 DEF ReportInv, QueuedTruth, FromDispatchAll
      <4> QED
        BY <1>7, <4>1, <4>3, <4>4 DEF SaysTruth
    <3> QED
      BY <1>3, <1>6, <3>0, <3>1, <3>2, <3>3, <3>4
  <2> QED
    BY <2>1, <2>2 DEF Threads
<1> QED
  BY <1>8, <1>9, <1>11, <1>12, <1>13 DEF ReportInv

\* Lists of calls of dispatchAll: each send takes all requests to be reported of
\* its policy, one of P, and no two have the same policy.
Dispatches(s, P) ==
  /\ s \in Seq(Call)
  /\ \A i \in DOMAIN s : s[i].op = "send" =>
       /\ s[i].src = "ALL"
       /\ s[i].policy \in P
       /\ s[i].reqs = Composite(er, get_by_suspendPolicy(er, eList, s[i].policy))
  /\ \A i, j \in DOMAIN s :
       i # j /\ s[i].op = "send" /\ s[j].op = "send" => s[i].policy # s[j].policy

\* One after the other, for different policies.
LEMMA DispatchesConcat ==
  ASSUME NEW P, NEW Q, P \cap Q = {}, NEW s, NEW u, Dispatches(s, P), Dispatches(u, Q)
  PROVE  Dispatches(s \o u, P \cup Q)
<1>1. s \in Seq(Call) /\ u \in Seq(Call)
  BY DEF Dispatches
<1> DEFINE w == s \o u
<1>2. /\ w \in Seq(Call) /\ Len(w) = Len(s) + Len(u) /\ Len(s) \in Nat /\ Len(u) \in Nat
      /\ \A i \in 1 .. Len(s) + Len(u) : w[i] = IF i <= Len(s) THEN s[i] ELSE u[i - Len(s)]
  BY <1>1, ConcatProperties, LenProperties
<1> HIDE DEF w
<1>3. \A i \in DOMAIN w : \/ i \in DOMAIN s /\ w[i] = s[i]
                          \/ i - Len(s) \in DOMAIN u /\ w[i] = u[i - Len(s)] /\ i \notin DOMAIN s
  BY <1>1, <1>2
<1>4. ASSUME NEW i \in DOMAIN w, w[i].op = "send"
      PROVE  /\ w[i].src = "ALL"
             /\ w[i].policy \in P \cup Q
             /\ w[i].reqs = Composite(er, get_by_suspendPolicy(er, eList, w[i].policy))
  BY <1>3, <1>4 DEF Dispatches
<1>5. ASSUME NEW i \in DOMAIN w, NEW j \in DOMAIN w, i # j, w[i].op = "send", w[j].op = "send"
      PROVE  w[i].policy # w[j].policy
  <2>1. i \in Nat /\ j \in Nat
    BY <1>2
  <2>2. i - Len(s) # j - Len(s)
    BY <1>2, <1>5, <2>1
  <2>3. CASE i \in DOMAIN s /\ j \in DOMAIN s
    BY <1>3, <1>5, <2>3 DEF Dispatches
  <2>4. CASE i \notin DOMAIN s /\ j \notin DOMAIN s
    BY <1>3, <1>5, <2>2, <2>4 DEF Dispatches
  <2>5. CASE i \in DOMAIN s /\ j \notin DOMAIN s
    <3>1. w[i].policy \in P /\ w[j].policy \in Q
      BY <1>3, <1>5, <2>5 DEF Dispatches
    <3> QED
      BY <3>1
  <2>6. CASE i \notin DOMAIN s /\ j \in DOMAIN s
    <3>1. w[i].policy \in Q /\ w[j].policy \in P
      BY <1>3, <1>5, <2>6 DEF Dispatches
    <3> QED
      BY <3>1
  <2> QED
    BY <2>3, <2>4, <2>5, <2>6
<1> QED
  BY <1>2, <1>4, <1>5 DEF Dispatches, w

\* The composites of the three policies, and the resume.
LEMMA DispatchAllApart ==
  ASSUME TypeOK
  PROVE  Dispatches(internalDispatchSet("NONE") \o internalDispatchSet("EVENT_THREAD")
                      \o internalDispatchSet("ALL") \o <<Resume>>,
                    {"NONE"} \cup {"EVENT_THREAD"} \cup {"ALL"} \cup {})
<1>1. ASSUME NEW p \in Policies PROVE Dispatches(internalDispatchSet(p), {p})
  <2> DEFINE taken == Composite(er, get_by_suspendPolicy(er, eList, p))
             call  == Send("ALL", p, taken)
  <2>1. call \in Call
    BY TakenExist, CallTypes DEF Sources
  <2>2. call.src = "ALL" /\ call.policy = p /\ call.reqs = taken
    BY DEF Send
  <2>3. internalDispatchSet(p) = IF taken = {} THEN <<>> ELSE <<call>>
    BY DEF internalDispatchSet
  <2> HIDE DEF call, taken
  <2> DEFINE one == <<call>>
             none == <<>>
  <2>4. one \in Seq(Call) /\ DOMAIN one = {1} /\ one[1] = call
    BY <2>1
  <2>5. none \in Seq(Call) /\ DOMAIN none = {}
    BY Tuples
  <2> HIDE DEF one, none
  <2>6. Dispatches(one, {p})
    BY <2>2, <2>4 DEF Dispatches, taken
  <2>7. Dispatches(none, {p})
    BY <2>5 DEF Dispatches
  <2> QED
    BY <2>3, <2>6, <2>7 DEF one, none
<1>2. Dispatches(<<Resume>>, {})
  <2> DEFINE one == <<Resume>>
  <2>1. one \in Seq(Call) /\ DOMAIN one = {1} /\ one[1].op = "resume"
    BY CallTypes DEF Resume
  <2> HIDE DEF one
  <2>2. Dispatches(one, {})
    BY <2>1 DEF Dispatches
  <2> QED
    BY <2>2 DEF one
<1> DEFINE s1 == internalDispatchSet("NONE")
           s2 == internalDispatchSet("EVENT_THREAD")
           s3 == internalDispatchSet("ALL")
           s4 == <<Resume>>
<1>3. Dispatches(s1, {"NONE"}) /\ Dispatches(s2, {"EVENT_THREAD"}) /\ Dispatches(s3, {"ALL"})
      /\ Dispatches(s4, {})
  BY <1>1, <1>2 DEF Policies
<1> HIDE DEF s1, s2, s3, s4
<1>4. Dispatches(s1 \o s2, {"NONE"} \cup {"EVENT_THREAD"})
  BY <1>3, DispatchesConcat
<1>5. Dispatches((s1 \o s2) \o s3, ({"NONE"} \cup {"EVENT_THREAD"}) \cup {"ALL"})
  BY <1>3, <1>4, DispatchesConcat
<1>6. Dispatches(((s1 \o s2) \o s3) \o s4, (({"NONE"} \cup {"EVENT_THREAD"}) \cup {"ALL"}) \cup {})
  BY <1>3, <1>5, DispatchesConcat
<1> QED
  BY <1>6 DEF s1, s2, s3, s4

\* dispatchAll marks what it takes, and takes nothing that was marked before.
LEMMA DispatchAllReport ==
  ASSUME TypeOK, ReportInv, dispatchAll
  PROVE  ReportInv'
<1> DEFINE calls == internalDispatchSet("NONE") \o internalDispatchSet("EVENT_THREAD")
                      \o internalDispatchSet("ALL") \o <<Resume>>
           Q == {"NONE"} \cup {"EVENT_THREAD"} \cup {"ALL"} \cup {}
           pending == PendingIn(er, eList)
<1>1. Dispatches(calls, Q)
  BY DispatchAllApart
<1>2. todo'["vm"] = calls /\ todo'["jdwp"] = todo["jdwp"] /\ events' = events
  BY DEF dispatchAll, TypeOK, Threads, wire
<1>3. /\ DOMAIN er' = DOMAIN er
      /\ \A h \in DOMAIN er : er'[h] = IF h \in pending
                                       THEN [er[h] EXCEPT !.triggered = FALSE, !.isremoved = TRUE]
                                       ELSE er[h]
  BY DEF dispatchAll, Reported
<1>4. \A h \in pending : h \in DOMAIN er /\ ~er[h].isremoved
  BY TakenExist DEF PendingIn, Pending
<1>5. \A h \in DOMAIN er : er[h] \in EventRequest
  BY DEF TypeOK
<1> HIDE DEF calls, Q, pending
<1>6. \A h \in DOMAIN er : /\ er'[h].policy = er[h].policy
                           /\ er[h].isremoved => er'[h].isremoved
                           /\ h \in pending => er'[h].isremoved
  BY <1>3, <1>5 DEF EventRequest
<1>7. RequestsGrow
  BY <1>3, <1>6 DEF RequestsGrow
<1>8. \A i \in DOMAIN calls : calls[i].op = "send" =>
        /\ calls[i].src = "ALL"
        /\ \A h \in calls[i].reqs : h \in pending /\ er[h].policy = calls[i].policy
  BY <1>1 DEF Dispatches, Composite, get_by_suspendPolicy, pending
<1>9. SentTruth'
  BY <1>2, <1>7, TruthKept DEF ReportInv, SentTruth, SaysTruth
<1>10. ReportedOnce' /\ OnlyVMDispatches'
  BY <1>2 DEF ReportInv, ReportedOnce, OnlyVMDispatches, FromDispatchAll
<1>11. QueuedTruth'
  <2>1. \A i \in DOMAIN calls : calls[i].op = "send" =>
          \A h \in calls[i].reqs : /\ h \in DOMAIN er'
                                   /\ er'[h].policy = calls[i].policy
                                   /\ er'[h].isremoved
    BY <1>3, <1>4, <1>6, <1>8
  <2>2. \A i \in DOMAIN todo'["vm"] : todo'["vm"][i].op = "send" => SaysTruth(todo["vm"][i])'
    BY <1>2, <2>1 DEF SaysTruth
  <2>3. \A i \in DOMAIN todo'["jdwp"] : todo'["jdwp"][i].op = "send"
                                          => SaysTruth(todo["jdwp"][i])'
    BY <1>2, <1>7, TruthKept DEF ReportInv, QueuedTruth, SaysTruth, Threads
  <2> QED
    BY <2>2, <2>3 DEF QueuedTruth, Threads
<1>12. QueuedApart'
  <2>1. \A i \in DOMAIN calls, k \in DOMAIN events :
          calls[i].op = "send" /\ events[k].src = "ALL" => events[k].reqs \cap calls[i].reqs = {}
    BY <1>4, <1>8 DEF ReportInv, SentTruth, SaysTruth
  <2>2. \A i, j \in DOMAIN calls :
          i # j /\ calls[i].op = "send" /\ calls[j].op = "send" => calls[i].policy # calls[j].policy
    BY <1>1 DEF Dispatches
  <2> QED
    BY <1>2, <2>1, <2>2 DEF QueuedApart, FromDispatchAll
<1> QED
  BY <1>9, <1>10, <1>11, <1>12 DEF ReportInv

\* The single THREAD_START of a resume tells the truth about its request.
LEMMA DispatchHarmless ==
  ASSUME TypeOK, NEW h \in DOMAIN er, er' = er
  PROVE  \A i \in DOMAIN dispatchEvent(h) : Harmless(dispatchEvent(h)[i])
<1> DEFINE Safe == {d \in Call : d.op = "send" => d.src = "THREAD_START" /\ d.reqs = {h}
                                                   /\ d.policy = er[h].policy}
           first == IF er[h].policy # "NONE" THEN <<Suspend>> ELSE <<>>
           second == <<Do("mark", h), Send("THREAD_START", er[h].policy, {h})>>
<1>1. h \in Nat /\ er[h].policy \in Policies
  <2>1. h \in Nat /\ er[h] \in EventRequest
    BY DEF TypeOK
  <2> QED
    BY <2>1 DEF EventRequest
<1>2. /\ Suspend \in Call /\ Do("mark", h) \in Call
      /\ Send("THREAD_START", er[h].policy, {h}) \in Call
  BY <1>1, CallTypes DEF Sources
<1>3. /\ Suspend \in Safe /\ Do("mark", h) \in Safe
      /\ Send("THREAD_START", er[h].policy, {h}) \in Safe
  BY <1>2 DEF Suspend, Do, Send
<1> HIDE DEF Safe
<1>4. first \in Seq(Safe) /\ second \in Seq(Safe)
  BY <1>3, Tuples
<1> HIDE DEF first, second
<1>5. first \o second \in Seq(Safe)
  BY <1>4, ConcatProperties
<1>6. dispatchEvent(h) = first \o second
  BY DEF dispatchEvent, first, second
<1>7. \A i \in DOMAIN dispatchEvent(h) : dispatchEvent(h)[i] \in Safe
  BY <1>5, <1>6, LenProperties, ElementOfSeq
<1> QED
  BY <1>7 DEF Safe, Harmless

\* Calls both threads make.
LEMMA ReportCallStep ==
  ASSUME TypeOK, ReportInv, NEW t \in Threads, CallStep(t)
  PROVE  ReportInv'
<1>1. CASE SuspendLoad(t)
  BY <1>1, SameRequests, ListsReport DEF SuspendLoad, list, wire
<1>2. CASE ResumeLoad(t)
  BY <1>2, SameRequests, ListsReport DEF ResumeLoad, list, wire
<1>3. CASE NewEventLoad(t)
  BY <1>3, SameRequests, ListsReport DEF NewEventLoad, list, wire
<1>4. CASE GenIdLoad(t)
  BY <1>4, SameRequests, ListsReport DEF GenIdLoad, list, wire
<1>5. CASE GenIdStore(t)
  BY <1>5, SameRequests, ListsReport DEF GenIdStore, list, wire
<1>6. CASE SuspendStore(t)
  BY <1>6, SameRequests, ReturnReport DEF SuspendStore, At, list, wire
<1>7. CASE ResumeStore(t)
  BY <1>7, SameRequests, ReturnReport DEF ResumeStore, At, list, wire
<1>8. CASE NewEventStore(t)
  <2>1. todo[t] # <<>> /\ Return(t) /\ events' = events
    BY <1>8 DEF NewEventStore, At, wire
  <2>2. RequestsGrow
    <3> DEFINE e == [Head(todo[t]).req EXCEPT !.id = tmp[t]]
    <3>1. er' = er \/ er' = Append(er, e)
      BY <1>8 DEF NewEventStore
    <3> HIDE DEF e
    <3>2. er \in Seq(EventRequest)
      BY DEF TypeOK
    <3>3. DOMAIN er \subseteq DOMAIN Append(er, e) /\ \A h \in DOMAIN er : Append(er, e)[h] = er[h]
      BY <3>2
    <3> QED
      BY <3>1, <3>3 DEF RequestsGrow
  <2> QED
    BY <2>1, <2>2, ReturnReport
<1>9. CASE SendEvent(t)
  BY <1>9, SendReport
<1> QED
  BY <1>1, <1>2, <1>3, <1>4, <1>5, <1>6, <1>7, <1>8, <1>9 DEF CallStep

\* The JDWP thread's own steps.
LEMMA ReportJDWPStep ==
  ASSUME TypeOK, ReportInv, JDWPStep, ~CallStep("jdwp")
  PROVE  ReportInv'
<1>1. "jdwp" \in Threads /\ (todo["jdwp"] # <<>> => Head(todo["jdwp"]) \in Call)
  BY HeadCall DEF Threads
<1>2. CASE ExitProcess("jdwp")
  BY <1>1, <1>2, SameRequests, ReturnReport DEF ExitProcess, At, list, wire
<1>3. CASE SendReply
  BY <1>1, <1>3, SameRequests, ReturnReport DEF SendReply, At, list
<1>4. CASE SendRequestId
  BY <1>1, <1>4, SameRequests, ReturnReport DEF SendRequestId, At, list
<1>5. CASE HoldEvents
  BY <1>1, <1>5, SameRequests, ReturnReport DEF HoldEvents, At, list, wire
<1>6. CASE NoteThreadStart
  BY <1>1, <1>6, SameRequests, ReturnReport DEF NoteThreadStart, At, wire
<1>7. CASE InsertRequest
  BY <1>1, <1>7, SameRequests, ReturnReport DEF InsertRequest, At, wire
<1>8. CASE RemoveRequest
  BY <1>1, <1>8, SameRequests, ReturnReport DEF RemoveRequest, At, wire
<1>9. CASE RemoveAllDone
  BY <1>1, <1>9, SameRequests, ReturnReport DEF RemoveAllDone, At, list, wire
<1>10. CASE RemoveAllRound
  BY <1>10, SameRequests, ListsReport DEF RemoveAllRound, threads, wire
<1>11. CASE release_jdwpInitHalt
  BY <1>11, SameRequests, ListsReport DEF release_jdwpInitHalt, list, wire
<1>12. CASE MarkDispatched
  <2>1. RequestsGrow
    <3> DEFINE n == Head(todo["jdwp"]).n
    <3>1. er' = [er EXCEPT ![n].triggered = FALSE]
      BY <1>12 DEF MarkDispatched
    <3> HIDE DEF n
    <3>2. \A h \in DOMAIN er : er[h] \in EventRequest
      BY DEF TypeOK
    <3>3. DOMAIN er' = DOMAIN er
      BY <3>1
    <3>4. \A h \in DOMAIN er : er'[h] = er[h] \/ er'[h] = [er[h] EXCEPT !.triggered = FALSE]
      BY <3>1
    <3>5. \A h \in DOMAIN er : er'[h].policy = er[h].policy /\ er'[h].isremoved = er[h].isremoved
      BY <3>2, <3>4 DEF EventRequest
    <3> QED
      BY <3>3, <3>5 DEF RequestsGrow
  <2> QED
    BY <1>1, <1>12, <2>1, ReturnReport DEF MarkDispatched, At, wire
<1>13. CASE ReadStatus
  <2>1. Head(todo["jdwp"]).n \in Nat
    BY <1>1, <1>13, CallFields DEF ReadStatus, ReadCounter, At
  <2> DEFINE d == Answer(Head(todo["jdwp"]).n, "TR_Status", IF isVM_Suspended THEN 1 ELSE 0)
  <2>2. d \in Plain
    BY <2>1, PlainCalls DEF Whats
  <2>3. ReadCounter("status", <<d>>)
    BY <1>13 DEF ReadStatus
  <2> HIDE DEF d
  <2> QED
    BY <2>2, <2>3, QuietHarmless, ReadCounterReport
<1>14. CASE ReadIsSuspended
  <2>1. Head(todo["jdwp"]).n \in Nat
    BY <1>1, <1>14, CallFields DEF ReadIsSuspended, ReadCounter, At
  <2> DEFINE d == IF isVM_Suspended THEN Do("readCount", Head(todo["jdwp"]).n)
                  ELSE Reply(Head(todo["jdwp"]).n, "TR_SuspendCount")
  <2>2. d \in Plain
    BY <2>1, PlainCalls DEF Whats
  <2>3. ReadCounter("count", <<d>>)
    BY <1>14 DEF ReadIsSuspended
  <2> HIDE DEF d
  <2> QED
    BY <2>2, <2>3, QuietHarmless, ReadCounterReport
<1>15. CASE ReadSuspendCount
  <2>1. Head(todo["jdwp"]).n \in Nat /\ suspendCounter \in Nat
    BY <1>1, <1>15, CallFields, SessionAssumption DEF ReadSuspendCount, ReadCounter, At, TypeOK
  <2> DEFINE d == Answer(Head(todo["jdwp"]).n, "TR_SuspendCount", suspendCounter)
  <2>2. d \in Plain
    BY <2>1, PlainCalls DEF Whats
  <2>3. ReadCounter("readCount", <<d>>)
    BY <1>15 DEF ReadSuspendCount
  <2> HIDE DEF d
  <2> QED
    BY <2>2, <2>3, QuietHarmless, ReadCounterReport
<1>16. CASE StartIfLast
  <2> DEFINE calls == IF suspendCounter <= 1 /\ erTHREAD_START # 0
                      THEN dispatchEvent(erTHREAD_START) ELSE <<>>
  <2>1. erTHREAD_START # 0 => erTHREAD_START \in DOMAIN er
    BY DEF TypeOK
  <2>2. ReadCounter("startIfLast", calls) /\ er' = er
    BY <1>16 DEF StartIfLast, ReadCounter, list
  <2>3. calls \in Seq(Call) /\ \A i \in DOMAIN calls : Harmless(calls[i])
    BY <2>1, <2>2, Tuples, DispatchCalls, DispatchHarmless
  <2> HIDE DEF calls
  <2> QED
    BY <2>2, <2>3, ReadCounterReport
<1>17. CASE ForceEarlyReturn
  <2> DEFINE c == Head(todo["jdwp"])
             calls == IF ~isVM_Suspended \/ ~c.app THEN <<Error(c.n)>>
                      ELSE IF c.badTag THEN <<Error(c.n), Resume>> ELSE <<Resume>>
  <2>1. ReadCounter("forceEarly", calls)
    BY <1>17 DEF ForceEarlyReturn
  <2>2. c.n \in Nat
    BY <1>1, <2>1, CallFields DEF ReadCounter, At
  <2>3. calls \in Seq(Plain)
    <3>1. Error(c.n) \in Plain /\ Resume \in Plain
      BY <2>2, PlainCalls
    <3>2. <<Error(c.n)>> \in Seq(Plain) /\ <<Error(c.n), Resume>> \in Seq(Plain)
          /\ <<Resume>> \in Seq(Plain)
      BY <3>1, Tuples
    <3> QED
      BY <3>2
  <2> HIDE DEF calls
  <2>4. calls \in Seq(Call) /\ \A i \in DOMAIN calls : Harmless(calls[i])
    BY <2>3, PlainLists DEF Harmless
  <2> QED
    BY <2>1, <2>4, ReadCounterReport
<1>18. CASE onHandShake
  <2> DEFINE q == <<Send("VM_INIT", "NONE", {})>>
  <2>1. /\ er' = er /\ events' = events
        /\ todo' = todo \/ todo' = [todo EXCEPT !["jdwp"] = q]
    BY <1>18 DEF onHandShake, list, wire
  <2>2. DOMAIN q = {1} /\ q[1] = Send("VM_INIT", "NONE", {})
    OBVIOUS
  <2>3. Harmless(q[1])
    BY <2>2 DEF Harmless, Send
  <2> HIDE DEF q
  <2>4. CASE todo' = todo
    BY <2>1, <2>4, SameRequests, ListsReport
  <2>5. CASE todo' = [todo EXCEPT !["jdwp"] = q]
    <3>1. todo'["jdwp"] = q /\ todo'["vm"] = todo["vm"]
      BY <2>5 DEF TypeOK, Threads
    <3>2. VMListKept /\ JDWPListKept
      BY <2>2, <2>3, <3>1 DEF VMListKept, JDWPListKept
    <3> QED
      BY <2>1, <3>2, SameRequests, NothingReported
  <2> QED
    BY <2>1, <2>4, <2>5
<1> QED
  BY <1>2, <1>3, <1>4, <1>5, <1>6, <1>7, <1>8, <1>9, <1>10, <1>11, <1>12, <1>13, <1>14, <1>15, <1>16, <1>17, <1>18 DEF JDWPStep

\* New calls of the VM thread that send no composite.
LEMMA VMCallsReport ==
  ASSUME TypeOK, ReportInv, NEW calls, todo' = [todo EXCEPT !["vm"] = calls],
         er' = er, events' = events,
         \A i \in DOMAIN calls : calls[i].op = "send" => calls[i].reqs = {} /\ calls[i].src # "ALL"
  PROVE  ReportInv'
<1>1. todo'["vm"] = calls /\ todo'["jdwp"] = todo["jdwp"]
  BY DEF TypeOK, Threads
<1>2. VMListKept /\ JDWPListKept
  BY <1>1 DEF VMListKept, JDWPListKept
<1> QED
  BY <1>2, SameRequests, NothingReported

\* The VM thread's own steps.
LEMMA ReportVMStep ==
  ASSUME TypeOK, ReportInv, VMStep, ~CallStep("vm")
  PROVE  ReportInv'
<1>1. ASSUME NEW from, NEW to, Move(from, to) PROVE ReportInv'
  BY <1>1, SameRequests, ListsReport DEF Move, list, wire
<1>2. CASE RaiseException
  <2> DEFINE calls == <<NewEvent(NoRequest), Suspend, Send("EXCEPTION", "ALL", {})>>
  <2>1. todo' = [todo EXCEPT !["vm"] = calls] /\ er' = er /\ events' = events
    BY <1>2 DEF RaiseException, list, wire
  <2>2. /\ DOMAIN calls = 1 .. 3
        /\ calls[1].op = "newEvent" /\ calls[2].op = "suspend"
        /\ calls[3].reqs = {} /\ calls[3].src = "EXCEPTION"
    BY DEF NewEvent, Suspend, Send
  <2> HIDE DEF calls
  <2>3. \A i \in DOMAIN calls : i = 1 \/ i = 2 \/ i = 3
    BY <2>2
  <2> QED
    BY <2>1, <2>2, <2>3, VMCallsReport
<1>3. CASE check_forEvents
  <2> DEFINE calls == IF PendingIn(er, eList) # {} THEN <<Suspend>> ELSE <<>>
  <2>1. todo' = [todo EXCEPT !["vm"] = calls] /\ er' = er /\ events' = events
    BY <1>3 DEF check_forEvents, list, wire
  <2>2. \A i \in DOMAIN calls : calls[i].op # "send"
    BY DEF Suspend
  <2> HIDE DEF calls
  <2> QED
    BY <2>1, <2>2, VMCallsReport
<1>4. CASE ReturnFromMain
  BY <1>4, SameRequests, ListsReport DEF ReturnFromMain, threads, list, wire
<1> QED
  BY <1>1, <1>2, <1>3, <1>4, DispatchAllReport
     DEF VMStep, LeaveInitHalt, PassChecks, EnterSuspendLoop, LeaveSuspendLoop, PassHold, ExecOpcode

\* Every step.
LEMMA ReportStep ==
  ASSUME TypeOK, ReportInv, [Next]_vars
  PROVE  ReportInv'
<1>1. "vm" \in Threads /\ "jdwp" \in Threads
  BY DEF Threads
<1>2. CASE UNCHANGED vars
  BY <1>2, SameRequests, ListsReport DEF vars, threads, list, wire
<1>3. CASE JDWPStep
  BY <1>1, <1>3, ReportCallStep, ReportJDWPStep
<1>4. CASE VMStep
  BY <1>1, <1>4, ReportCallStep, ReportVMStep
<1>5. CASE Disconnect
  BY <1>5, SameRequests, ListsReport DEF Disconnect, threads, list, wire
<1>6. ASSUME NEW c \in Commands, onReceive(c) PROVE ReportInv'
  <2>1. c \in Command /\ mpacket' \in Nat
    BY <1>6, SessionAssumption DEF onReceive, TypeOK
  <2> DEFINE calls == onCommand(c, mpacket')
  <2>2. \A i \in DOMAIN calls : calls[i].op # "send"
    BY <2>1, Handlers
  <2>3. todo' = [todo EXCEPT !["jdwp"] = calls] /\ er' = er /\ events' = events
    BY <1>6 DEF onReceive, list, wire
  <2> HIDE DEF calls
  <2>4. todo'["jdwp"] = calls /\ todo'["vm"] = todo["vm"]
    BY <2>3 DEF TypeOK, Threads
  <2>5. VMListKept /\ JDWPListKept
    BY <2>2, <2>4 DEF VMListKept, JDWPListKept, Harmless
  <2> QED
    BY <2>3, <2>5, SameRequests, NothingReported
<1>7. CASE Spin
  BY <1>2, <1>7 DEF Spin
<1> QED
  BY <1>2, <1>3, <1>4, <1>5, <1>6, <1>7 DEF Next, Debugger

LEMMA ReportInit == Init => ReportInv
BY DEF Init, ReportInv, SentTruth, QueuedTruth, OnlyVMDispatches, QueuedApart, ReportedOnce,
       Threads

\* dispatchAll reports a request at most once, however the debugger's commands
\* and the rounds of the suspend loop interleave.
THEOREM ReportsOnce == Spec => []ReportedOnce
<1>1. TypeOK /\ ReportInv /\ [Next]_vars => ReportInv'
  BY ReportStep
<1>2. ReportInv => ReportedOnce
  BY DEF ReportInv
<1> QED
  BY <1>1, <1>2, ReportInit, TypeCorrect, PTL DEF Spec

\* Every event on the wire carries the policy of the requests it reports.
THEOREM PolicyKept == Spec => []CompositePolicy
<1>1. TypeOK /\ ReportInv /\ [Next]_vars => ReportInv'
  BY ReportStep
<1>2. ReportInv => CompositePolicy
  BY DEF ReportInv, SentTruth, SaysTruth, CompositePolicy
<1> QED
  BY <1>1, <1>2, ReportInit, TypeCorrect, PTL DEF Spec

=============================================================================
