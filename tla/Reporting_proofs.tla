-------------------------- MODULE Reporting_proofs --------------------------
(***************************************************************************)
(* The two threads of a debug session implement EventReporting, for every *)
(* instance.                                                               *)
(***************************************************************************)
EXTENDS DebugSession_proofs

-----------------------------------------------------------------------------
(* The request in the hands of ER_Set                                      *)

\* ER_Set makes its request first and adds it to the list once.
Ordered(q) ==
  /\ \A i \in DOMAIN q : q[i].op = "newEvent" => i = 1
  /\ \A i, j \in DOMAIN q : q[i].op = "insert" /\ q[j].op = "insert" => i = j

\* A list that has its request still to make, or to add.
Owes(q)    == q # <<>> /\ q[1].op = "newEvent"
Inserts(q) == \E i \in DOMAIN q : q[i].op = "insert"

\* A packet makes at most one request, so there are never more requests than
\* packets; and the one that is made and not yet added is neither in the list
\* nor in a composite.
SetInv ==
  /\ Ordered(todo["jdwp"])
  /\ commands <= MaxCommands
  /\ Len(er) <= commands
  /\ Owes(todo["jdwp"]) => Len(er) < commands
  /\ Inserts(todo["jdwp"]) /\ ~Owes(todo["jdwp"]) => Len(er) \notin ToSet(eList) \cup Taken

\* The VM thread's sends that are no composites carry no request.
VMSends ==
  \A i \in DOMAIN todo["vm"] :
    todo["vm"][i].op = "send" => todo["vm"][i].src = "ALL" \/ todo["vm"][i].reqs = {}

Reporting == TypeInv /\ ReportInv /\ SetInv /\ VMSends

\* Lists without the two calls owe and insert nothing.
Settled(calls) == \A i \in DOMAIN calls : calls[i].op \notin {"newEvent", "insert"}

LEMMA SettledOrdered ==
  ASSUME NEW calls \in Seq(Call), Settled(calls)
  PROVE  Ordered(calls) /\ ~Owes(calls) /\ ~Inserts(calls)
<1>1. calls # <<>> => 1 \in DOMAIN calls
  OBVIOUS
<1> QED
  BY <1>1 DEF Settled, Ordered, Owes, Inserts

LEMMA PlainSettled ==
  ASSUME NEW calls \in Seq(Plain)
  PROVE  calls \in Seq(Call) /\ Settled(calls)
<1>1. \A i \in DOMAIN calls : calls[i] \in Plain
  BY LenProperties, ElementOfSeq
<1> QED
  BY <1>1, PlainLists DEF Settled, Plain, NeedsRequest

\* What is left of an ordered list once its head has become settled calls.
LEMMA RestOrdered ==
  ASSUME NEW q \in Seq(Call), q # <<>>, Ordered(q), NEW calls \in Seq(Call), Settled(calls)
  PROVE  /\ Ordered(calls \o Tail(q)) /\ ~Owes(calls \o Tail(q))
         /\ Inserts(calls \o Tail(q)) => Inserts(q) /\ Head(q).op # "insert"
<1> DEFINE r == Tail(q)
<1>1. /\ \A i \in DOMAIN r : i \in Nat \ {0} /\ i + 1 \in DOMAIN q /\ r[i] = q[i + 1]
      /\ 1 \in DOMAIN q /\ Head(q) = q[1] /\ r \in Seq(Call)
  BY TailIndex, HeadTailProperties
<1> HIDE DEF r
<1> DEFINE w == calls \o r
           n == Len(calls)
<1>2. /\ w \in Seq(Call) /\ Len(w) = n + Len(r) /\ n \in Nat /\ Len(r) \in Nat
      /\ \A i \in 1 .. n + Len(r) : w[i] = IF i <= n THEN calls[i] ELSE r[i - n]
  BY <1>1, ConcatProperties, LenProperties
<1>3. DOMAIN calls = 1 .. n /\ DOMAIN r = 1 .. Len(r)
  BY <1>1
<1> HIDE DEF w, n
<1>4. DOMAIN w = 1 .. n + Len(r)
  BY <1>2
<1>5. ASSUME NEW i \in DOMAIN w, w[i].op \in {"newEvent", "insert"}
      PROVE  /\ i \in Nat /\ i - n \in DOMAIN r /\ w[i] = q[i - n + 1]
             /\ i - n + 1 \in DOMAIN q /\ i - n + 1 # 1
  <2>1. i \in Nat /\ 1 <= i /\ i <= n + Len(r)
    BY <1>2, <1>4
  <2>2. ~(i <= n)
    BY <1>2, <1>3, <1>5, <2>1 DEF Settled
  <2>3. i - n \in 1 .. Len(r) /\ w[i] = r[i - n]
    BY <1>2, <2>1, <2>2
  <2> DEFINE k == i - n
  <2>4. k \in DOMAIN r
    BY <1>3, <2>3
  <2> HIDE DEF k
  <2>5. k \in Nat \ {0} /\ k + 1 \in DOMAIN q /\ r[k] = q[k + 1]
    BY <1>1, <2>4
  <2>6. k + 1 # 1
    BY <2>5
  <2> QED
    BY <2>1, <2>3, <2>4, <2>5, <2>6 DEF k
<1>6. \A i \in DOMAIN w : w[i].op # "newEvent"
  BY <1>5 DEF Ordered
<1>7. ASSUME NEW i \in DOMAIN w, NEW j \in DOMAIN w, w[i].op = "insert", w[j].op = "insert"
      PROVE  i = j
  <2>1. /\ i \in Nat /\ w[i] = q[i - n + 1] /\ i - n + 1 \in DOMAIN q
        /\ j \in Nat /\ w[j] = q[j - n + 1] /\ j - n + 1 \in DOMAIN q
    BY <1>5, <1>7
  <2>2. i - n + 1 = j - n + 1
    BY <1>7, <2>1 DEF Ordered
  <2> QED
    BY <1>2, <2>1, <2>2
<1>8. ASSUME NEW i \in DOMAIN w, w[i].op = "insert"
      PROVE  Inserts(q) /\ Head(q).op # "insert"
  <2>1. w[i] = q[i - n + 1] /\ i - n + 1 \in DOMAIN q /\ i - n + 1 # 1
    BY <1>5, <1>8
  <2> DEFINE k == i - n + 1
  <2>2. k \in DOMAIN q /\ k # 1 /\ q[k].op = "insert"
    BY <1>8, <2>1
  <2> HIDE DEF k
  <2> QED
    BY <1>1, <2>2 DEF Inserts, Ordered
<1>9. w # <<>> => 1 \in DOMAIN w
  BY <1>2
<1> QED
  BY <1>6, <1>7, <1>8, <1>9 DEF Ordered, Owes, Inserts, w, r

\* ER_Set makes one request, then adds it at most once.
LEMMA SetOrdered ==
  ASSUME NEW c \in Command, NEW n \in Nat, c.op = "ER_Set"
  PROVE  Ordered(onSend_CS_ER_Set(c, n)) /\ Owes(onSend_CS_ER_Set(c, n))
<1> DEFINE make  == NewEvent(RequestOf(c))
           wrong == IF c.mod = "unknownClass" THEN <<Error(n)>> ELSE <<>>
           add   == IF c.mod = "exceptionOnly" THEN <<>> ELSE add_EventRequest(RequestOf(c))
           reply == Do("replyId", n)
<1>1. make \in Call /\ make.op = "newEvent"
  BY RequestOfType, CallTypes DEF NewEvent
<1>2. wrong \in Seq(Call) /\ Settled(wrong)
  <2> DEFINE e == Error(n)
  <2>1. e \in Call /\ e.op = "reply"
    BY CallTypes DEF Error
  <2> HIDE DEF e
  <2>2. <<e>> \in Seq(Call) /\ Settled(<<e>>)
    BY <2>1 DEF Settled
  <2>3. <<>> \in Seq(Call) /\ Settled(<<>>)
    BY DEF Settled
  <2> QED
    BY <2>2, <2>3 DEF e
<1>3. /\ add \in Seq(Call)
      /\ \A i \in DOMAIN add : add[i].op # "newEvent"
      /\ \A i, j \in DOMAIN add : add[i].op = "insert" /\ add[j].op = "insert" => i = j
  <2> DEFINE a == [op |-> "noteStart"]
             b == [op |-> "insert"]
  <2>1. a \in Call /\ b \in Call /\ a.op = "noteStart" /\ b.op = "insert"
    BY DEF Call
  <2> HIDE DEF a, b
  <2> DEFINE two == <<a, b>>
             one == <<b>>
             none == <<>>
  <2>2. two \in Seq(Call) /\ DOMAIN two = 1 .. 2 /\ two[1] = a /\ two[2] = b
    BY <2>1
  <2>3. one \in Seq(Call) /\ DOMAIN one = 1 .. 1 /\ one[1] = b
    BY <2>1
  <2>4. none \in Seq(Call) /\ DOMAIN none = {}
    BY Tuples
  <2>5. add \in {two, one, none}
    BY DEF add_EventRequest, a, b
  <2> HIDE DEF two, one, none, add
  <2>6. CASE add = two
    BY <2>1, <2>2, <2>6
  <2>7. CASE add = one
    BY <2>1, <2>3, <2>7
  <2>8. CASE add = none
    BY <2>4, <2>8
  <2> QED
    BY <2>5, <2>6, <2>7, <2>8
<1>4. reply \in Call /\ reply.op = "replyId"
  BY CallTypes DEF Do
<1> HIDE DEF make, wrong, add, reply
<1>5. onSend_CS_ER_Set(c, n) = ((<<make>> \o wrong) \o add) \o <<reply>>
  BY DEF onSend_CS_ER_Set, make, wrong, add, reply
<1> DEFINE s1 == <<make>> \o wrong
           s2 == s1 \o add
           s3 == s2 \o <<reply>>
<1>6. /\ s1 \in Seq(Call) /\ Len(s1) >= 1 /\ s1[1] = make
      /\ \A i \in DOMAIN s1 : i # 1 => s1[i].op \notin {"newEvent", "insert"}
  <2>1. s1 \in Seq(Call) /\ Len(s1) = 1 + Len(wrong) /\ Len(wrong) \in Nat
        /\ \A i \in 1 .. 1 + Len(wrong) : s1[i] = IF i <= 1 THEN make ELSE wrong[i - 1]
    BY <1>1, <1>2, ConcatProperties, LenProperties
  <2> HIDE DEF s1
  <2> QED
    BY <1>2, <2>1 DEF Settled
<1> HIDE DEF s1
<1>7. /\ s2 \in Seq(Call) /\ Len(s2) >= 1 /\ s2[1] = make
      /\ \A i \in DOMAIN s2 : i # 1 => s2[i].op # "newEvent"
      /\ \A i, j \in DOMAIN s2 : s2[i].op = "insert" /\ s2[j].op = "insert" => i = j
  <2> DEFINE m == Len(s1)
  <2>1. s2 \in Seq(Call) /\ Len(s2) = m + Len(add) /\ Len(add) \in Nat /\ m \in Nat /\ m >= 1
        /\ \A i \in 1 .. m + Len(add) : s2[i] = IF i <= m THEN s1[i] ELSE add[i - m]
    BY <1>3, <1>6, ConcatProperties, LenProperties
  <2>2. DOMAIN s1 = 1 .. m /\ DOMAIN add = 1 .. Len(add)
    BY <1>3, <1>6
  <2> HIDE DEF s2, m
  <2>3. DOMAIN s2 = 1 .. m + Len(add)
    BY <2>1
  <2>4. s2[1] = make
    BY <1>6, <2>1
  <2>5. ASSUME NEW i \in DOMAIN s2, i # 1, s2[i].op = "newEvent" PROVE FALSE
    <3>1. \/ i \in DOMAIN s1 /\ s2[i] = s1[i]
          \/ i - m \in DOMAIN add /\ s2[i] = add[i - m]
      BY <2>1, <2>2, <2>3
    <3> QED
      BY <1>3, <1>6, <2>5, <3>1
  <2>6. ASSUME NEW i \in DOMAIN s2, s2[i].op = "insert"
        PROVE  i \in Nat /\ i - m \in DOMAIN add /\ s2[i] = add[i - m]
    <3>1. \/ i \in DOMAIN s1 /\ s2[i] = s1[i]
          \/ i - m \in DOMAIN add /\ s2[i] = add[i - m]
      BY <2>1, <2>2, <2>3
    <3>2. ~(i \in DOMAIN s1 /\ s2[i] = s1[i])
      BY <1>1, <1>6, <2>6
    <3> QED
      BY <2>3, <3>1, <3>2
  <2>7. ASSUME NEW i \in DOMAIN s2, NEW j \in DOMAIN s2, s2[i].op = "insert", s2[j].op = "insert"
        PROVE  i = j
    <3>1. /\ i \in Nat /\ i - m \in DOMAIN add /\ s2[i] = add[i - m]
          /\ j \in Nat /\ j - m \in DOMAIN add /\ s2[j] = add[j - m]
      BY <2>6, <2>7
    <3>2. i - m = j - m
      BY <1>3, <2>7, <3>1
    <3> QED
      BY <2>1, <3>1, <3>2
  <2> QED
    BY <2>1, <2>4, <2>5, <2>7
<1> HIDE DEF s2
<1>8. /\ s3 \in Seq(Call) /\ Len(s3) = Len(s2) + 1 /\ Len(s2) \in Nat
      /\ \A i \in 1 .. Len(s2) + 1 : s3[i] = IF i <= Len(s2) THEN s2[i] ELSE reply
  <2>1. <<reply>> \in Seq(Call) /\ Len(<<reply>>) = 1 /\ <<reply>>[1] = reply
    BY <1>4
  <2> DEFINE last == <<reply>>
  <2> HIDE DEF last
  <2>2. last \in Seq(Call) /\ Len(last) = 1 /\ last[1] = reply
    BY <2>1 DEF last
  <2>a. s2 \in Seq(Call) /\ Len(s2) \in Nat
    BY <1>7, LenProperties
  <2>b. /\ s2 \o last \in Seq(Call) /\ Len(s2 \o last) = Len(s2) + Len(last)
        /\ \A i \in 1 .. Len(s2) + Len(last) :
             (s2 \o last)[i] = IF i <= Len(s2) THEN s2[i] ELSE last[i - Len(s2)]
    BY <2>a, <2>2, ConcatProperties
  <2>3. /\ s2 \o last \in Seq(Call) /\ Len(s2 \o last) = Len(s2) + 1 /\ Len(s2) \in Nat
        /\ \A i \in 1 .. Len(s2) + 1 : (s2 \o last)[i] = IF i <= Len(s2) THEN s2[i]
                                                          ELSE last[i - Len(s2)]
    BY <2>a, <2>b, <2>2
  <2>4. \A i \in 1 .. Len(s2) + 1 : ~(i <= Len(s2)) => i - Len(s2) = 1
    BY <2>3
  <2> QED
    BY <2>2, <2>3, <2>4 DEF last
<1> HIDE DEF s3
<1>9. \A i \in DOMAIN s3 : \/ i \in DOMAIN s2 /\ s3[i] = s2[i]
                          \/ s3[i].op = "replyId"
  BY <1>4, <1>7, <1>8
<1>10. s3 # <<>> /\ s3[1] = make
  BY <1>7, <1>8
<1>11. Ordered(s3)
  <2>1. \A i \in DOMAIN s3 : s3[i].op = "newEvent" => i = 1
    BY <1>7, <1>9
  <2>2. \A i, j \in DOMAIN s3 : s3[i].op = "insert" /\ s3[j].op = "insert" => i = j
    BY <1>7, <1>9
  <2> QED
    BY <2>1, <2>2 DEF Ordered
<1> QED
  BY <1>1, <1>5, <1>10, <1>11 DEF Owes, s3, s2, s1

-----------------------------------------------------------------------------
(* What has been taken for composites                                      *)

LEMMA TakenMember ==
  ASSUME NEW h
  PROVE  h \in Taken <=>
           \/ \E i \in DOMAIN events : events[i].src = "ALL" /\ h \in events[i].reqs
           \/ \E i \in DOMAIN todo["vm"] : todo["vm"][i].op = "send" /\ h \in todo["vm"][i].reqs
BY DEF Taken

LEMMA TakenMemberNext ==
  ASSUME NEW h
  PROVE  h \in Taken' <=>
           \/ \E i \in DOMAIN events' : events'[i].src = "ALL" /\ h \in events'[i].reqs
           \/ \E i \in DOMAIN todo'["vm"] : todo'["vm"][i].op = "send" /\ h \in todo'["vm"][i].reqs
BY DEF Taken

\* A thread that returns leaves the calls after the head.
LEMMA ReturnTail ==
  ASSUME TypeOK, NEW t \in Threads, todo[t] # <<>>, Return(t)
  PROVE  todo'[t] = Tail(todo[t]) /\ \A u \in Threads \ {t} : todo'[u] = todo[u]
<1>1. Tail(todo[t]) \in Seq(Call)
  BY HeadCall
<1>2. <<>> \o Tail(todo[t]) = Tail(todo[t])
  BY <1>1, ConcatEmptySeq
<1> QED
  BY <1>2 DEF Return, Become, TypeOK

\* Calls of the VM thread that return and send nothing.
LEMMA TakenReturn ==
  ASSUME TypeOK, VMSends, todo["vm"] # <<>>, Head(todo["vm"]).op # "send", events' = events,
         todo'["vm"] = Tail(todo["vm"])
  PROVE  Taken' = Taken /\ VMSends'
<1> DEFINE q == todo["vm"]
<1>1. q \in Seq(Call) /\ q # <<>>
  BY DEF TypeOK, Threads
<1>2. /\ \A i \in DOMAIN Tail(q) : i \in Nat \ {0} /\ i + 1 \in DOMAIN q /\ Tail(q)[i] = q[i + 1]
      /\ 1 \in DOMAIN q /\ Head(q) = q[1]
  <2> HIDE DEF q
  <2> QED
    BY <1>1, TailIndex
<1>3. ASSUME NEW i \in DOMAIN q, i # 1
      PROVE  i - 1 \in DOMAIN Tail(q) /\ Tail(q)[i - 1] = q[i]
  <2> HIDE DEF q
  <2>1. /\ Len(Tail(q)) = Len(q) - 1 /\ Tail(q) \in Seq(Call)
        /\ \A j \in 1 .. Len(Tail(q)) : Tail(q)[j] = q[j + 1]
    BY <1>1, HeadTailProperties
  <2>2. i \in 2 .. Len(q) /\ Len(q) \in Nat
    BY <1>1, <1>3
  <2> QED
    BY <2>1, <2>2
<1>4. ASSUME NEW h PROVE h \in Taken' <=> h \in Taken
  <2>1. (\E i \in DOMAIN Tail(q) : Tail(q)[i].op = "send" /\ h \in Tail(q)[i].reqs)
          => \E i \in DOMAIN q : q[i].op = "send" /\ h \in q[i].reqs
    BY <1>2
  <2>2. ASSUME NEW i \in DOMAIN q, q[i].op = "send", h \in q[i].reqs
        PROVE  \E j \in DOMAIN Tail(q) : Tail(q)[j].op = "send" /\ h \in Tail(q)[j].reqs
    <3>1. i # 1
      BY <1>2, <2>2
    <3> QED
      BY <1>3, <2>2, <3>1
  <2> QED
    BY <2>1, <2>2, TakenMember, TakenMemberNext
<1>5. VMSends'
  BY <1>2 DEF VMSends
<1> QED
  BY <1>4, <1>5

\* Sending moves a composite's requests from the list to the wire.
LEMMA TakenSend ==
  ASSUME TypeOK, ReportInv, VMSends, NEW t \in Threads, SendEvent(t)
  PROVE  Taken' = Taken /\ VMSends'
<1> DEFINE q == todo[t]
           c == Head(q)
           e == [id |-> tmp[t], src |-> c.src, policy |-> c.policy, reqs |-> c.reqs]
           n == Len(events) + 1
<1>1. q \in Seq(Call) /\ q # <<>> /\ c.op = "send"
  BY DEF SendEvent, At, TypeOK
<1>2. events' = Append(events, e) /\ Return(t)
  BY DEF SendEvent
<1>3. e.src = c.src /\ e.reqs = c.reqs
  OBVIOUS
<1>4. todo'[t] = Tail(q) /\ \A u \in Threads \ {t} : todo'[u] = todo[u]
  BY <1>1, <1>2, ReturnTail
<1>5. /\ \A i \in DOMAIN Tail(q) : i \in Nat \ {0} /\ i + 1 \in DOMAIN q /\ Tail(q)[i] = q[i + 1]
      /\ 1 \in DOMAIN q /\ c = q[1]
  <2> HIDE DEF q
  <2> QED
    BY <1>1, TailIndex
<1>6. ASSUME NEW i \in DOMAIN q, i # 1
      PROVE  i - 1 \in DOMAIN Tail(q) /\ Tail(q)[i - 1] = q[i]
  <2> HIDE DEF q
  <2>1. /\ Len(Tail(q)) = Len(q) - 1 /\ Tail(q) \in Seq(Call)
        /\ \A j \in 1 .. Len(Tail(q)) : Tail(q)[j] = q[j + 1]
    BY <1>1, HeadTailProperties
  <2>2. i \in 2 .. Len(q) /\ Len(q) \in Nat
    BY <1>1, <1>6
  <2> QED
    BY <2>1, <2>2
<1> HIDE DEF e, c
<1>7. /\ DOMAIN events' = DOMAIN events \cup {n} /\ n \notin DOMAIN events
      /\ \A i \in DOMAIN events : events'[i] = events[i]
      /\ events'[n] = e
  <2> DEFINE E == [id : Nat, src : Sources, policy : Policies, reqs : SUBSET Nat]
  <2>1. events \in Seq(E)
    BY DEF TypeOK
  <2> HIDE DEF E
  <2> QED
    BY <1>2, <2>1
<1> HIDE DEF n
<1>8. CASE t = "jdwp"
  <2>1. c.src # "ALL"
    BY <1>1, <1>5, <1>8 DEF ReportInv, OnlyVMDispatches, FromDispatchAll
  <2>2. todo'["vm"] = todo["vm"]
    BY <1>4, <1>8 DEF Threads
  <2>3. ASSUME NEW h PROVE h \in Taken' <=> h \in Taken
    <3>1. (\E i \in DOMAIN events' : events'[i].src = "ALL" /\ h \in events'[i].reqs)
            <=> \E i \in DOMAIN events : events[i].src = "ALL" /\ h \in events[i].reqs
      BY <1>3, <1>7, <2>1
    <3> QED
      BY <2>2, <3>1, TakenMember, TakenMemberNext
  <2> QED
    BY <2>2, <2>3 DEF VMSends
<1>9. CASE t = "vm"
  <2>1. c.src = "ALL" \/ c.reqs = {}
    BY <1>1, <1>5, <1>9 DEF VMSends
  <2>2. ASSUME NEW h PROVE h \in Taken' <=> h \in Taken
    <3>1. (\E i \in DOMAIN events' : events'[i].src = "ALL" /\ h \in events'[i].reqs)
            <=> \/ \E i \in DOMAIN events : events[i].src = "ALL" /\ h \in events[i].reqs
                \/ h \in c.reqs
      BY <1>3, <1>7, <2>1
    <3>2. (\E i \in DOMAIN Tail(q) : Tail(q)[i].op = "send" /\ h \in Tail(q)[i].reqs)
            => \E i \in DOMAIN q : q[i].op = "send" /\ h \in q[i].reqs
      BY <1>5
    <3>3. h \in c.reqs => \E i \in DOMAIN q : q[i].op = "send" /\ h \in q[i].reqs
      BY <1>1, <1>5
    <3>4. ASSUME NEW i \in DOMAIN q, q[i].op = "send", h \in q[i].reqs
          PROVE  \/ h \in c.reqs
                 \/ \E j \in DOMAIN Tail(q) : Tail(q)[j].op = "send" /\ h \in Tail(q)[j].reqs
      <4>1. CASE i = 1
        BY <1>5, <3>4, <4>1
      <4>2. CASE i # 1
        BY <1>6, <3>4, <4>2
      <4> QED
        BY <4>1, <4>2
    <3>5. h \in Taken <=>
            \/ \E i \in DOMAIN events : events[i].src = "ALL" /\ h \in events[i].reqs
            \/ \E i \in DOMAIN q : q[i].op = "send" /\ h \in q[i].reqs
      BY <1>9, TakenMember
    <3>6. h \in Taken' <=>
            \/ \E i \in DOMAIN events' : events'[i].src = "ALL" /\ h \in events'[i].reqs
            \/ \E i \in DOMAIN Tail(q) : Tail(q)[i].op = "send" /\ h \in Tail(q)[i].reqs
      BY <1>4, <1>9, TakenMemberNext
    <3> QED
      BY <3>1, <3>2, <3>3, <3>4, <3>5, <3>6
  <2>3. VMSends'
    <3>1. \A i \in DOMAIN Tail(q) : Tail(q)[i].op = "send"
            => Tail(q)[i].src = "ALL" \/ Tail(q)[i].reqs = {}
      BY <1>5, <1>9 DEF VMSends
    <3> QED
      BY <1>4, <1>9, <3>1 DEF VMSends
  <2> QED
    BY <2>2, <2>3
<1> QED
  BY <1>8, <1>9 DEF Threads

\* The VM thread's list left alone.
LEMMA TakenSame ==
  ASSUME VMSends, events' = events, todo'["vm"] = todo["vm"]
  PROVE  Taken' = Taken /\ VMSends'
BY DEF Taken, VMSends

\* New calls of an idle VM thread.
LEMMA TakenNew ==
  ASSUME TypeOK, todo["vm"] = <<>>, NEW calls, todo' = [todo EXCEPT !["vm"] = calls],
         events' = events,
         \A i \in DOMAIN calls : calls[i].op = "send" => calls[i].src = "ALL" \/ calls[i].reqs = {}
  PROVE  /\ VMSends'
         /\ \A h : h \in Taken' <=>
              \/ h \in Taken
              \/ \E i \in DOMAIN calls : calls[i].op = "send" /\ h \in calls[i].reqs
<1>1. todo'["vm"] = calls
  BY DEF TypeOK, Threads
<1>2. VMSends'
  BY <1>1 DEF VMSends
<1>3. ASSUME NEW h
      PROVE  h \in Taken' <=>
              \/ h \in Taken
              \/ \E i \in DOMAIN calls : calls[i].op = "send" /\ h \in calls[i].reqs
  <2>1. DOMAIN todo["vm"] = {}
    OBVIOUS
  <2> QED
    BY <1>1, <2>1, TakenMember, TakenMemberNext
<1> QED
  BY <1>2, <1>3

-----------------------------------------------------------------------------
(* The steps of EventReporting                                             *)

\* The step of the abstract specification that a change of its variables is.
Maps == [Abstract!Next]_(Abstract!vars)

LEMMA MapsStutter ==
  ASSUME ToSet(eList') = ToSet(eList), PendingIn(er', eList') = PendingIn(er, eList),
         Taken' = Taken
  PROVE  Maps
BY DEF Maps, Abstract!vars, ToSet

LEMMA MapsRegister ==
  ASSUME NEW r \in 1 .. MaxCommands, r \notin ToSet(eList) \cup Taken,
         ToSet(eList') = ToSet(eList) \cup {r}, Taken' = Taken,
         \/ PendingIn(er', eList') = PendingIn(er, eList)
         \/ PendingIn(er', eList') = PendingIn(er, eList) \cup {r}
  PROVE  Maps
<1>1. CASE PendingIn(er', eList') = PendingIn(er, eList)
  <2>1. Abstract!Register(r, TRUE)
    BY <1>1 DEF Abstract!Register, ToSet
  <2> QED
    BY <2>1 DEF Maps, Abstract!Next
<1>2. CASE PendingIn(er', eList') = PendingIn(er, eList) \cup {r}
  <2>1. Abstract!Register(r, FALSE)
    BY <1>2 DEF Abstract!Register, ToSet
  <2> QED
    BY <2>1 DEF Maps, Abstract!Next
<1> QED
  BY <1>1, <1>2

LEMMA MapsDrop ==
  ASSUME ToSet(eList') \subseteq ToSet(eList), Taken' = Taken,
         PendingIn(er', eList') = PendingIn(er, eList) \cap ToSet(eList')
  PROVE  Maps
<1>1. PICK lost : lost = ToSet(eList) \ ToSet(eList')
  OBVIOUS
<1>2. {eList[i] : i \in DOMAIN eList} = ToSet(eList)
      /\ {eList'[i] : i \in DOMAIN eList'} = ToSet(eList')
  BY DEF ToSet
<1>3. /\ lost \in SUBSET {eList[i] : i \in DOMAIN eList}
      /\ ToSet(eList') = ToSet(eList) \ lost
      /\ PendingIn(er', eList') = PendingIn(er, eList) \ lost
  BY <1>1, <1>2 DEF PendingIn
<1>4. Abstract!Drop(lost)
  BY <1>2, <1>3 DEF Abstract!Drop
<1> QED
  BY <1>3, <1>4 DEF Maps, Abstract!Next

LEMMA MapsDisarm ==
  ASSUME NEW r \in PendingIn(er, eList), Taken' = Taken, eList' = eList,
         PendingIn(er', eList') = PendingIn(er, eList) \ {r}
  PROVE  Maps
<1>1. Abstract!Disarm(r)
  BY DEF Abstract!Disarm
<1> QED
  BY <1>1 DEF Maps, Abstract!Next

LEMMA MapsReport ==
  ASSUME PendingIn(er, eList) # {}, PendingIn(er', eList') = {}, eList' = eList,
         Taken \subseteq Taken', Taken' \subseteq Taken \cup PendingIn(er, eList)
  PROVE  Maps
<1> DEFINE said == Taken' \ Taken
<1>1. said \in SUBSET PendingIn(er, eList) /\ Taken' = Taken \cup said
      /\ said \subseteq PendingIn(er, eList) \ Taken
  OBVIOUS
<1> HIDE DEF said
<1>2. Abstract!Report(said)
  BY <1>1 DEF Abstract!Report
<1> QED
  BY <1>1, <1>2 DEF Maps, Abstract!Next

-----------------------------------------------------------------------------
(* Steps that register, report and drop nothing                            *)

\* What a step has to keep of Reporting besides TypeInv and ReportInv, and the
\* abstract step it is.
Keeps == SetInv' /\ VMSends' /\ Maps

\* The JDWP thread's list stays, or goes on without owing a request.
GoesOn ==
  \/ todo'["jdwp"] = todo["jdwp"]
  \/ /\ ~Owes(todo["jdwp"])
     /\ Ordered(todo'["jdwp"])
     /\ ~Owes(todo'["jdwp"])
     /\ Inserts(todo'["jdwp"]) => Inserts(todo["jdwp"])

LEMMA SetKept ==
  ASSUME TypeOK, SetInv, GoesOn, Len(er') = Len(er), commands' = commands,
         ToSet(eList') \cup Taken' \subseteq ToSet(eList) \cup Taken
  PROVE  SetInv'
<1>1. CASE todo'["jdwp"] = todo["jdwp"]
  <2>1. Ordered(todo'["jdwp"])
    BY <1>1 DEF SetInv
  <2>2. Owes(todo'["jdwp"]) <=> Owes(todo["jdwp"])
    BY <1>1
  <2>3. Inserts(todo'["jdwp"]) <=> Inserts(todo["jdwp"])
    BY <1>1
  <2> QED
    BY <2>1, <2>2, <2>3 DEF SetInv, Ordered, Owes, Inserts
<1>2. CASE /\ ~Owes(todo["jdwp"])
           /\ Ordered(todo'["jdwp"])
           /\ ~Owes(todo'["jdwp"])
           /\ Inserts(todo'["jdwp"]) => Inserts(todo["jdwp"])
  BY <1>2 DEF SetInv, Ordered, Owes, Inserts
<1> QED
  BY <1>1, <1>2 DEF GoesOn

\* The call at the head of the JDWP thread's list becomes settled calls.
LEMMA BecomeGoesOn ==
  ASSUME TypeOK, SetInv, todo["jdwp"] # <<>>, Head(todo["jdwp"]).op # "newEvent",
         NEW calls \in Seq(Call), Settled(calls), Become("jdwp", calls)
  PROVE  /\ GoesOn
         /\ Head(todo["jdwp"]).op = "insert" => ~Inserts(todo'["jdwp"]) /\ ~Owes(todo'["jdwp"])
         /\ todo'["vm"] = todo["vm"]
<1> DEFINE q == todo["jdwp"]
<1>1. q \in Seq(Call) /\ q # <<>> /\ Ordered(q)
  BY DEF TypeOK, Threads, SetInv
<1>2. todo'["jdwp"] = calls \o Tail(q) /\ todo'["vm"] = todo["vm"]
  BY DEF TypeOK, Become, Threads
<1>3. Head(q).op # "newEvent"
  OBVIOUS
<1> HIDE DEF q
<1>4. ~Owes(q)
  BY <1>1, <1>3 DEF Owes
<1>5. /\ Ordered(calls \o Tail(q)) /\ ~Owes(calls \o Tail(q))
      /\ Inserts(calls \o Tail(q)) => Inserts(q) /\ Head(q).op # "insert"
  BY <1>1, RestOrdered
<1> QED
  BY <1>2, <1>4, <1>5 DEF GoesOn, q

LEMMA ReturnGoesOn ==
  ASSUME TypeOK, SetInv, NEW t \in Threads, todo[t] # <<>>, Return(t),
         t = "jdwp" => Head(todo[t]).op # "newEvent"
  PROVE  /\ GoesOn
         /\ t = "jdwp" /\ Head(todo[t]).op = "insert"
              => ~Inserts(todo'["jdwp"]) /\ ~Owes(todo'["jdwp"])
<1>1. CASE t = "vm"
  BY <1>1, ReturnTail DEF GoesOn, Threads
<1>2. CASE t = "jdwp"
  <2> DEFINE none == <<>>
  <2>1. none \in Seq(Call) /\ Settled(none) /\ Become("jdwp", none)
    BY <1>2, Tuples DEF Settled, Return
  <2> HIDE DEF none
  <2> QED
    BY <1>2, <2>1, BecomeGoesOn
<1> QED
  BY <1>1, <1>2 DEF Threads

\* The requests, the list and the packets stay.
SameList == er' = er /\ eList' = eList /\ commands' = commands

LEMMA QuietStep ==
  ASSUME TypeOK, SetInv, GoesOn, SameList, Taken' = Taken, VMSends'
  PROVE  Keeps
<1>1. Maps
  BY MapsStutter DEF SameList
<1> QED
  BY <1>1, SetKept DEF SameList, Keeps

\* ... and the lists of calls with them.
LEMMA QuietLists ==
  ASSUME Reporting, todo' = todo, SameList, events' = events
  PROVE  Keeps
<1>1. Taken' = Taken /\ VMSends'
  BY TakenSame DEF Reporting
<1> QED
  BY <1>1, QuietStep DEF Reporting, TypeInv, GoesOn

\* A call returns.
LEMMA QuietReturn ==
  ASSUME Reporting, NEW t \in Threads, todo[t] # <<>>, Return(t), SameList, events' = events,
         Head(todo[t]).op # "send", t = "jdwp" => Head(todo[t]).op # "newEvent"
  PROVE  Keeps
<1>1. TypeOK /\ SetInv /\ VMSends
  BY DEF Reporting, TypeInv
<1>2. todo'[t] = Tail(todo[t]) /\ \A u \in Threads \ {t} : todo'[u] = todo[u]
  BY <1>1, ReturnTail
<1>3. Taken' = Taken /\ VMSends'
  <2>1. CASE t = "vm"
    BY <1>1, <1>2, <2>1, TakenReturn
  <2>2. CASE t = "jdwp"
    BY <1>1, <1>2, <2>2, TakenSame DEF Threads
  <2> QED
    BY <2>1, <2>2 DEF Threads
<1> QED
  BY <1>1, <1>3, ReturnGoesOn, QuietStep

\* A call of the JDWP thread turns into settled calls.
LEMMA QuietRead ==
  ASSUME Reporting, NEW op, op # "newEvent", NEW calls \in Seq(Call), Settled(calls),
         ReadCounter(op, calls)
  PROVE  Keeps
<1>1. /\ todo["jdwp"] # <<>> /\ Become("jdwp", calls) /\ Head(todo["jdwp"]).op # "newEvent"
      /\ events' = events /\ SameList
  BY DEF ReadCounter, At, wire, list, counts, SameList
<1>2. TypeOK /\ SetInv /\ VMSends
  BY DEF Reporting, TypeInv
<1>3. GoesOn /\ todo'["vm"] = todo["vm"]
  BY <1>1, <1>2, BecomeGoesOn
<1>4. Taken' = Taken /\ VMSends'
  BY <1>1, <1>2, <1>3, TakenSame
<1> QED
  BY <1>1, <1>2, <1>3, <1>4, QuietStep

-----------------------------------------------------------------------------
(* Steps that make, add, disarm or remove requests                         *)

\* What a composite took exists and is marked.
LEMMA TakenMarked ==
  ASSUME ReportInv, VMSends, NEW h \in Taken
  PROVE  h \in DOMAIN er /\ er[h].isremoved
<1>1. CASE \E i \in DOMAIN events : events[i].src = "ALL" /\ h \in events[i].reqs
  BY <1>1 DEF ReportInv, SentTruth, SaysTruth
<1>2. CASE \E i \in DOMAIN todo["vm"] : todo["vm"][i].op = "send" /\ h \in todo["vm"][i].reqs
  BY <1>2 DEF ReportInv, QueuedTruth, SaysTruth, VMSends, Threads
<1> QED
  BY <1>1, <1>2, TakenMember

\* The list has requests that exist.
LEMMA ListedExist ==
  ASSUME TypeOK
  PROVE  ToSet(eList) \subseteq DOMAIN er /\ er \in Seq(EventRequest) /\ Len(er) \in Nat
<1>1. er \in Seq(EventRequest) /\ eList \in Seq(DOMAIN er)
  BY DEF TypeOK
<1> QED
  BY <1>1 DEF ToSet

\* Requests rewritten in place.
LEMMA SameRequestCount ==
  ASSUME TypeOK, TypeInv', DOMAIN er' = DOMAIN er
  PROVE  Len(er') = Len(er)
<1>1. er \in Seq(EventRequest) /\ er' \in Seq(EventRequest)
  BY DEF TypeOK, TypeInv
<1>2. Len(er) \in Nat /\ Len(er') \in Nat /\ DOMAIN er = 1 .. Len(er) /\ DOMAIN er' = 1 .. Len(er')
  BY <1>1
<1> QED
  BY <1>2

\* newEventRequest by the JDWP thread.
LEMMA MakeStep ==
  ASSUME Reporting, NewEventStore("jdwp")
  PROVE  Keeps
<1> DEFINE q == todo["jdwp"]
           e == [Head(q).req EXCEPT !.id = tmp["jdwp"]]
<1>1. TypeOK /\ ReportInv /\ SetInv /\ VMSends
  BY DEF Reporting, TypeInv
<1>2. /\ q \in Seq(Call) /\ q # <<>> /\ Head(q).op = "newEvent" /\ Ordered(q)
      /\ "jdwp" \in Threads
  BY <1>1 DEF NewEventStore, At, TypeOK, Threads, SetInv
<1>3. er' = Append(er, e) /\ Return("jdwp") /\ events' = events /\ eList' = eList
      /\ commands' = commands
  BY DEF NewEventStore, wire, counts
<1>4. todo'["jdwp"] = Tail(q) /\ todo'["vm"] = todo["vm"]
  BY <1>1, <1>2, <1>3, ReturnTail DEF Threads
<1> HIDE DEF q, e
<1>5. Ordered(Tail(q)) /\ ~Owes(Tail(q))
  <2> DEFINE none == <<>>
  <2>1. none \in Seq(Call) /\ Settled(none)
    BY Tuples DEF Settled
  <2>2. none \o Tail(q) = Tail(q)
    BY <1>2, HeadTailProperties, ConcatEmptySeq
  <2> HIDE DEF none
  <2> QED
    BY <1>2, <2>1, <2>2, RestOrdered
<1>6. Owes(q)
  BY <1>2 DEF Owes
<1>7. ToSet(eList) \subseteq DOMAIN er /\ er \in Seq(EventRequest) /\ Len(er) \in Nat
  BY <1>1, ListedExist
<1>8. Len(er') = Len(er) + 1 /\ Len(er') \notin DOMAIN er
      /\ \A h \in DOMAIN er : er'[h] = er[h]
  BY <1>3, <1>7
<1>9. Taken' = Taken /\ VMSends'
  BY <1>1, <1>3, <1>4, TakenSame
<1>10. Len(er') \notin ToSet(eList') \cup Taken'
  BY <1>1, <1>3, <1>7, <1>8, <1>9, TakenMarked
<1>11. SetInv'
  <2>1. Len(er) < commands /\ commands <= MaxCommands
    BY <1>1, <1>6 DEF SetInv, q
  <2>2. commands \in Nat
    BY <1>1 DEF TypeOK
  <2>3. Len(er') <= commands
    BY <1>7, <1>8, <2>1, <2>2
  <2>4. Ordered(todo'["jdwp"]) /\ ~Owes(todo'["jdwp"])
    BY <1>4, <1>5
  <2> QED
    BY <1>3, <1>10, <2>1, <2>3, <2>4 DEF SetInv, Ordered, Owes, Inserts
<1>12. PendingIn(er', eList') = PendingIn(er, eList)
  BY <1>3, <1>7, <1>8 DEF PendingIn, Pending
<1>13. Maps
  BY <1>3, <1>9, <1>12, MapsStutter
<1> QED
  BY <1>9, <1>11, <1>13 DEF Keeps

\* add_EventRequest registers the request that was made.
LEMMA InsertStep ==
  ASSUME Reporting, InsertRequest
  PROVE  Keeps
<1> DEFINE q == todo["jdwp"]
           r == Len(er)
<1>1. TypeOK /\ TypeInv /\ ReportInv /\ SetInv /\ VMSends
  BY DEF Reporting, TypeInv
<1>2. /\ q \in Seq(Call) /\ q # <<>> /\ Head(q).op = "insert" /\ "jdwp" \in Threads
  BY <1>1 DEF InsertRequest, At, TypeOK, Threads
<1>3. er' = er /\ eList' = <<Len(er)>> \o eList /\ Return("jdwp") /\ events' = events
      /\ commands' = commands
  BY DEF InsertRequest, wire, counts
<1>4. GoesOn /\ ~Inserts(todo'["jdwp"]) /\ ~Owes(todo'["jdwp"])
  BY <1>1, <1>2, <1>3, ReturnGoesOn
<1>5. todo'["vm"] = todo["vm"]
  BY <1>1, <1>2, <1>3, ReturnTail DEF Threads
<1>6. Taken' = Taken /\ VMSends'
  BY <1>1, <1>3, <1>5, TakenSame
<1>7. r \in DOMAIN er
  BY <1>1, <1>2, HasRequest DEF NeedsRequest
<1>8. er \in Seq(EventRequest) /\ Len(er) \in Nat /\ commands \in Nat /\ MaxCommands \in Nat
  BY <1>1, SessionAssumption DEF TypeOK
<1>9. Len(er) <= commands /\ commands <= MaxCommands /\ Ordered(q)
  BY <1>1 DEF SetInv
<1>10. r \in 1 .. MaxCommands
  BY <1>7, <1>8, <1>9
<1>11. ~Owes(q) /\ Inserts(q)
  <2> HIDE DEF q
  <2>1. 1 \in DOMAIN q /\ Head(q) = q[1]
    BY <1>2
  <2> QED
    BY <1>2, <2>1 DEF Owes, Inserts
<1>12. r \notin ToSet(eList) \cup Taken
  BY <1>1, <1>11 DEF SetInv
<1>13. ToSet(eList') = ToSet(eList) \cup {r}
  <2>1. eList \in Seq(DOMAIN er)
    BY <1>1 DEF TypeOK
  <2> DEFINE one == <<r>>
             L == one \o eList
  <2>2. one \in Seq(DOMAIN er) /\ Len(one) = 1 /\ one[1] = r
    BY <1>7
  <2> HIDE DEF one, r
  <2> DEFINE S == DOMAIN er
  <2> HIDE DEF S
  <2>0. eList \in Seq(S) /\ one \in Seq(S) /\ Len(one) = 1
    BY <2>1, <2>2 DEF S
  <2>a. Len(eList) \in Nat
    BY <2>0, LenProperties
  <2>b. /\ Len(L) = Len(one) + Len(eList) /\ L \in Seq(S)
         /\ \A i \in 1 .. Len(one) + Len(eList) :
              L[i] = IF i <= Len(one) THEN one[i] ELSE eList[i - Len(one)]
    BY <2>0, ConcatProperties
  <2>3. /\ Len(L) = 1 + Len(eList) /\ Len(eList) \in Nat /\ L \in Seq(S)
        /\ \A i \in 1 .. 1 + Len(eList) : L[i] = IF i <= 1 THEN one[i] ELSE eList[i - 1]
    BY <2>0, <2>a, <2>b
  <2> HIDE DEF L
  <2>4. L[1] = r /\ 1 \in DOMAIN L
    BY <2>2, <2>3
  <2>5. \A i \in DOMAIN L : i # 1 => i - 1 \in DOMAIN eList /\ L[i] = eList[i - 1]
    BY <2>1, <2>3
  <2>6. \A i \in DOMAIN eList : i + 1 \in DOMAIN L /\ L[i + 1] = eList[i]
    <3> SUFFICES ASSUME NEW i \in DOMAIN eList PROVE i + 1 \in DOMAIN L /\ L[i + 1] = eList[i]
      OBVIOUS
    <3>1. i \in 1 .. Len(eList)
      BY <2>1
    <3>2. i + 1 \in 1 .. 1 + Len(eList) /\ ~(i + 1 <= 1) /\ (i + 1) - 1 = i
      BY <2>3, <3>1
    <3>3. i + 1 \in DOMAIN L
      BY <2>3, <3>2
    <3> QED
      BY <2>3, <3>2, <3>3
  <2>7. ToSet(L) = ToSet(eList) \cup {r}
    BY <2>4, <2>5, <2>6 DEF ToSet
  <2> QED
    BY <1>3, <2>7 DEF L, one, r
<1>14. \/ PendingIn(er', eList') = PendingIn(er, eList)
       \/ PendingIn(er', eList') = PendingIn(er, eList) \cup {r}
  BY <1>3, <1>13 DEF PendingIn
<1> HIDE DEF r
<1>15. Maps
  BY <1>6, <1>10, <1>12, <1>13, <1>14, MapsRegister
<1>16. SetInv'
  <2>1. Ordered(todo'["jdwp"])
    BY <1>4, <1>9 DEF GoesOn
  <2> QED
    BY <1>1, <1>3, <1>4, <2>1 DEF SetInv, Ordered, Owes, Inserts
<1> QED
  BY <1>6, <1>15, <1>16 DEF Keeps

\* dispatchEvent's e->triggered = FALSE disarms a request, if it was armed.
LEMMA MarkStep ==
  ASSUME Reporting, TypeInv', MarkDispatched
  PROVE  Keeps
<1> DEFINE n == Head(todo["jdwp"]).n
<1>1. TypeOK /\ SetInv /\ VMSends
  BY DEF Reporting, TypeInv
<1>2. /\ todo["jdwp"] # <<>> /\ Head(todo["jdwp"]).op = "mark" /\ "jdwp" \in Threads
      /\ Return("jdwp") /\ eList' = eList /\ events' = events /\ commands' = commands
      /\ er' = [er EXCEPT ![n].triggered = FALSE]
  BY DEF MarkDispatched, At, Threads, wire, counts
<1> HIDE DEF n
<1>3. GoesOn
  BY <1>1, <1>2, ReturnGoesOn
<1>4. Taken' = Taken /\ VMSends'
  BY <1>1, <1>2, ReturnTail, TakenSame DEF Threads
<1>5. ToSet(eList) \subseteq DOMAIN er /\ er \in Seq(EventRequest) /\ Len(er) \in Nat
  BY <1>1, ListedExist
<1>6. /\ DOMAIN er' = DOMAIN er
      /\ \A h \in DOMAIN er : h # n => er'[h] = er[h]
      /\ n \in DOMAIN er => er'[n] = [er[n] EXCEPT !.triggered = FALSE]
  BY <1>2
<1>7. n \in DOMAIN er => ~Pending(er'[n])
  <2>1. n \in DOMAIN er => er[n] \in EventRequest
    BY <1>5
  <2> QED
    BY <1>6, <2>1 DEF EventRequest, Pending
<1>8. PendingIn(er', eList') = PendingIn(er, eList) \ {n}
  BY <1>2, <1>5, <1>6, <1>7 DEF PendingIn
<1>9. Maps
  <2>1. CASE n \in PendingIn(er, eList)
    BY <1>2, <1>4, <1>8, <2>1, MapsDisarm
  <2>2. CASE n \notin PendingIn(er, eList)
    BY <1>2, <1>4, <1>8, <2>2, MapsStutter
  <2> QED
    BY <2>1, <2>2
<1>10. SetInv'
  BY <1>1, <1>2, <1>3, <1>4, <1>6, SameRequestCount, SetKept
<1> QED
  BY <1>4, <1>9, <1>10 DEF Keeps

\* internal_remove takes requests from the list and adds none.
LEMMA RemoveShrinks ==
  ASSUME TypeOK, NEW kind, NEW id
  PROVE  ToSet(internal_remove(er, eList, kind, id)) \subseteq ToSet(eList)
<1> DEFINE M == internal_remove(er, eList, kind, id)
           S == ToSet(eList)
<1>1. eList \in Seq(DOMAIN er)
  BY DEF TypeOK
<1>2. eList \in Seq(S)
  BY <1>1 DEF ToSet
<1> HIDE DEF S
<1>3. M \in Seq(S)
  BY <1>2, RemoveType
<1> HIDE DEF M
<1>4. ToSet(M) \subseteq S
  BY <1>3 DEF ToSet
<1> QED
  BY <1>4 DEF M, S

\* A shorter list drops what it lost.
LEMMA ShorterStep ==
  ASSUME TypeOK, SetInv, GoesOn, er' = er, commands' = commands, Taken' = Taken, VMSends',
         ToSet(eList') \subseteq ToSet(eList)
  PROVE  Keeps
<1>1. PendingIn(er', eList') = PendingIn(er, eList) \cap ToSet(eList')
  BY DEF PendingIn
<1>2. Maps
  BY <1>1, MapsDrop
<1>3. SetInv'
  BY SetKept
<1> QED
  BY <1>2, <1>3 DEF Keeps

LEMMA RemoveStep ==
  ASSUME Reporting, RemoveRequest
  PROVE  Keeps
<1>1. TypeOK /\ SetInv /\ VMSends
  BY DEF Reporting, TypeInv
<1>2. /\ todo["jdwp"] # <<>> /\ Head(todo["jdwp"]).op = "remove" /\ "jdwp" \in Threads
      /\ Return("jdwp") /\ er' = er /\ events' = events /\ commands' = commands
      /\ \E kind, id : eList' \in {eList, internal_remove(er, eList, kind, id)}
  BY DEF RemoveRequest, At, Threads, wire, counts
<1>3. GoesOn
  BY <1>1, <1>2, ReturnGoesOn
<1>4. Taken' = Taken /\ VMSends'
  BY <1>1, <1>2, ReturnTail, TakenSame DEF Threads
<1>5. ToSet(eList') \subseteq ToSet(eList)
  BY <1>1, <1>2, RemoveShrinks
<1> QED
  BY <1>1, <1>2, <1>3, <1>4, <1>5, ShorterStep

LEMMA RemoveAllStep ==
  ASSUME Reporting, RemoveAllRound
  PROVE  Keeps
<1>1. TypeOK /\ SetInv /\ VMSends
  BY DEF Reporting, TypeInv
<1>2. /\ todo' = todo /\ er' = er /\ events' = events /\ commands' = commands
      /\ \E kind, id : eList' \in {eList, internal_remove(er, eList, kind, id)}
  BY DEF RemoveAllRound, threads, wire, counts
<1>3. GoesOn
  BY <1>2 DEF GoesOn
<1>4. Taken' = Taken /\ VMSends'
  BY <1>1, <1>2, TakenSame
<1>5. ToSet(eList') \subseteq ToSet(eList)
  BY <1>1, <1>2, RemoveShrinks
<1> QED
  BY <1>1, <1>2, <1>3, <1>4, <1>5, ShorterStep

\* dispatchAll reports what was armed and leaves nothing armed.
LEMMA DispatchAllStep ==
  ASSUME Reporting, TypeInv', dispatchAll
  PROVE  Keeps
<1> DEFINE calls == internalDispatchSet("NONE") \o internalDispatchSet("EVENT_THREAD")
                      \o internalDispatchSet("ALL") \o <<Resume>>
           armed == PendingIn(er, eList)
           Q == {"NONE"} \cup {"EVENT_THREAD"} \cup {"ALL"} \cup {}
<1>1. TypeOK /\ SetInv /\ VMSends
  BY DEF Reporting, TypeInv
<1>2. /\ todo["vm"] = <<>> /\ todo' = [todo EXCEPT !["vm"] = calls] /\ events' = events
      /\ eList' = eList /\ commands' = commands /\ er' = Reported(er, armed)
  BY DEF dispatchAll, Idle, wire, counts
<1>3. Dispatches(calls, Q)
  BY <1>1, DispatchAllApart
<1> HIDE DEF calls, Q
<1>4. todo'["jdwp"] = todo["jdwp"]
  BY <1>1, <1>2 DEF TypeOK, Threads
<1>5. \A i \in DOMAIN calls : calls[i].op = "send" =>
        calls[i].src = "ALL" /\ calls[i].reqs \subseteq armed
  BY <1>3 DEF Dispatches, Composite, get_by_suspendPolicy
<1>6. /\ VMSends'
      /\ \A h : h \in Taken' <=>
              \/ h \in Taken
              \/ \E i \in DOMAIN calls : calls[i].op = "send" /\ h \in calls[i].reqs
  BY <1>1, <1>2, <1>5, TakenNew
<1>7. Taken \subseteq Taken' /\ Taken' \subseteq Taken \cup armed
  BY <1>5, <1>6
<1>8. ToSet(eList) \subseteq DOMAIN er /\ er \in Seq(EventRequest) /\ Len(er) \in Nat
  BY <1>1, ListedExist
<1>9. /\ DOMAIN er' = DOMAIN er
      /\ \A h \in DOMAIN er : er'[h] = IF h \in armed
                                       THEN [er[h] EXCEPT !.triggered = FALSE, !.isremoved = TRUE]
                                       ELSE er[h]
  BY <1>2 DEF Reported
<1>10. \A h \in DOMAIN er : h \in armed => ~Pending(er'[h])
  <2>1. \A h \in DOMAIN er : er[h] \in EventRequest
    BY <1>8
  <2> QED
    BY <1>9, <2>1 DEF Pending, EventRequest
<1>11. Len(er') = Len(er)
  BY <1>1, <1>9, SameRequestCount
<1>12. PendingIn(er', eList') = {}
  BY <1>2, <1>8, <1>9, <1>10 DEF PendingIn
<1>13. Maps
  <2> HIDE DEF armed
  <2>1. CASE armed = {}
    BY <1>2, <1>7, <1>12, <2>1, MapsStutter DEF armed
  <2>2. CASE armed # {}
    BY <1>2, <1>7, <1>12, <2>2, MapsReport DEF armed
  <2> QED
    BY <2>1, <2>2
<1>14. armed \subseteq ToSet(eList)
  BY DEF PendingIn
<1>15. SetInv'
  <2>1. GoesOn
    BY <1>4 DEF GoesOn
  <2>2. ToSet(eList') \cup Taken' \subseteq ToSet(eList) \cup Taken
    BY <1>2, <1>7, <1>14
  <2> QED
    BY <1>1, <1>2, <1>11, <2>1, <2>2, SetKept
<1> QED
  BY <1>6, <1>13, <1>15 DEF Keeps

-----------------------------------------------------------------------------
(* Every step                                                              *)

\* The calls of dispatchEvent make no request.
LEMMA DispatchSettled ==
  ASSUME TypeOK, NEW h \in DOMAIN er
  PROVE  dispatchEvent(h) \in Seq(Call) /\ Settled(dispatchEvent(h))
<1> DEFINE Safe == {d \in Call : d.op \notin {"newEvent", "insert"}}
           first == IF er[h].policy # "NONE" THEN <<Suspend>> ELSE <<>>
           second == <<Do("mark", h), Send("THREAD_START", er[h].policy, {h})>>
<1>1. h \in Nat /\ er[h].policy \in Policies
  <2>1. h \in Nat /\ er[h] \in EventRequest
    BY DEF TypeOK
  <2> QED
    BY <2>1 DEF EventRequest
<1>2. /\ Suspend \in Call /\ Do("mark", h) \in Call
      /\ Send("THREAD_START", er[h].policy, {h}) \in Call
  BY <1>1, CallTypes DEF Sources
<1>3. /\ Suspend \in Safe /\ Do("mark", h) \in Safe
      /\ Send("THREAD_START", er[h].policy, {h}) \in Safe
  BY <1>2 DEF Suspend, Do, Send
<1> HIDE DEF Safe
<1>4. first \in Seq(Safe) /\ second \in Seq(Safe)
  BY <1>3, Tuples
<1> HIDE DEF first, second
<1>5. first \o second \in Seq(Safe)
  BY <1>4, ConcatProperties
<1>6. dispatchEvent(h) = first \o second
  BY DEF dispatchEvent, first, second
<1>7. \A i \in DOMAIN dispatchEvent(h) : dispatchEvent(h)[i] \in Safe
  BY <1>5, <1>6, LenProperties, ElementOfSeq
<1>8. dispatchEvent(h) \in Seq(Call)
  BY DispatchCalls
<1> QED
  BY <1>7, <1>8 DEF Safe, Settled

\* Calls both threads make.
LEMMA CallKeeps ==
  ASSUME Reporting, NEW t \in Threads, CallStep(t)
  PROVE  Keeps
<1>1. CASE SuspendLoad(t)
  BY <1>1, QuietLists DEF SuspendLoad, list, wire, counts, SameList
<1>2. CASE ResumeLoad(t)
  BY <1>2, QuietLists DEF ResumeLoad, list, wire, counts, SameList
<1>3. CASE NewEventLoad(t)
  BY <1>3, QuietLists DEF NewEventLoad, list, wire, counts, SameList
<1>4. CASE GenIdLoad(t)
  BY <1>4, QuietLists DEF GenIdLoad, list, wire, counts, SameList
<1>5. CASE GenIdStore(t)
  BY <1>5, QuietLists DEF GenIdStore, list, wire, counts, SameList
<1>6. CASE SuspendStore(t)
  BY <1>6, QuietReturn DEF SuspendStore, At, list, wire, counts, SameList
<1>7. CASE ResumeStore(t)
  BY <1>7, QuietReturn DEF ResumeStore, At, list, wire, counts, SameList
<1>8. CASE NewEventStore(t)
  <2>1. CASE t = "jdwp"
    BY <1>8, <2>1, MakeStep
  <2>2. CASE t # "jdwp"
    BY <1>8, <2>2, QuietReturn DEF NewEventStore, At, wire, counts, SameList
  <2> QED
    BY <2>1, <2>2
<1>9. CASE SendEvent(t)
  <2>1. TypeOK /\ ReportInv /\ SetInv /\ VMSends
    BY DEF Reporting, TypeInv
  <2>2. /\ todo[t] # <<>> /\ Head(todo[t]).op = "send" /\ Return(t) /\ SameList
    BY <1>9 DEF SendEvent, At, list, counts, SameList
  <2>3. GoesOn
    BY <2>1, <2>2, ReturnGoesOn
  <2>4. Taken' = Taken /\ VMSends'
    BY <1>9, <2>1, TakenSend
  <2> QED
    BY <2>1, <2>2, <2>3, <2>4, QuietStep
<1> QED
  BY <1>1, <1>2, <1>3, <1>4, <1>5, <1>6, <1>7, <1>8, <1>9 DEF CallStep

\* New calls of the idle JDWP thread that make no request.
LEMMA NewCallsKeep ==
  ASSUME Reporting, todo["jdwp"] = <<>>, NEW calls \in Seq(Call), Settled(calls),
         todo' = [todo EXCEPT !["jdwp"] = calls], SameList, events' = events
  PROVE  Keeps
<1>1. TypeOK /\ SetInv /\ VMSends
  BY DEF Reporting, TypeInv
<1>2. todo'["jdwp"] = calls /\ todo'["vm"] = todo["vm"]
  BY <1>1 DEF TypeOK, Threads
<1>3. Ordered(calls) /\ ~Owes(calls) /\ ~Inserts(calls)
  BY SettledOrdered
<1>4. GoesOn
  BY <1>2, <1>3 DEF GoesOn, Owes
<1>5. Taken' = Taken /\ VMSends'
  BY <1>1, <1>2, TakenSame
<1> QED
  BY <1>1, <1>4, <1>5, QuietStep

\* The JDWP thread's own steps.
LEMMA JDWPKeeps ==
  ASSUME Reporting, TypeInv', JDWPStep, ~CallStep("jdwp")
  PROVE  Keeps
<1>1. /\ TypeOK /\ "jdwp" \in Threads
      /\ todo["jdwp"] # <<>> => Head(todo["jdwp"]) \in Call
  <2>1. TypeOK /\ "jdwp" \in Threads
    BY DEF Reporting, TypeInv, Threads
  <2> QED
    BY <2>1, HeadCall
<1>2. CASE ExitProcess("jdwp")
  BY <1>1, <1>2, QuietReturn DEF ExitProcess, At, list, wire, counts, SameList
<1>3. CASE SendReply
  BY <1>1, <1>3, QuietReturn DEF SendReply, At, list, counts, SameList
<1>4. CASE SendRequestId
  BY <1>1, <1>4, QuietReturn DEF SendRequestId, At, list, counts, SameList
<1>5. CASE HoldEvents
  BY <1>1, <1>5, QuietReturn DEF HoldEvents, At, list, wire, counts, SameList
<1>6. CASE NoteThreadStart
  BY <1>1, <1>6, QuietReturn DEF NoteThreadStart, At, wire, counts, SameList
<1>7. CASE RemoveAllDone
  BY <1>1, <1>7, QuietReturn DEF RemoveAllDone, At, list, wire, counts, SameList
<1>8. CASE release_jdwpInitHalt
  BY <1>8, QuietLists DEF release_jdwpInitHalt, list, wire, counts, SameList
<1>9. CASE ReadStatus
  <2>1. Head(todo["jdwp"]).n \in Nat
    BY <1>1, <1>9, CallFields DEF ReadStatus, ReadCounter, At
  <2> DEFINE d == Answer(Head(todo["jdwp"]).n, "TR_Status", IF isVM_Suspended THEN 1 ELSE 0)
  <2>2. d \in Plain
    BY <2>1, PlainCalls DEF Whats
  <2>3. ReadCounter("status", <<d>>)
    BY <1>9 DEF ReadStatus
  <2> HIDE DEF d
  <2>4. <<d>> \in Seq(Plain)
    BY <2>2, Tuples
  <2> QED
    BY <2>3, <2>4, PlainSettled, QuietRead
<1>10. CASE ReadIsSuspended
  <2>1. Head(todo["jdwp"]).n \in Nat
    BY <1>1, <1>10, CallFields DEF ReadIsSuspended, ReadCounter, At
  <2> DEFINE d == IF isVM_Suspended THEN Do("readCount", Head(todo["jdwp"]).n)
                  ELSE Reply(Head(todo["jdwp"]).n, "TR_SuspendCount")
  <2>2. d \in Plain
    BY <2>1, PlainCalls DEF Whats
  <2>3. ReadCounter("count", <<d>>)
    BY <1>10 DEF ReadIsSuspended
  <2> HIDE DEF d
  <2>4. <<d>> \in Seq(Plain)
    BY <2>2, Tuples
  <2> QED
    BY <2>3, <2>4, PlainSettled, QuietRead
<1>11. CASE ReadSuspendCount
  <2>1. Head(todo["jdwp"]).n \in Nat /\ suspendCounter \in Nat
    BY <1>1, <1>11, CallFields, SessionAssumption DEF ReadSuspendCount, ReadCounter, At, TypeOK
  <2> DEFINE d == Answer(Head(todo["jdwp"]).n, "TR_SuspendCount", suspendCounter)
  <2>2. d \in Plain
    BY <2>1, PlainCalls DEF Whats
  <2>3. ReadCounter("readCount", <<d>>)
    BY <1>11 DEF ReadSuspendCount
  <2> HIDE DEF d
  <2>4. <<d>> \in Seq(Plain)
    BY <2>2, Tuples
  <2> QED
    BY <2>3, <2>4, PlainSettled, QuietRead
<1>12. CASE StartIfLast
  <2> DEFINE calls == IF suspendCounter <= 1 /\ erTHREAD_START # 0
                      THEN dispatchEvent(erTHREAD_START) ELSE <<>>
  <2>1. erTHREAD_START # 0 => erTHREAD_START \in DOMAIN er
    BY <1>1 DEF TypeOK
  <2>2. ReadCounter("startIfLast", calls)
    BY <1>12 DEF StartIfLast
  <2>3. <<>> \in Seq(Call) /\ Settled(<<>>)
    BY Tuples DEF Settled
  <2>4. calls \in Seq(Call) /\ Settled(calls)
    BY <1>1, <2>1, <2>3, DispatchSettled
  <2> HIDE DEF calls
  <2> QED
    BY <2>2, <2>4, QuietRead
<1>13. CASE ForceEarlyReturn
  <2> DEFINE c == Head(todo["jdwp"])
             calls == IF ~isVM_Suspended \/ ~c.app THEN <<Error(c.n)>>
                      ELSE IF c.badTag THEN <<Error(c.n), Resume>> ELSE <<Resume>>
  <2>1. ReadCounter("forceEarly", calls)
    BY <1>13 DEF ForceEarlyReturn
  <2>2. c.n \in Nat
    BY <1>1, <2>1, CallFields DEF ReadCounter, At
  <2>3. calls \in Seq(Plain)
    <3>1. Error(c.n) \in Plain /\ Resume \in Plain
      BY <2>2, PlainCalls
    <3>2. <<Error(c.n)>> \in Seq(Plain) /\ <<Error(c.n), Resume>> \in Seq(Plain)
          /\ <<Resume>> \in Seq(Plain)
      BY <3>1, Tuples
    <3> QED
      BY <3>2
  <2> HIDE DEF calls
  <2> QED
    BY <2>1, <2>3, PlainSettled, QuietRead
<1>14. CASE onHandShake
  <2> DEFINE d == Send("VM_INIT", "NONE", {})
             q == <<d>>
  <2>1. /\ todo["jdwp"] = <<>> /\ SameList /\ events' = events
        /\ todo' = todo \/ todo' = [todo EXCEPT !["jdwp"] = q]
    BY <1>14 DEF onHandShake, Idle, list, wire, counts, SameList
  <2>2. d \in Call /\ d.op = "send"
    BY CallTypes DEF Sources, Policies, Send
  <2> HIDE DEF d
  <2>3. q \in Seq(Call) /\ Settled(q)
    BY <2>2 DEF Settled
  <2> HIDE DEF q
  <2> QED
    BY <2>1, <2>3, QuietLists, NewCallsKeep
<1> QED
  BY <1>2, <1>3, <1>4, <1>5, <1>6, <1>7, <1>8, <1>9, <1>10, <1>11, <1>12, <1>13, <1>14,
     InsertStep, MarkStep, RemoveStep, RemoveAllStep DEF JDWPStep

\* New calls of the idle VM thread that report nothing.
LEMMA VMCallsKeep ==
  ASSUME Reporting, todo["vm"] = <<>>, NEW calls, todo' = [todo EXCEPT !["vm"] = calls],
         SameList, events' = events,
         \A i \in DOMAIN calls : calls[i].op = "send" => calls[i].reqs = {}
  PROVE  Keeps
<1>1. TypeOK /\ SetInv /\ VMSends
  BY DEF Reporting, TypeInv
<1>2. /\ VMSends'
      /\ \A h : h \in Taken' <=>
              \/ h \in Taken
              \/ \E i \in DOMAIN calls : calls[i].op = "send" /\ h \in calls[i].reqs
  BY <1>1, TakenNew
<1>3. Taken' = Taken
  BY <1>2
<1>4. GoesOn
  BY <1>1 DEF GoesOn, TypeOK, Threads
<1> QED
  BY <1>1, <1>2, <1>3, <1>4, QuietStep

\* The VM thread's own steps.
LEMMA VMKeeps ==
  ASSUME Reporting, TypeInv', VMStep, ~CallStep("vm")
  PROVE  Keeps
<1>1. ASSUME NEW from, NEW to, Move(from, to) PROVE Keeps
  BY <1>1, QuietLists DEF Move, list, wire, counts, SameList
<1>2. CASE RaiseException
  <2> DEFINE calls == <<NewEvent(NoRequest), Suspend, Send("EXCEPTION", "ALL", {})>>
  <2>1. /\ todo["vm"] = <<>> /\ todo' = [todo EXCEPT !["vm"] = calls] /\ SameList
        /\ events' = events
    BY <1>2 DEF RaiseException, Idle, list, wire, counts, SameList
  <2>2. /\ DOMAIN calls = 1 .. 3
        /\ calls[1].op = "newEvent" /\ calls[2].op = "suspend" /\ calls[3].reqs = {}
    BY DEF NewEvent, Suspend, Send
  <2> HIDE DEF calls
  <2>3. \A i \in DOMAIN calls : i = 1 \/ i = 2 \/ i = 3
    BY <2>2
  <2> QED
    BY <2>1, <2>2, <2>3, VMCallsKeep
<1>3. CASE check_forEvents
  <2> DEFINE calls == IF PendingIn(er, eList) # {} THEN <<Suspend>> ELSE <<>>
  <2>1. /\ todo["vm"] = <<>> /\ todo' = [todo EXCEPT !["vm"] = calls] /\ SameList
        /\ events' = events
    BY <1>3 DEF check_forEvents, Idle, list, wire, counts, SameList
  <2>2. \A i \in DOMAIN calls : calls[i].op # "send"
    BY DEF Suspend
  <2> HIDE DEF calls
  <2> QED
    BY <2>1, <2>2, VMCallsKeep
<1>4. CASE ReturnFromMain
  BY <1>4, QuietLists DEF ReturnFromMain, threads, list, wire, counts, SameList
<1> QED
  BY <1>1, <1>2, <1>3, <1>4, DispatchAllStep
     DEF VMStep, LeaveInitHalt, PassChecks, EnterSuspendLoop, LeaveSuspendLoop, PassHold, ExecOpcode

\* A packet of the debugger.
LEMMA ReceiveKeeps ==
  ASSUME Reporting, NEW c \in Commands, onReceive(c)
  PROVE  Keeps
<1>1. TypeOK /\ SetInv /\ VMSends
  BY DEF Reporting, TypeInv
<1>2. c \in Command /\ mpacket' \in Nat
  BY <1>1, SessionAssumption DEF onReceive, TypeOK
<1> DEFINE calls == onCommand(c, mpacket')
<1>3. /\ todo["jdwp"] = <<>> /\ todo' = [todo EXCEPT !["jdwp"] = calls]
      /\ er' = er /\ eList' = eList /\ events' = events
      /\ commands < MaxCommands /\ commands' = commands + 1
  BY DEF onReceive, Idle, list, wire
<1>4. Ordered(calls) /\ (Owes(calls) \/ ~Inserts(calls))
  <2>1. CASE c.op = "ER_Set"
    <3>1. calls = onSend_CS_ER_Set(c, mpacket')
      BY <2>1 DEF onCommand
    <3> QED
      BY <1>2, <2>1, <3>1, SetOrdered
  <2>2. CASE c.op # "ER_Set"
    <3>1. calls \in Seq(Plain)
      BY <1>2, <2>2, PlainHandlers
    <3> HIDE DEF calls
    <3>2. calls \in Seq(Call) /\ Settled(calls)
      BY <3>1, PlainSettled
    <3> QED
      BY <3>2, SettledOrdered
  <2> QED
    BY <2>1, <2>2
<1> HIDE DEF calls
<1>5. todo'["jdwp"] = calls /\ todo'["vm"] = todo["vm"]
  BY <1>1, <1>3 DEF TypeOK, Threads
<1>6. Taken' = Taken /\ VMSends'
  BY <1>1, <1>3, <1>5, TakenSame
<1>7. Maps
  BY <1>3, <1>6, MapsStutter
<1>8. SetInv'
  <2>1. commands \in Nat /\ MaxCommands \in Nat /\ Len(er) \in Nat
    BY <1>1, ListedExist, SessionAssumption DEF TypeOK
  <2>2. Len(er) <= commands
    BY <1>1 DEF SetInv
  <2>3. commands' <= MaxCommands /\ Len(er) < commands' /\ Len(er) <= commands'
    BY <1>3, <2>1, <2>2
  <2>4. Ordered(todo'["jdwp"]) /\ (Owes(todo'["jdwp"]) \/ ~Inserts(todo'["jdwp"]))
    BY <1>4, <1>5
  <2> QED
    BY <1>3, <2>3, <2>4 DEF SetInv, Ordered, Owes, Inserts
<1> QED
  BY <1>6, <1>7, <1>8 DEF Keeps

LEMMA EveryStepKeeps ==
  ASSUME Reporting, TypeInv', [Next]_vars
  PROVE  Keeps
<1>1. CASE UNCHANGED vars
  BY <1>1, QuietLists DEF vars, threads, list, wire, counts, SameList
<1>2. CASE JDWPStep
  BY <1>2, CallKeeps, JDWPKeeps DEF Threads
<1>3. CASE VMStep
  BY <1>3, CallKeeps, VMKeeps DEF Threads
<1>4. CASE Disconnect
  BY <1>4, QuietLists DEF Disconnect, threads, list, wire, counts, SameList
<1>5. CASE Spin
  BY <1>1, <1>5 DEF Spin
<1> QED
  BY <1>1, <1>2, <1>3, <1>4, <1>5, ReceiveKeeps DEF Next, Debugger

LEMMA ReportingStep ==
  ASSUME Reporting, [Next]_vars
  PROVE  Reporting' /\ Maps
<1>1. TypeInv' /\ ReportInv'
  BY TypeStep, ReportStep DEF Reporting, TypeInv
<1>2. Keeps
  BY <1>1, EveryStepKeeps
<1> QED
  BY <1>1, <1>2 DEF Keeps, Reporting

LEMMA ReportingInit == Init => Reporting /\ Abstract!Init
<1> SUFFICES ASSUME Init PROVE Reporting /\ Abstract!Init
  OBVIOUS
<1>1. TypeInv /\ ReportInv
  BY TypeInit, ReportInit
<1>2. er = <<>> /\ eList = <<>> /\ events = <<>> /\ commands = 0
      /\ todo["jdwp"] = <<>> /\ todo["vm"] = <<>>
  BY DEF Init, Threads
<1>3. Taken = {} /\ VMSends
  BY <1>2 DEF Taken, VMSends
<1>4. Len(er) = 0 /\ MaxCommands \in Nat
  BY <1>2, SessionAssumption
<1>5. SetInv
  BY <1>2, <1>4 DEF SetInv, Ordered, Owes, Inserts
<1>6. ToSet(eList) = {} /\ PendingIn(er, eList) = {}
  BY <1>2 DEF ToSet, PendingIn
<1>7. Abstract!Init
  BY <1>3, <1>6 DEF Abstract!Init, ToSet
<1> QED
  BY <1>1, <1>3, <1>5, <1>7 DEF Reporting

\* The two threads implement EventReporting: a request is registered once, and
\* reported at most once, by a round of dispatchAll and while it is registered.
THEOREM ReportingImplemented == Spec => ImplementsReporting
<1>1. Reporting /\ [Next]_vars => Reporting' /\ [Abstract!Next]_(Abstract!vars)
  BY ReportingStep DEF Maps
<1> QED
  BY <1>1, ReportingInit, PTL DEF Spec, ImplementsReporting, Abstract!Spec

=============================================================================
