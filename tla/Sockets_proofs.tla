---------------------------- MODULE Sockets_proofs ----------------------------
(* What Sockets guarantees for any number of objects and descriptors: the  *)
(* objects' fields and the kernel's descriptors never get out of step.     *)
EXTENDS Sockets, TLAPS

(* The fields are typed, the descriptors apart and non-blocking, none is    *)
(* lost; and the classes whose natives look at closed first are closed      *)
(* exactly while they have no descriptor.                                  *)
GuardedClosed == \A o \in Server \cup Udp : closed[o] <=> socket[o] = NoFd

Inv == /\ TypeOK
       /\ HandlesApart
       /\ NeverBlocks
       /\ GuardedClosed
       /\ NothingLeaked

-----------------------------------------------------------------------------
(* The four things a call may do to the objects.                           *)

Untouched == UNCHANGED <<closed, socket, open, nonBlocking, careful>>

Kept(o, fd) ==
    /\ Keep(o, fd)
    /\ \/ careful' = (careful /\ socket[o] = NoFd)
       \/ careful' = careful /\ socket[o] = NoFd
    /\ \/ o \in Tcp /\ closed' = closed
       \/ closed' = [closed EXCEPT ![o] = FALSE]

Marked(o) ==
    /\ o \in Tcp
    /\ socket[o] # NoFd
    /\ closed' = [closed EXCEPT ![o] = FALSE]
    /\ UNCHANGED <<socket, open, nonBlocking, careful>>

Effect ==
    \/ Untouched
    \/ \E o \in Objects : \/ \E fd \in Fds \ open : Kept(o, fd) /\ o \in last'.on
                          \/ Marked(o)
                          \/ Drop(o) /\ careful' = careful /\ o \in last'.on

(* Every call of every native does one of them, to an object it was given. *)
LEMMA Effects == ASSUME TypeOK, GuardedClosed, Next PROVE Effect
<1> USE DEF Effect, Objects
<1>1. ASSUME NEW t \in Tcp, TcpConnect(t) PROVE Effect
  BY <1>1 DEF TcpConnect, Fails, Only, Return, Untouched, Kept
<1>2. ASSUME NEW t \in Tcp, TcpFinishConnect(t) PROVE Effect
  BY <1>2 DEF TcpFinishConnect, Only, Return, Untouched, Marked
<1>3. ASSUME NEW t \in Tcp, TcpClose(t) PROVE Effect
  BY <1>3 DEF TcpClose, Return
<1>4. ASSUME NEW t \in Tcp, TcpWrite(t) PROVE Effect
  BY <1>4 DEF TcpWrite, Only, Return, Untouched
<1>5. ASSUME NEW t \in Tcp, TcpRead(t) PROVE Effect
  BY <1>5 DEF TcpRead, Only, Return, Untouched
<1>6. ASSUME NEW s \in Server, ServerBind(s) PROVE Effect
  BY <1>6 DEF ServerBind, Fails, Only, Return, Untouched, Kept, GuardedClosed
<1>7. ASSUME NEW s \in Server, NEW t \in Tcp, ServerAccept(s, t) PROVE Effect
  BY <1>7 DEF ServerAccept, Fails, Only, Return, Untouched, Kept
<1>8. ASSUME NEW u \in Udp, UdpOpen(u) PROVE Effect
  BY <1>8 DEF UdpOpen, Fails, Only, Return, Untouched, Kept
<1>9. ASSUME NEW u \in Udp, UdpCall(u) PROVE Effect
  BY <1>9 DEF UdpCall, Fails, Only, Untouched
<1>11. ASSUME NEW o \in Server \cup Udp, GuardedClose(o) PROVE Effect
  BY <1>11 DEF GuardedClose, Only, Return, Untouched
<1> QED
  BY <1>1, <1>2, <1>3, <1>4, <1>5, <1>6, <1>7, <1>8, <1>9, <1>11
     DEF Next

-----------------------------------------------------------------------------
(* What is recorded of a call has its type.                                *)
LEMMA CallTyped ==
    ASSUME TypeOK, Next
    PROVE  /\ last' \in [op : Calls, on : SUBSET Objects, ret : BOOLEAN]
           /\ careful' \in BOOLEAN
<1>1. careful \in BOOLEAN
  BY DEF TypeOK
<1>2. \E op \in Calls, on \in SUBSET Objects, ret \in BOOLEAN : Return(op, on, ret)
  <2> USE DEF Calls, Objects
  <2>1. ASSUME NEW t \in Tcp,
               TcpConnect(t) \/ TcpFinishConnect(t) \/ TcpClose(t) \/ TcpWrite(t) \/ TcpRead(t)
        PROVE  <1>2!:
    BY <2>1 DEF TcpConnect, TcpFinishConnect, TcpClose, TcpWrite, TcpRead, Fails, Only
  <2>2. ASSUME NEW s \in Server, ServerBind(s) PROVE <1>2!:
    BY <2>2 DEF ServerBind, Fails, Only
  <2>3. ASSUME NEW s \in Server, NEW t \in Tcp, ServerAccept(s, t) PROVE <1>2!:
    BY <2>3 DEF ServerAccept, Fails, Only
  <2>4. ASSUME NEW u \in Udp, UdpOpen(u) \/ UdpCall(u) PROVE <1>2!:
    BY <2>4 DEF UdpOpen, UdpCall, Fails, Only
  <2>5. ASSUME NEW o \in Server \cup Udp, GuardedClose(o) PROVE <1>2!:
    BY <2>5 DEF GuardedClose, Only
  <2> QED BY <2>1, <2>2, <2>3, <2>4, <2>5 DEF Next
<1>3. careful' \in BOOLEAN
  BY <1>1 DEF Next, TcpConnect, TcpFinishConnect, TcpClose, TcpWrite, TcpRead, ServerBind,
              ServerAccept, GuardedClose, UdpOpen, UdpCall, Fails, Only
<1> QED BY <1>2, <1>3 DEF Return

-----------------------------------------------------------------------------
(* Each effect keeps the invariant's part about fields and descriptors.    *)

Fields ==
    /\ closed \in [Objects -> BOOLEAN]
    /\ socket \in [Objects -> Fds \cup {NoFd}]
    /\ open \subseteq Fds
    /\ nonBlocking \subseteq open
    /\ careful \in BOOLEAN

Owned == Fields /\ HandlesApart /\ NeverBlocks /\ GuardedClosed /\ NothingLeaked

LEMMA NoFdIsNone == NoFd \notin Fds
BY SocketsAssumption DEF NoFd

LEMMA KeptOwned ==
    ASSUME Owned, careful' \in BOOLEAN, NEW o \in Objects, NEW fd \in Fds \ open, Kept(o, fd)
    PROVE  Owned'
<1>1. /\ open' = open \cup {fd} /\ nonBlocking' = nonBlocking \cup {fd}
      /\ socket' = [socket EXCEPT ![o] = fd]
      /\ careful' => (careful /\ socket[o] = NoFd)
      /\ fd # NoFd
  BY NoFdIsNone DEF Kept, Keep
<1>2. Fields'
  BY <1>1 DEF Owned, Fields, Kept
<1>3. HandlesApart'
  BY <1>1 DEF Owned, Fields, Kept, HandlesApart
<1>4. NeverBlocks'
  BY <1>1 DEF Owned, Fields, NeverBlocks
<1>5. GuardedClosed'
  BY <1>1, SocketsAssumption DEF Owned, Fields, GuardedClosed, Kept, Objects
<1>6. NothingLeaked'
  BY <1>1, NoFdIsNone DEF Owned, Fields, NothingLeaked
<1> QED BY <1>2, <1>3, <1>4, <1>5, <1>6 DEF Owned

LEMMA DropOwned ==
    ASSUME Owned, careful' = careful, NEW o \in Objects, Drop(o)
    PROVE  Owned'
<1>1. /\ open' = open \ {socket[o]} /\ nonBlocking' = nonBlocking \ {socket[o]}
      /\ socket' = [socket EXCEPT ![o] = NoFd]
      /\ closed' = [closed EXCEPT ![o] = TRUE]
  BY DEF Drop, closesocket
<1>2. Fields'
  BY <1>1 DEF Owned, Fields
<1>3. HandlesApart'
  BY <1>1 DEF Owned, Fields, HandlesApart
<1>4. NeverBlocks'
  BY <1>1 DEF Owned, Fields, NeverBlocks, HandlesApart
<1>5. GuardedClosed'
  BY <1>1 DEF Owned, Fields, GuardedClosed, Objects
<1>6. NothingLeaked'
  BY <1>1, NoFdIsNone DEF Owned, Fields, NothingLeaked
<1> QED BY <1>2, <1>3, <1>4, <1>5, <1>6 DEF Owned

LEMMA MarkedOwned ==
    ASSUME Owned, NEW o \in Objects, Marked(o)
    PROVE  Owned'
BY SocketsAssumption
   DEF Marked, Owned, Fields, HandlesApart, NeverBlocks, GuardedClosed, NothingLeaked, Objects

LEMMA UntouchedOwned == ASSUME Owned, Untouched PROVE Owned'
BY DEF Untouched, Owned, Fields, HandlesApart, NeverBlocks, GuardedClosed, NothingLeaked

-----------------------------------------------------------------------------
LEMMA InitInv == Init => Inv
BY DEF Init, Inv, TypeOK, HandlesApart, NeverBlocks, GuardedClosed, NothingLeaked,
       Objects, Calls

LEMMA NextInv == Inv /\ [Next]_vars => Inv'
<1> SUFFICES ASSUME Inv, [Next]_vars PROVE Inv'
  OBVIOUS
<1>1. Owned
  BY DEF Inv, TypeOK, Owned, Fields
<1>2. CASE Next
  <2>1. Effect
    BY <1>2, Effects DEF Inv
  <2>2. Owned'
    BY <1>1, <1>2, <2>1, CallTyped, KeptOwned, DropOwned, MarkedOwned, UntouchedOwned DEF Effect, Inv
  <2> QED BY <1>2, <2>2, CallTyped DEF Inv, TypeOK, Owned, Fields
<1>3. CASE UNCHANGED vars
  BY <1>3 DEF vars, Inv, TypeOK, HandlesApart, NeverBlocks, GuardedClosed, NothingLeaked
<1> QED BY <1>2, <1>3

LEMMA Invariant == Spec => []Inv
BY InitInv, NextInv, PTL DEF Spec

(* Every variable keeps its range.                                         *)
THEOREM TypeCorrect == Spec => []TypeOK
<1>1. Inv => TypeOK BY DEF Inv
<1> QED BY <1>1, Invariant, PTL

(* No field keeps a descriptor that is closed or another object's: the     *)
(* kernel may reuse descriptors as it likes.                               *)
THEOREM HandlesStayApart == Spec => []HandlesApart
<1>1. Inv => HandlesApart BY DEF Inv
<1> QED BY <1>1, Invariant, PTL

(* The VM's only thread never waits in a socket native.                    *)
THEOREM VMNeverBlocks == Spec => []NeverBlocks
<1>1. Inv => NeverBlocks BY DEF Inv
<1> QED BY <1>1, Invariant, PTL

(* An application that keeps the documented rules loses no descriptor.     *)
THEOREM NoLeak == Spec => []NothingLeaked
<1>1. Inv => NothingLeaked BY DEF Inv
<1> QED BY <1>1, Invariant, PTL

(* No call closes a descriptor of an object it was not given.              *)
THEOREM NoForeignClose == Spec => OthersStayOpen
<1> DEFINE Stay == \A o \in Objects \ last'.on : socket[o] # NoFd => socket[o] \in open'
<1>1. Inv /\ [Next]_vars => [Stay]_vars
  <2> SUFFICES ASSUME Inv, Next PROVE Stay
    OBVIOUS
  <2>1. HandlesApart /\ TypeOK
    BY DEF Inv
  <2>2. Effect
    BY Effects DEF Inv
  <2>3. CASE Untouched
    BY <2>1, <2>3 DEF Untouched, HandlesApart
  <2>4. ASSUME NEW o \in Objects, Marked(o) PROVE Stay
    BY <2>1, <2>4 DEF Marked, HandlesApart
  <2>5. ASSUME NEW o \in Objects, NEW fd \in Fds, Kept(o, fd) PROVE Stay
    BY <2>1, <2>5 DEF Kept, Keep, HandlesApart
  <2>6. ASSUME NEW o \in Objects, Drop(o), o \in last'.on PROVE Stay
    BY <2>1, <2>6 DEF Drop, closesocket, HandlesApart
  <2> QED BY <2>2, <2>3, <2>4, <2>5, <2>6 DEF Effect
<1> QED BY <1>1, Invariant, PTL DEF Spec, OthersStayOpen
=============================================================================
