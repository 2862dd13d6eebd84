------------------------------ MODULE Sockets -------------------------------
(***************************************************************************)
(* The life cycles of the socket natives: TcpSocket, TcpServerSocket and    *)
(* UdpSocket (src/natives/inet_*_std.c).  A socket object is two fields of  *)
(* a Sedona component, `closed` and `socket`; the descriptors themselves    *)
(* belong to the kernel, which may hand a descriptor out again as soon as   *)
(* it is closed.  The VM calls these natives from one thread, so a call is  *)
(* one step; what the kernel answers is chosen.                             *)
(***************************************************************************)
EXTENDS Integers

CONSTANTS
    Tcp, Server, Udp,   \* the application's socket objects, by class
    Fds                 \* the descriptors the process may own

ASSUME SocketsAssumption ==
    /\ Tcp \cap Server = {}
    /\ Tcp \cap Udp = {}
    /\ Server \cap Udp = {}
    /\ Fds \subseteq Nat

VARIABLES
    closed,         \* field closed of every object (inet_util.h)
    socket,         \* field socket of every object
    open,           \* descriptors the process owns
    nonBlocking,    \* those of them in non-blocking mode
    careful,        \* the application has kept the rules of the comments: it
                    \* connects and accepts into objects without a descriptor
    last            \* the last call: its name, the objects it was given and
                    \* what it returned (FALSE also for -1); like careful,
                    \* history that no native reads

vars == <<closed, socket, open, nonBlocking, careful, last>>

Objects == Tcp \cup Server \cup Udp

NoFd == -1      \* the field socket of an object that has no descriptor

Calls == {"none", "connect", "finishConnect", "bind", "accept", "open", "join",
          "close", "write", "read", "send", "receive"}

(* Sedona constructs a socket object closed and with socket = -1.          *)
Init ==
    /\ closed = [o \in Objects |-> TRUE]
    /\ socket = [o \in Objects |-> NoFd]
    /\ open = {}
    /\ nonBlocking = {}
    /\ careful = TRUE
    /\ last = [op |-> "none", on |-> {}, ret |-> FALSE]

-----------------------------------------------------------------------------
(* What the natives are made of.                                           *)

Return(op, on, ret) == last' = [op |-> op, on |-> on, ret |-> ret]

(* A call that changes no object and no descriptor.                        *)
Only(op, on, ret) ==
    Return(op, on, ret) /\ UNCHANGED <<closed, socket, open, nonBlocking, careful>>

(* An early return that forgets the descriptor it has created.             *)
FailsForgetting(op, on) ==
    /\ \E fd \in Fds \ open : open' = open \cup {fd}
    /\ Return(op, on, FALSE)
    /\ UNCHANGED <<closed, socket, nonBlocking, careful>>

(* A call that creates a descriptor and then fails closes it again.        *)
Fails(op, on) == Only(op, on, FALSE)

(* A descriptor that is created (or accepted), set non-blocking and kept.  *)
Keep(o, fd) ==
    /\ open' = open \cup {fd}
    /\ nonBlocking' = nonBlocking \cup {fd}
    /\ socket' = [socket EXCEPT ![o] = fd]

closesocket(fd) ==
    /\ open' = open \ {fd}
    /\ nonBlocking' = nonBlocking \ {fd}

(* A close that leaves the descriptor's number in the object.              *)
DropKeepingSocket(o) ==
    /\ closesocket(socket[o])
    /\ closed' = [closed EXCEPT ![o] = TRUE]
    /\ UNCHANGED socket

(* A close that writes 0, a descriptor's number, for "none".               *)
DropToZero(o) ==
    /\ closesocket(socket[o])
    /\ closed' = [closed EXCEPT ![o] = TRUE]
    /\ socket' = [socket EXCEPT ![o] = 0]

(* The statements by which an object lets its descriptor go.               *)
Drop(o) ==
    /\ closesocket(socket[o])
    /\ closed' = [closed EXCEPT ![o] = TRUE]
    /\ socket' = [socket EXCEPT ![o] = NoFd]

-----------------------------------------------------------------------------
(* inet_TcpSocket: connect never looks at the object it is called on.      *)

TcpConnect(t) ==
    \/ Fails("connect", {t})
    \/ \E fd \in Fds \ open :
          /\ Keep(t, fd)
          /\ careful' = (careful /\ socket[t] = NoFd)
          /\ Return("connect", {t}, TRUE)
          /\ UNCHANGED closed

(* A poll finds the connection pending (FALSE), failed or made (TRUE); only *)
(* the last touches the object.  FD_SET has no meaning for -1: the          *)
(* application polls what it has connected or accepted.                    *)
TcpFinishConnect(t) ==
    /\ socket[t] # NoFd
    /\ \/ \E ret \in BOOLEAN : Only("finishConnect", {t}, ret)
       \/ /\ closed' = [closed EXCEPT ![t] = FALSE]
          /\ Return("finishConnect", {t}, TRUE)
          /\ UNCHANGED <<socket, open, nonBlocking, careful>>

TcpClose(t) ==
    /\ Drop(t)
    /\ Return("close", {t}, TRUE)
    /\ UNCHANGED careful

(* write gives up its descriptor on any error but EWOULDBLOCK.             *)
TcpWrite(t) ==
    \/ socket[t] # NoFd /\ Only("write", {t}, TRUE)
    \/ /\ Drop(t)
       /\ Return("write", {t}, FALSE)
       /\ UNCHANGED careful

(* read gives it up only when the peer has ended the connection.           *)
TcpRead(t) ==
    \/ socket[t] # NoFd /\ Only("read", {t}, TRUE)
    \/ Only("read", {t}, FALSE)
    \/ /\ socket[t] # NoFd
       /\ Drop(t)
       /\ Return("read", {t}, FALSE)
       /\ UNCHANGED careful

-----------------------------------------------------------------------------
(* inet_TcpServerSocket                                                    *)

ServerBind(s) ==
    \/ Fails("bind", {s})
    \/ /\ closed[s]
       /\ \E fd \in Fds \ open : Keep(s, fd)
       /\ closed' = [closed EXCEPT ![s] = FALSE]
       /\ Return("bind", {s}, TRUE)
       /\ UNCHANGED careful

(* An accept that relies on the server's mode for the new descriptor.      *)
ServerAcceptInheriting(s, t) ==
    /\ socket[s] # NoFd
    /\ \E fd \in Fds \ open :
          /\ open' = open \cup {fd}
          /\ socket' = [socket EXCEPT ![t] = fd]
    /\ closed' = [closed EXCEPT ![t] = FALSE]
    /\ careful' = (careful /\ socket[t] = NoFd)
    /\ Return("accept", {s, t}, TRUE)
    /\ UNCHANGED nonBlocking

(* accept overwrites the fields of the object it is given.                 *)
ServerAccept(s, t) ==
    \/ Fails("accept", {s, t})
    \/ /\ socket[s] # NoFd
       /\ \E fd \in Fds \ open : Keep(t, fd)
       /\ closed' = [closed EXCEPT ![t] = FALSE]
       /\ careful' = (careful /\ socket[t] = NoFd)
       /\ Return("accept", {s, t}, TRUE)

(* A close that takes the field for the descriptor to close, whatever the  *)
(* object says, and does not reset it.                                     *)
GuardedCloseAlways(o) ==
    /\ closesocket(socket[o])
    /\ closed' = [closed EXCEPT ![o] = TRUE]
    /\ Return("close", {o}, TRUE)
    /\ UNCHANGED <<socket, careful>>

(* The close of TcpServerSocket and of UdpSocket.                          *)
GuardedClose(o) ==
    \/ closed[o] /\ Only("close", {o}, TRUE)
    \/ /\ ~closed[o]
       /\ Drop(o)
       /\ Return("close", {o}, TRUE)
       /\ UNCHANGED careful

-----------------------------------------------------------------------------
(* inet_UdpSocket                                                          *)

UdpOpen(u) ==
    \/ Fails("open", {u})
    \/ /\ closed[u] /\ socket[u] = NoFd
       /\ \E fd \in Fds \ open : Keep(u, fd)
       /\ closed' = [closed EXCEPT ![u] = FALSE]
       /\ Return("open", {u}, TRUE)
       /\ UNCHANGED careful

(* Refused on a closed object, else the kernel says; what is in the         *)
(* datagram is left out.                                                   *)
UdpCall(u) ==
    \E op \in {"bind", "join", "send", "receive"} :
        \/ Fails(op, {u})
        \/ ~closed[u] /\ Only(op, {u}, TRUE)

-----------------------------------------------------------------------------
Next ==
    \/ \E t \in Tcp : \/ TcpConnect(t)
                      \/ TcpFinishConnect(t)
                      \/ TcpClose(t)
                      \/ TcpWrite(t)
                      \/ TcpRead(t)
    \/ \E s \in Server : \/ ServerBind(s)
                         \/ \E t \in Tcp : ServerAccept(s, t)
    \/ \E u \in Udp : UdpOpen(u) \/ UdpCall(u)
    \/ \E o \in Server \cup Udp : GuardedClose(o)

Spec == Init /\ [][Next]_vars

-----------------------------------------------------------------------------
(* Properties                                                              *)

(* Every variable keeps its range (the fields' widths in inet_util.h).     *)
TypeOK ==
    /\ closed \in [Objects -> BOOLEAN]
    /\ socket \in [Objects -> Fds \cup {NoFd}]
    /\ open \subseteq Fds
    /\ nonBlocking \subseteq open
    /\ careful \in BOOLEAN
    /\ last \in [op : Calls, on : SUBSET Objects, ret : BOOLEAN]

(* A descriptor in a field is owned by the process and by one object only, *)
(* and an object that says it is open has one: no field survives the close *)
(* of its descriptor, which the kernel may give to another object.         *)
HandlesApart ==
    /\ \A o \in Objects : socket[o] # NoFd => socket[o] \in open
    /\ \A o, p \in Objects : socket[o] = socket[p] /\ socket[o] # NoFd => o = p
    /\ \A o \in Objects : ~closed[o] => socket[o] # NoFd

(* No native may block the VM's only thread: every descriptor an object    *)
(* holds is in non-blocking mode, however it got it (connect, bind, accept *)
(* or open).                                                               *)
NeverBlocks == \A o \in Objects : socket[o] # NoFd => socket[o] \in nonBlocking

(* A call takes no descriptor away from an object it was not given: a      *)
(* second close of one object, or an error found late, cannot end a        *)
(* connection of another that was opened in between.                       *)
OthersStayOpen ==
    [][\A o \in Objects \ last'.on : socket[o] # NoFd => socket[o] \in open']_vars

(* An application that has been careful has lost no descriptor: each one    *)
(* of the process is in the field of some object, whatever has failed on   *)
(* the way.                                                                *)
NothingLeaked == careful => \A fd \in open : \E o \in Objects : socket[o] = fd
=============================================================================
