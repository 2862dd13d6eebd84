------------------------------- MODULE Answers -------------------------------
(***************************************************************************)
(* What the debugger is answered (the handlers of mainHandler.c): one       *)
(* command at a time, about a class, a method, a thread, a thread group, an *)
(* array or nothing in particular, over the registry of RefTypes.  The     *)
(* commands that act on the VM thread or on event requests are those of    *)
(* DebugSession.                                                           *)
(***************************************************************************)
EXTENDS RefTypes

CONSTANTS
    PID, JDWP_TID, APP_TID,     \* the ids of the threads that run
    Strays                      \* thread ids of none of them

ASSUME ThreadsAssumption ==
    /\ {PID, JDWP_TID, APP_TID} \subseteq Nat \ {0}
    /\ PID # JDWP_TID /\ PID # APP_TID /\ JDWP_TID # APP_TID
    /\ Strays \subseteq Nat
    /\ Strays \cap {PID, JDWP_TID, APP_TID} = {}

VARIABLES
    JNI_TID,        \* the id taken for a JNI thread, 0 before there is one
    last            \* the last command: what it was about, the id of that (of
                    \* the class meant by a signature), and the packets sent
                    \* for it; history that no handler reads

vars == <<registry, up, JNI_TID, last>>

Running == {PID, JDWP_TID, APP_TID}
THREAD_GROUP_MAIN_TGID == 1
THREAD_GROUP_SUB_TGID == 2

(* The debugger asks about ids it was told, and about some it was not.     *)
ClassIds == 0 .. (MaxLines + 3)
Tids == Running \cup Strays \cup {0}

Subjects == {"none", "class", "nested", "signature", "method", "thread", "appThread", "group",
             "array", "request"}

Codes == {"NO_ERROR", "NOT_IMPLEMENTED", "INVALID_OBJECT", "INVALID_CLASS",
          "INVALID_THREAD", "INVALID_THREAD_GROUP", "INVALID_ARRAY",
          "INVALID_CLASS_LOADER", "SCHEMA_CHANGE_NOT_IMPLEMENTED"}

-----------------------------------------------------------------------------
(* Packets.  A reply is known by the class ids it names.                   *)

Naming(ids) == <<[code |-> "NO_ERROR", classes |-> ids]>>
Reply == Naming({})
jdwpSend_error(code) == <<[code |-> code, classes |-> {}]>>
Silence == <<>>

Says(about, id, packets) ==
    /\ up = "serving"
    /\ last' = [about |-> about, id |-> id, packets |-> packets]

Send(about, id, packets) ==
    Says(about, id, packets) /\ UNCHANGED <<registry, up, JNI_TID>>

(* What follows a dereference of NULL, or of a pointer nothing has set.                 *)
Crash(about, id) ==
    /\ Says(about, id, Silence)
    /\ up' = "ended"
    /\ UNCHANGED <<registry, JNI_TID>>

-----------------------------------------------------------------------------
(* Commands that need no state and change none.                            *)

NotImplemented == Send("none", 0, jdwpSend_error("NOT_IMPLEMENTED"))
Constant == Send("none", 0, Reply)
Nothing == Send("none", 0, Silence)

Ends ==
    /\ Says("none", 0, Silence)
    /\ up' = "ended"
    /\ UNCHANGED <<registry, JNI_TID>>

-----------------------------------------------------------------------------
(* Virtual machine.                                                        *)

(* Each class is sent with its signature.                                  *)
onSend_CS_VM_AllClasses ==
    \/ Send("none", 0, Naming({refList[i].ref_clazzid : i \in DOMAIN refList}))
    \/ /\ \E i \in DOMAIN refList : ~refList[i].signature
       /\ Crash("none", 0)

(* findref_Bysign compares a character with itself: the head is the match. *)
find_BySignature(name) == refList[1].ref_clazzid

onSend_CS_VM_ClassesBySignature(name) ==
    Send("signature", find_ByClazzname(name), Naming({find_BySignature(name)}))

(* Four ids are announced, three follow until there is a JNI thread.       *)
onSend_CS_VM_AllThreads == Constant

(* Versions, id sizes, thread groups and capabilities are constants;        *)
(* DisposeObjects has no reply.                                            *)
onCSVirtualMachine ==
    \/ onSend_CS_VM_AllClasses
    \/ \E name \in Names : onSend_CS_VM_ClassesBySignature(name)
    \/ onSend_CS_VM_AllThreads
    \/ Constant \/ NotImplemented \/ Nothing \/ Ends

-----------------------------------------------------------------------------
(* Reference types, class types and methods.                               *)

(* The handlers that look whether there is such a class.                   *)
Checked(id, code, ids) ==
    Send("class", id, IF known(id) THEN Naming(ids) ELSE jdwpSend_error(code))

onSend_CS_RT_Modifiers(id) == Checked(id, "INVALID_OBJECT", {})
onSend_CS_RT_Fields(id) == Checked(id, "INVALID_OBJECT", {})

(* An error that is followed by the answer: the early return is missing.   *)
onSend_CS_RT_Methods_no_return(id) ==
    Send("class", id, IF known(id) THEN Reply ELSE jdwpSend_error("INVALID_CLASS") \o Reply)

onSend_CS_RT_Methods(id) == Checked(id, "INVALID_CLASS", {})

(* Interfaces named by their places in the table.                          *)
onSend_CS_RT_Interfaces_places(id) ==
    Checked(id, "INVALID_OBJECT", {i + OID : i \in DOMAIN find_ByID(id).interfaces.items})

onSend_CS_RT_Interfaces(id) ==
    Checked(id, "INVALID_OBJECT", ToSet(find_ByID(id).interfaces.items))

onSend_CS_RT_ClassObject(id) == Checked(id, "INVALID_OBJECT", {id})

(* Signature and SignatureWithGeneric write the signature of a class they   *)
(* have not found, or whose signature nobody has set.                      *)
onSend_CS_RT_Signature(id) ==
    \/ known(id) /\ Send("class", id, Reply)
    \/ (known(id) => ~find_ByID(id).signature) /\ Crash("class", id)

(* FieldsWithGeneric and MethodsWithGeneric.                               *)
onSend_CS_RT_MembersWithGeneric(id) ==
    IF known(id) THEN Send("class", id, Reply) ELSE Crash("class", id)

(* Sedona has no nested classes: refused for every class there is.         *)
onSend_CS_RT_NestedTypes(id) == Send("nested", id, jdwpSend_error("INVALID_CLASS"))

(* GetValues has no reply.                                                 *)
onCSReferenceType ==
    \/ \E id \in ClassIds :
          \/ onSend_CS_RT_Modifiers(id)
          \/ onSend_CS_RT_Fields(id)
          \/ onSend_CS_RT_Methods(id)
          \/ onSend_CS_RT_Interfaces(id)
          \/ onSend_CS_RT_ClassObject(id)
          \/ onSend_CS_RT_Signature(id)
          \/ onSend_CS_RT_MembersWithGeneric(id)
          \/ onSend_CS_RT_NestedTypes(id)
    \/ Constant \/ NotImplemented \/ Nothing

(* Through an unset pointer the answer is any number, or none at all.      *)
onSend_CS_CT_SuperClass(id) ==
    \/ Checked(id, "INVALID_OBJECT", {find_ByID(id).superClazz})
    \/ known(id) /\ find_ByID(id).superClazz = Wild /\ Crash("class", id)

onCSClassType ==
    \/ \E id \in ClassIds : onSend_CS_CT_SuperClass(id)
    \/ NotImplemented

(* The lines of a method are set for the main class only; there a method    *)
(* id finds the first method that has it.                                  *)
onSend_CS_M_LineTable(id, mid) ==
    LET found == known(id) /\ mid \in ToSet(find_ByID(id).methods.items)
    IN  \/ found /\ Send("method", id, Reply)
        \/ (found => id # startRef) /\ Crash("method", id)

onCSMethod ==
    \/ \E id \in ClassIds, mid \in {0, 1} : onSend_CS_M_LineTable(id, mid)
    \/ Constant \/ NotImplemented

-----------------------------------------------------------------------------
(* Objects and arrays.                                                     *)

(* Every class id is taken for an object, whose class is that very id.      *)
onSend_CS_OR_ReferenceType(id) == Checked(id, "INVALID_OBJECT", {id})

(* The handlers of garbage collection have no reply, but IsCollected has.  *)
onCSObjectReference ==
    \/ \E id \in ClassIds : onSend_CS_OR_ReferenceType(id)
    \/ Constant \/ NotImplemented \/ Nothing

(* Nothing adds to the list of objects that arrays are looked up in.       *)
onCSArrayReference ==
    \/ \E code \in {"INVALID_OBJECT", "INVALID_ARRAY"} :
          Send("array", 0, jdwpSend_error(code))
    \/ Nothing

onCSClassLoaderReference ==
    Send("none", 0, jdwpSend_error("INVALID_CLASS_LOADER")) \/ NotImplemented

-----------------------------------------------------------------------------
(* Threads and their groups.                                               *)

(* A check that has forgotten the debugger's own thread.                   *)
isThreadButJDWP(tid) == tid \in {PID, APP_TID, JNI_TID}

isThread(tid) == tid \in Running \cup {JNI_TID}

onSend_CS_TR_Name(tid) ==
    Send("thread", tid, IF isThread(tid) THEN Reply ELSE jdwpSend_error("INVALID_THREAD"))

(* For the application's thread it suspends the VM first.                  *)
onSend_CS_TR_Status(tid) ==
    Send("thread", tid, IF isThread(tid) THEN Reply ELSE jdwpSend_error("INVALID_OBJECT"))

(* Any other thread becomes the JNI thread.                                *)
onSend_CS_TR_ThreadGroup(tid) ==
    /\ Says("thread", tid, Reply)
    /\ JNI_TID' = IF tid \in Running THEN JNI_TID ELSE tid
    /\ UNCHANGED <<registry, up>>

(* SuspendCount and Frames never look whether there is such a thread.      *)
onSend_CS_TR_SuspendCount(tid) == Send("thread", tid, Reply)
onSend_CS_TR_Frames(tid) == Send("thread", tid, Reply)

(* FrameCount, Suspend and Resume know one thread and refuse the others     *)
(* that run.  What the latter two do besides is in DebugSession.           *)
onSend_CS_TR_FrameCount(tid) ==
    Send("appThread", tid,
         IF tid = APP_TID THEN Reply ELSE jdwpSend_error("INVALID_THREAD"))

onCSThreadReference ==
    \/ \E tid \in Tids :
          \/ onSend_CS_TR_Name(tid)
          \/ onSend_CS_TR_Status(tid)
          \/ onSend_CS_TR_ThreadGroup(tid)
          \/ onSend_CS_TR_SuspendCount(tid)
          \/ onSend_CS_TR_Frames(tid)
          \/ onSend_CS_TR_FrameCount(tid)
    \/ NotImplemented \/ Ends

(* Name, Parent and Children refuse the same groups.                       *)
onCSThreadGroupReference ==
    \/ \E tgid \in 0 .. 2 :
          Send("group", tgid,
               IF tgid \in {THREAD_GROUP_MAIN_TGID, THREAD_GROUP_SUB_TGID} THEN Reply
               ELSE jdwpSend_error("INVALID_THREAD_GROUP"))
    \/ NotImplemented

-----------------------------------------------------------------------------
(* Event requests: what becomes of them is the business of DebugSession.   *)

(* A class pattern without a class is an error, and the request is made and *)
(* answered all the same.                                                  *)
onSend_CS_ER_Set(pattern) ==
    Send("request", 0,
         IF find_ByClazzname(pattern) = NULL THEN jdwpSend_error("INVALID_CLASS") \o Reply
         ELSE Reply)

(* Clear has a reply, ClearAllBreakpoints has none.                        *)
onCSEventRequest ==
    \/ \E pattern \in Names : onSend_CS_ER_Set(pattern)
    \/ Constant \/ NotImplemented \/ Nothing

-----------------------------------------------------------------------------
(* The switch over the command sets.  Those without a command of their own  *)
(* (array and interface types, fields, strings, unknown sets) answer        *)
(* NOT_IMPLEMENTED; stack frames and class objects are not answered.       *)
onCommand ==
    \/ onCSVirtualMachine
    \/ onCSReferenceType
    \/ onCSClassType
    \/ onCSMethod
    \/ onCSObjectReference
    \/ onCSArrayReference
    \/ onCSClassLoaderReference
    \/ onCSThreadReference
    \/ onCSThreadGroupReference
    \/ onCSEventRequest
    \/ NotImplemented \/ Nothing

(* A packet that is itself a reply.                                        *)
onPacket == onCommand \/ Send("none", 0, jdwpSend_error("SCHEMA_CHANGE_NOT_IMPLEMENTED"))

Load == RegistryNext /\ UNCHANGED <<JNI_TID, last>>

Init ==
    /\ RegistryInit
    /\ JNI_TID = 0
    /\ last = [about |-> "none", id |-> 0, packets |-> Reply]

Next == Load \/ onPacket

Spec == Init /\ [][Next]_vars

-----------------------------------------------------------------------------
(* Properties                                                              *)

(* Every variable keeps its range.                                         *)
TypeOK ==
    /\ RegistryTypeOK
    /\ JNI_TID \in Tids
    /\ last \in [about : Subjects, id : Nat,
                 packets : Seq([code : Codes, classes : SUBSET (Ids \cup {NULL, Wild})])]

(* No command is answered twice: the second packet would be taken for the   *)
(* answer to another command, and all that follow would be off by one.     *)
(* Set of an event request is the one handler that breaks this.            *)
AnsweredOnce == last.about # "request" => Len(last.packets) <= 1

(* What the debugger may ask next is about a class that there is: every     *)
(* class id in a reply is registered, but "none" and what is read through   *)
(* a superclass that was never set.                                        *)
RepliesNameClasses ==
    \A i \in DOMAIN last.packets :
        \A id \in last.packets[i].classes \ {NULL, Wild} : known(id)

(* Whom a handler that is given an id refuses.  A registered class is       *)
(* refused by none but NestedTypes, which refuses them all.  Any thread    *)
(* that runs, and the latest JNI thread, is refused by none but            *)
(* FrameCount, Suspend and Resume, which take the application's thread     *)
(* only: they tell INVALID_THREAD of two threads that AllThreads names.    *)
Refusals ==
    LET accepted == \A i \in DOMAIN last.packets : last.packets[i].code = "NO_ERROR"
    IN  /\ last.about = "class" /\ known(last.id) => accepted
        /\ last.about = "nested" => ~accepted
        /\ last.about = "thread" /\ last.id \in Running \cup {JNI_TID} => accepted
        /\ last.about = "appThread" => (accepted <=> last.id = APP_TID)

(* "Sends reference types for all the classes loaded by the target VM       *)
(* which match the given signature" (mainHandler.c:226).                   *)
SignatureMatches ==
    last.about = "signature" =>
        \A id \in last.packets[1].classes :
            known(last.id) /\ find_ByID(id).clazzname = find_ByID(last.id).clazzname
=============================================================================
