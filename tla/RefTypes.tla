------------------------------ MODULE RefTypes -------------------------------
(***************************************************************************)
(* The registry of reference types (refTypHandler.c) and how the start-up   *)
(* fills it from jbases.meta (initializer.c): one line of the file after    *)
(* the other, then the application's main class and the pseudo class for   *)
(* its inner classes.  A line names its superclass and interfaces, which    *)
(* are looked up among the classes read before it.                         *)
(***************************************************************************)
EXTENDS Integers, SequencesExt

CONSTANTS
    Names,          \* class names
    Root,           \* java.lang.Object, which the file does not describe
    MainClass,      \* the application's main class
    StarClass,      \* the main class with "$*" behind its name
    Entries,        \* what a line of jbases.meta may say
    MaxLines,       \* bound: lines in the file
    U2              \* 2^16: the range of a table's size

ASSUME RegistryAssumption ==
    /\ {Root, MainClass, StarClass} \subseteq Names
    /\ Entries \subseteq [kind : {"Class", "Interface"}, name : Names, super : Names,
                          interfaces : Seq(Names), fields : Nat, methods : Nat]
    /\ MaxLines \in Nat
    /\ U2 \in Nat \ {0}

VARIABLES
    refList,        \* the classes, the newest first
    OID,            \* _OID, the next class id
    startRef,       \* id of the main class, NULL before it is registered
    lines,          \* lines of the file read so far
    up              \* "loading", "serving" commands, or "ended"

registry == <<refList, OID, startRef, lines>>

NULL == 0       \* no class
Wild == -1      \* a pointer field of a fresh malloc that nothing has set

-----------------------------------------------------------------------------
(* Tables of members: `items` are stored, `max` is the field max_... and    *)
(* `block` the number of places the allocated block really has.            *)

NoItems == [items |-> <<>>, max |-> 0, block |-> 0]

(* A table that grows only after it has been overrun.                      *)
add_late(table, item) ==
    LET grown == ((1 + table.max) * 2) % U2
        new   == IF table.max < Len(table.items)
                 THEN [table EXCEPT !.max = grown, !.block = grown] ELSE table
    IN  [new EXCEPT !.items = Append(@, item)]

add_member(table, item) ==
    LET grown == ((1 + table.max) * 2) % U2
        new   == IF table.max <= Len(table.items)
                 THEN [table EXCEPT !.max = grown, !.block = grown] ELSE table
    IN  [new EXCEPT !.items = Append(@, item)]

Filled(items) ==
    LET table[n \in 0 .. Len(items)] ==
            IF n = 0 THEN NoItems ELSE add_member(table[n - 1], items[n])
    IN  table[Len(items)]

(* The n members of a class are numbered from 0.                           *)
Numbered(n) == [i \in 1 .. n |-> i - 1]

-----------------------------------------------------------------------------
(* Finding a class: the list is walked from its head.                      *)

ById(id) == SelectInSeq(refList, LAMBDA c : c.ref_clazzid = id)

known(id) == ById(id) # 0
find_ByID(id) == refList[ById(id)]

find_ByClazzname(name) ==
    LET i == SelectInSeq(refList, LAMBDA c : c.clazzname = name)
    IN  IF i = 0 THEN NULL ELSE refList[i].ref_clazzid

-----------------------------------------------------------------------------
(* One line of the file.                                                   *)

(* A lookup made when the class is in the list already.                    *)
superAfterAdding(e) ==
    IF e.super = e.name THEN {OID} ELSE {find_ByClazzname(e.super)}

add_RefTypeID_no_count(c) ==  \* mutant: the next class gets the same id
    /\ refList' = <<c>> \o refList
    /\ OID' = OID

add_RefTypeID(c) ==
    /\ refList' = <<c>> \o refList
    /\ OID' = OID + 1

(* The superclass a line's class gets.  For an interface, and for a class   *)
(* under the root, the field is left as malloc gave it.                    *)
superOf(e) ==
    IF e.kind = "Class" /\ e.super # Root THEN {find_ByClazzname(e.super)}
    ELSE {NULL, Wild}

(* Interfaces that are not found become NULL places of the table.          *)
interfacesWithNull(e) ==
    [i \in DOMAIN e.interfaces |-> find_ByClazzname(e.interfaces[i])]

(* Interfaces that are not found are left out.                             *)
interfacesOf(e) ==
    LET found[n \in 0 .. Len(e.interfaces)] ==
            IF n = 0 THEN <<>>
            ELSE LET id == find_ByClazzname(e.interfaces[n])
                 IN  IF id = NULL THEN found[n - 1] ELSE Append(found[n - 1], id)
    IN  found[Len(e.interfaces)]

(* The signature of a class of the file is never made.                     *)
progress_jbase_line(e) ==
    /\ up = "loading" /\ startRef = NULL
    /\ lines < MaxLines
    /\ lines' = lines + 1
    /\ \E super \in superOf(e) :
          add_RefTypeID([ref_clazzid |-> OID, clazzname |-> e.name,
                         typeTag |-> e.kind, superClazz |-> super, signature |-> FALSE,
                         interfaces |-> Filled(interfacesOf(e)),
                         fields |-> Filled(Numbered(e.fields)),
                         methods |-> Filled(Numbered(e.methods))])
    /\ UNCHANGED <<startRef, up>>

(* The arrays of the class come from realloc on a pointer that nothing has  *)
(* set: with anything but NULL in it the first member ends the process.    *)
progress_jbase_line_aborts(e) ==
    /\ up = "loading" /\ startRef = NULL
    /\ lines < MaxLines
    /\ e.fields > 0 \/ e.methods > 0 \/ interfacesOf(e) # <<>>
    /\ up' = "ended"
    /\ UNCHANGED registry

(* add_ref: a class of its own memory, all zero but for what is set.       *)
add_ref(id, name, super, methods) ==
    [ref_clazzid |-> id, clazzname |-> name, typeTag |-> "Class", superClazz |-> super,
     signature |-> TRUE, interfaces |-> NoItems, fields |-> NoItems, methods |-> methods]

(* Two classes for which the counter moves once.                           *)
main_class_one_id ==
    /\ refList' = <<add_ref(OID, StarClass, NULL, NoItems),
                    add_ref(OID, MainClass, NULL,
                            [items |-> <<1, 1>>, max |-> 0, block |-> 2])>> \o refList
    /\ OID' = OID + 1
    /\ startRef' = OID

(* <init> and main, in a block of two places, both with the method id 1;    *)
(* then the pseudo class of the inner classes.                             *)
main_class ==
    /\ refList' = <<add_ref(OID + 1, StarClass, NULL, NoItems),
                    add_ref(OID, MainClass, NULL,
                            [items |-> <<1, 1>>, max |-> 0, block |-> 2])>> \o refList
    /\ OID' = OID + 2
    /\ startRef' = OID

(* The end of the file: the main class, and the JDWP server starts.        *)
init_mainHandler ==
    /\ up = "loading" /\ startRef = NULL
    /\ main_class
    /\ up' = "serving"
    /\ UNCHANGED lines

RegistryInit ==
    /\ refList = <<>>
    /\ OID = 1
    /\ startRef = NULL
    /\ lines = 0
    /\ up = "loading"

RegistryNext ==
    \/ init_mainHandler
    \/ \E e \in Entries : progress_jbase_line(e) \/ progress_jbase_line_aborts(e)

-----------------------------------------------------------------------------
(* Properties                                                              *)

Ids == 1 .. (MaxLines + 2)

Table(S) == [items : Seq(S), max : 0 .. U2 - 1, block : Nat]

Class == [ref_clazzid : Ids, clazzname : Names, typeTag : {"Class", "Interface"},
          superClazz : Ids \cup {NULL, Wild}, signature : BOOLEAN,
          interfaces : Table(Ids), fields : Table(Nat), methods : Table(Nat)]

(* Every variable of the registry keeps its range.                         *)
RegistryTypeOK ==
    /\ refList \in Seq(Class)
    /\ OID \in 1 .. MaxLines + 3
    /\ startRef \in Ids \cup {NULL}
    /\ lines \in 0 .. MaxLines
    /\ up \in {"loading", "serving", "ended"}

(* Each class is found under its own id, whatever duplicates the file has, *)
(* so an id a debugger has got keeps naming the class it was got for.      *)
LookupExact == \A i \in DOMAIN refList : ById(refList[i].ref_clazzid) = i

(* A superclass or an interface that was found was registered before: no   *)
(* line of the file, however it refers to itself or to its successors,     *)
(* makes a cycle a debugger would follow for ever.                         *)
HierarchyEarlier ==
    \A i \in DOMAIN refList :
        LET c     == refList[i]
            above == ToSet(c.interfaces.items) \cup ({c.superClazz} \ {NULL, Wild})
        IN  \A id \in above : id < c.ref_clazzid /\ ById(id) > i

(* An id keeps its class: whenever the list changes, what was known of an   *)
(* id stays true, whatever the file says after the class it was given to.  *)
IdsKeepTheirClass ==
    [][refList' # refList =>
          \A id \in Ids : known(id) => known(id)' /\ find_ByID(id)' = find_ByID(id)]_registry

(* The members of a class never outgrow the block allocated for them.      *)
TablesHold ==
    \A i \in DOMAIN refList :
        \A t \in {refList[i].interfaces, refList[i].fields, refList[i].methods} :
            Len(t.items) <= t.block
=============================================================================
