----------------------------- MODULE MCAnswers ------------------------------
(* An instance of Answers for TLC.  The lines are those of jbases.meta that *)
(* matter: an interface with a method, a class below the root with that    *)
(* interface and enough members to grow its table twice, a class below a   *)
(* class of the file that may come after it or be itself, and any of them  *)
(* twice.                                                                  *)
EXTENDS Answers

Line(kind, name, super, interfaces, fields, methods) ==
    [kind |-> kind, name |-> name, super |-> super, interfaces |-> interfaces,
     fields |-> fields, methods |-> methods]

FewNames == {"Object", "TestClass", "TestClass$*", "Comparable", "Runnable", "Number", "Error"}

FewEntries ==
    {Line("Interface", "Comparable", "Object", <<>>, 0, 1),
     Line("Class", "Number", "Object", <<"Comparable", "Runnable">>, 3, 0),
     Line("Class", "Error", "Number", <<"Comparable">>, 0, 0),
     Line("Class", "Error", "Error", <<>>, 0, 0)}
=============================================================================
