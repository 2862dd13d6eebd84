--------------------------- MODULE EventReporting ---------------------------
(***************************************************************************)
(* What the event dispatcher promises of event requests, without threads,  *)
(* lists, locks or packets: a registered request is armed or muted, an     *)
(* armed one is reported at most once, and only while it is registered.    *)
(***************************************************************************)
CONSTANT Requests

VARIABLES
  registered,  \* requests the dispatcher knows
  armed,       \* those it still has to report
  reported     \* every request it has reported

vars == <<registered, armed, reported>>

Init == registered = {} /\ armed = {} /\ reported = {}

\* A new request; the muted ones are never reported.
Register(r, muted) ==
  /\ r \notin registered \cup reported
  /\ registered' = registered \cup {r}
  /\ armed' = IF muted THEN armed ELSE armed \cup {r}
  /\ UNCHANGED reported

\* One report takes every armed request; those with nothing to say are taken
\* and not reported.
Report(said) ==
  /\ armed # {}
  /\ said \subseteq armed \ reported
  /\ armed' = {}
  /\ reported' = reported \cup said
  /\ UNCHANGED registered

\* Requests are cleared.
Drop(gone) ==
  /\ gone \subseteq registered
  /\ registered' = registered \ gone
  /\ armed' = armed \ gone
  /\ UNCHANGED reported

\* A request is disarmed without a report of this kind (the THREAD_START a
\* resume sends on its own).
Disarm(r) ==
  /\ r \in armed
  /\ armed' = armed \ {r}
  /\ UNCHANGED <<registered, reported>>

Next ==
  \/ \E r \in Requests, muted \in BOOLEAN : Register(r, muted)
  \/ \E said \in SUBSET armed : Report(said)
  \/ \E gone \in SUBSET registered : Drop(gone)
  \/ \E r \in armed : Disarm(r)

Spec == Init /\ [][Next]_vars

=============================================================================
