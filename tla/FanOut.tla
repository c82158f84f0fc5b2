-------------------------------- MODULE FanOut --------------------------------
(***************************************************************************)
(* What a run of triton-pssh (main of src/main.go) promises: it starts the *)
(* command on instances that were selected, at most limit of them and on   *)
(* none of them twice, it reports each command that was started once, and  *)
(* it ends successfully only when every command it started was reported.   *)
(* It may give up with an error at any time.                               *)
(***************************************************************************)
EXTENDS Naturals, FiniteSets

VARIABLES
  eligible,  \* the instances the command may be started on
  limit,     \* the most instances that may be used
  started,   \* the instances the command was started on
  reported,  \* the instances whose result was printed
  outcome    \* "none" while the program runs, then its exit code

vars == <<eligible, limit, started, reported, outcome>>

Init ==
  /\ started = {}
  /\ reported = {}
  /\ outcome = "none"

Start(i) ==
  /\ outcome = "none"
  /\ i \in eligible \ started
  /\ Cardinality(started) < limit
  /\ started' = started \cup {i}
  /\ UNCHANGED <<eligible, limit, reported, outcome>>

Report(i) ==
  /\ outcome = "none"
  /\ i \in started \ reported
  /\ reported' = reported \cup {i}
  /\ UNCHANGED <<eligible, limit, started, outcome>>

Succeed ==
  /\ outcome = "none"
  /\ reported = started
  /\ outcome' = "0"
  /\ UNCHANGED <<eligible, limit, started, reported>>

GiveUp ==
  /\ outcome = "none"
  /\ outcome' = "1"
  /\ UNCHANGED <<eligible, limit, started, reported>>

Next == (\E i \in eligible : Start(i) \/ Report(i)) \/ Succeed \/ GiveUp

SafeSpec == Init /\ [][Next]_vars

\* The program ends.
Spec == SafeSpec /\ WF_vars(Succeed \/ GiveUp)
=============================================================================
