---------------------------- MODULE PlanSchedule ----------------------------
(***************************************************************************)
(* What one run of an approved plan promises: its packages are executed    *)
(* one at a time, each at most once, each only after the packages it       *)
(* depends on were executed with success, and none after the run closed.   *)
(***************************************************************************)
CONSTANTS
  Package,  \* the packages
  Deps      \* Deps[p]: the packages p depends on

VARIABLES
  phase,   \* phase[p]: how far package p got in this run
  closed   \* the run has no executor any more

vars == <<phase, closed>>

Phases == {"idle", "executing", "succeeded", "failed"}

Init ==
  /\ phase = [p \in Package |-> "idle"]
  /\ closed = FALSE

Begin(p) ==
  /\ ~closed
  /\ phase[p] = "idle"
  /\ \A q \in Package : phase[q] # "executing"
  /\ \A d \in Deps[p] : phase[d] = "succeeded"
  /\ phase' = [phase EXCEPT ![p] = "executing"]
  /\ UNCHANGED closed

End(p) ==
  /\ phase[p] = "executing"
  /\ \E v \in {"succeeded", "failed"} : phase' = [phase EXCEPT ![p] = v]
  /\ UNCHANGED closed

Close ==
  /\ ~closed
  /\ \A p \in Package : phase[p] # "executing"
  /\ closed' = TRUE
  /\ UNCHANGED phase

Next == (\E p \in Package : Begin(p) \/ End(p)) \/ Close

Spec == Init /\ [][Next]_vars
=============================================================================
