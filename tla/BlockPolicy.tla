----------------------------- MODULE BlockPolicy -----------------------------
(***************************************************************************)
(* What the orchestrator promises of a block, whatever it measures and     *)
(* however it gets the rules to the switches: traffic flagged as an attack *)
(* is dropped, and the dropping ends only after ConfirmCycles reviews in a *)
(* row that found the traffic quiet, counted from the last alarm (the      *)
(* class comment and the check_unblocks docstring of controller.py).       *)
(***************************************************************************)
EXTENDS Naturals

CONSTANTS Flows, ConfirmCycles

VARIABLES
  alarmed,  \* the flow whose alarm is being answered, if there is one
  dropped,  \* the flows being dropped
  calm      \* how many reviews in a row found a dropped flow quiet

vars == <<alarmed, dropped, calm>>

Init == alarmed = {} /\ dropped = {} /\ calm = [f \in Flows |-> 0]

Alarm(f) ==
  /\ alarmed = {}
  /\ alarmed' = {f}
  /\ UNCHANGED <<dropped, calm>>

\* The answer drops the flow and starts the count again.  It may take several steps,
\* one for each place the flow enters.
Raise(f) ==
  /\ alarmed = {f}
  /\ alarmed' \in {{f}, {}}
  /\ dropped' = dropped \cup {f}
  /\ calm' = [calm EXCEPT ![f] = 0]

\* One flow is reviewed at a time, and none while an alarm is being answered.
Review(f, quiet) ==
  /\ alarmed = {}
  /\ f \in dropped
  /\ calm' = [calm EXCEPT ![f] = IF quiet THEN @ + 1 ELSE 0]
  /\ UNCHANGED <<alarmed, dropped>>

Lift(f) ==
  /\ alarmed = {}
  /\ f \in dropped /\ calm[f] >= ConfirmCycles
  /\ dropped' = dropped \ {f}
  /\ calm' = [calm EXCEPT ![f] = 0]
  /\ UNCHANGED alarmed

Next ==
  \E f \in Flows :
    \/ Alarm(f) \/ Raise(f) \/ Lift(f)
    \/ \E quiet \in BOOLEAN : Review(f, quiet)

Spec == Init /\ [][Next]_vars

=============================================================================
