------------------------- MODULE OrchestrationClaims -------------------------
(***************************************************************************)
(* What docstrings and comments of the repository say of the blocks, as    *)
(* properties of Orchestration.  The run named after each shows the code   *)
(* doing something else.                                                   *)
(***************************************************************************)
EXTENDS Orchestration

Gone(e) == \A f \in drops' : f.dpid # e.dpid \/ f.match # e.match
Releasing == IF pc = "release" THEN {loop.key} ELSE {}

\* openflow_mitigator.py, unblock: "Remove the drop rule for this L4 flow".  The
\* rules of the flows that stay blocked are left in place.
ReleaseRemovesOwnRules ==
  [][\A e \in drops :
       Gone(e) => \E k \in Releasing : StatMatchesBlock(e.match, k)]_vars

\* ryu_controller_2.py, _monitor: "Execute the centralized controller pipeline once per
\* monitoring cycle".  The monitor's greenthread never ends.
MonitorLives == pc # "dead"

=============================================================================
