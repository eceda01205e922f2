---------------------------- MODULE FlowCollector ----------------------------
(***************************************************************************)
(* collectors/flow_collector.py, with the flow tables it samples.          *)
(*                                                                         *)
(* A switch counts packets in the entries of its table and answers         *)
(* flow-stats requests with a snapshot of it; answers travel in order and  *)
(* may be late.  process_stats turns the difference between two snapshots  *)
(* of an entry into traffic.  An entry that comes back after it was gone   *)
(* starts its counter again, under the same key.                           *)
(*                                                                         *)
(* Rates are followed as packets: an event's pps times the time it was     *)
(* measured over.  Bytes grow with the packets.                            *)
(***************************************************************************)
EXTENDS Integers, Sequences

CONSTANTS
  Switches,
  Flows,       \* what table entries match: (source, destination) pairs and others
  Kind,        \* flow -> "ip", "mac" (no eth_type) or "drop" (a mitigation rule)
  MaxReplies,  \* bound: flow-stats replies of a switch on their way
  None

\* before (history) is what the flow's earlier entries have counted on the switch.
Entry == [packets : Nat, before : Nat]

\* A sample; spaced once MIN_FLOW_RATE_DT has passed since.  base (history) is what
\* had been reported and not been in the counter when this life of the entry was
\* first sampled.
Sample == [packets : Nat, before : Nat, spaced : BOOLEAN, base : Int]

ASSUME CollectorAssumption ==
  /\ Kind \in [Flows -> {"ip", "mac", "drop"}]
  /\ MaxReplies \in Nat
  /\ None \notin Entry \cup Sample

VARIABLES
  table,     \* switch -> flow -> its entry, None without one
  passed,    \* (history) switch -> flow -> packets its entries have counted
  replies,   \* switch -> the snapshots on their way to the controller
  prevFlows, \* prev_flows: switch -> flow -> its last sample, None without one
  reported   \* (history) switch -> flow -> packets in the results so far

switchVars == <<table, passed, replies>>
collectorVars == <<switchVars, prevFlows, reported>>

CollectorTypeOK ==
  /\ table \in [Switches -> [Flows -> Entry \cup {None}]]
  /\ passed \in [Switches -> [Flows -> Nat]]
  /\ replies \in [Switches -> Seq([Flows -> Entry \cup {None}])]
  /\ prevFlows \in [Switches -> [Flows -> Sample \cup {None}]]
  /\ reported \in [Switches -> [Flows -> Nat]]

CollectorInit ==
  /\ table = [s \in Switches |-> [f \in Flows |-> None]]
  /\ passed = [s \in Switches |-> [f \in Flows |-> 0]]
  /\ replies = [s \in Switches |-> <<>>]
  /\ prevFlows = [s \in Switches |-> [f \in Flows |-> None]]
  /\ reported = [s \in Switches |-> [f \in Flows |-> 0]]

-----------------------------------------------------------------------------
(* The switches *)

\* OFPFC_ADD of LearningSwitch.add_flow or of the mitigator.  An entry that is there
\* already keeps its counters (the flags have no OFPFF_RESET_COUNTS).
Install(s, f) ==
  /\ table[s][f] = None
  /\ table' = [table EXCEPT ![s][f] = [packets |-> 0, before |-> passed[s][f]]]
  /\ UNCHANGED <<passed, replies, prevFlows, reported>>

\* A timeout, or a delete.
Expire(s, f) ==
  /\ table' = [table EXCEPT ![s][f] = None]
  /\ UNCHANGED <<passed, replies, prevFlows, reported>>

Count(s, f) ==
  /\ table[s][f] # None
  /\ table' = [table EXCEPT ![s][f].packets = @ + 1]
  /\ passed' = [passed EXCEPT ![s][f] = @ + 1]
  /\ UNCHANGED <<replies, prevFlows, reported>>

\* The switch answers a request: the counters of this moment.
Answer(s) ==
  /\ Len(replies[s]) < MaxReplies
  /\ replies' = [replies EXCEPT ![s] = Append(@, table[s])]
  /\ UNCHANGED <<table, passed, prevFlows, reported>>

LoseReplies(s) ==
  /\ replies' = [replies EXCEPT ![s] = <<>>]
  /\ UNCHANGED <<table, passed, prevFlows, reported>>

-----------------------------------------------------------------------------
(* process_stats *)

\* The entries it looks at: forwarding rules for IP.  A drop rule goes on counting
\* what the mitigation has stopped.
\* A mutant: every IP entry is.
IsMeasuredAlso(f) == Kind[f] # "mac"

IsMeasured(f) == Kind[f] = "ip"

\* Packets found since the sample prev.
Found(prev, entry) == entry.packets - prev.packets

\* Does the sample stay?  Two replies almost at once give no rate.
IsTooSoon(prev) == prev # None /\ ~prev.spaced

\* A mutant: the counter of an entry installed again counts backwards.
IsReportedAnyway(prev, entry) == prev # None /\ prev.spaced

IsReported(prev, entry) == prev # None /\ prev.spaced /\ entry.packets >= prev.packets

\* What process_stats reports for the entry of a flow in a reply of switch s.
Delta(s, f, entry) ==
  IF entry # None /\ IsMeasured(f) /\ IsReported(prevFlows[s][f], entry)
  THEN Found(prevFlows[s][f], entry) ELSE 0

Resampled(s, f, entry) ==
  LET prev == prevFlows[s][f]
      known == reported[s][f] + Delta(s, f, entry)
  IN [packets |-> entry.packets, before |-> entry.before, spaced |-> FALSE,
      base |-> IF prev # None /\ prev.before = entry.before
               THEN prev.base ELSE known - entry.packets]

\* A mutant, as record_block_traffic does it: the sample is always replaced.
KeepsNoSample(s, f, entry) == entry = None \/ ~IsMeasured(f)

KeepsSample(s, f, entry) ==
  entry = None \/ ~IsMeasured(f) \/ IsTooSoon(prevFlows[s][f])

ProcessStats(s) ==
  LET body == Head(replies[s]) IN
  /\ replies[s] # <<>>
  /\ replies' = [replies EXCEPT ![s] = Tail(@)]
  /\ prevFlows' = [prevFlows EXCEPT ![s] = [f \in Flows |->
                     IF KeepsSample(s, f, body[f]) THEN prevFlows[s][f]
                     ELSE Resampled(s, f, body[f])]]
  /\ reported' = [reported EXCEPT ![s] = [f \in Flows |->
                    reported[s][f] + Delta(s, f, body[f])]]
  /\ UNCHANGED <<table, passed>>

\* MIN_FLOW_RATE_DT passes.
Space(s, f) ==
  /\ prevFlows[s][f] # None
  /\ prevFlows' = [prevFlows EXCEPT ![s][f].spaced = TRUE]
  /\ UNCHANGED <<switchVars, reported>>

-----------------------------------------------------------------------------
\* However late the replies come and however often a rule is installed again under
\* the same key, the collector never reports more packets of a flow on a switch than
\* the switch has forwarded, and nothing of what it drops.
NeverOvercounts ==
  \A s \in Switches, f \in Flows :
    reported[s][f] <= IF Kind[f] = "drop" THEN 0 ELSE passed[s][f]

\* And as long as a rule lives it skips nothing: all its counter has grown by since it
\* was first sampled has been reported, whatever replies came too soon after another.
NothingSkipped ==
  \A s \in Switches, f \in Flows :
    prevFlows[s][f] # None =>
      reported[s][f] = prevFlows[s][f].base + prevFlows[s][f].packets

=============================================================================
