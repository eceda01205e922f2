--------------------------- MODULE OpenFlowAdapter ---------------------------
(***************************************************************************)
(* telemetry/openflow_adapter.py over its two collectors: what the packets *)
(* of a network become in the telemetry the pipeline collects.             *)
(*                                                                         *)
(* A packet on a switch either matches an entry and is counted there, or   *)
(* comes up and is counted in a window.  Entries know only addresses, so   *)
(* the adapter puts on their traffic the label (protocol and port) of the  *)
(* last packet of the pair that came up, as long as it is recent.  The     *)
(* place a pair enters at, kept beside the label, is IngressTracking's.    *)
(***************************************************************************)
EXTENDS FlowCollector, SequencesExt

CONSTANTS
  DstOf,     \* pair -> its destination
  Labels,    \* the labels packets have
  Unlabelled,\* "IP" and port 0, where there is no label to go by
  MaxPackets \* bound: packets in all

ASSUME AdapterAssumption ==
  /\ IsFiniteSet(Switches) /\ IsFiniteSet(Flows) /\ IsFiniteSet(Labels)
  /\ Unlabelled \notin Labels
  /\ None \notin [label : Labels, fresh : BOOLEAN]
  /\ MaxPackets \in Nat

VARIABLES
  srcPackets, age,  \* the windows of the DDoSCollector
  meta,             \* _flow_meta: pair -> its label, younger than its TTL or not
  sighted,          \* (history) pair -> labels of its packets within the TTL, latest last
  cameUp,           \* (history) pair -> its packets that came up
  pending,          \* _pending: <<pair, label>> -> packets of its events
  collected         \* (history) pair -> packets of the events collected

Pairs == {f \in Flows : Kind[f] = "ip"}

Windowed == INSTANCE DDoSCollector

windowVars == <<srcPackets, age>>
eventVars == <<pending, collected>>
metaVars == <<meta, sighted, cameUp>>
vars == <<collectorVars, windowVars, metaVars, eventVars>>

Tags == Labels \cup {Unlabelled}

TypeOK ==
  /\ CollectorTypeOK
  /\ Windowed!WindowTypeOK
  /\ meta \in [Pairs -> [label : Labels, fresh : BOOLEAN] \cup {None}]
  /\ sighted \in [Pairs -> Seq(Labels)]
  /\ cameUp \in [Pairs -> Nat]
  /\ pending \in [Pairs \X Tags -> Nat]
  /\ collected \in [Pairs -> Nat]

Init ==
  /\ CollectorInit
  /\ Windowed!WindowInit
  /\ meta = [p \in Pairs |-> None]
  /\ sighted = [p \in Pairs |-> <<>>]
  /\ cameUp = [p \in Pairs |-> 0]
  /\ pending = [e \in Pairs \X Tags |-> 0]
  /\ collected = [p \in Pairs |-> 0]

-----------------------------------------------------------------------------
\* A mutant: the first label stays, as the comment on the TTL fears.
RememberFirstLabel(p, label) ==
  meta' = [meta EXCEPT ![p] =
             [label |-> IF @ = None THEN label ELSE @.label, fresh |-> TRUE]]

\* _remember_flow_meta, without the place.
RememberFlowMeta(p, label) ==
  meta' = [meta EXCEPT ![p] = [label |-> label, fresh |-> TRUE]]

Sent == SumFunction([x \in Switches \X Flows |-> passed[x[1]][x[2]]]) + SumFunction(cameUp)

\* on_packet_in: a packet of a pair that comes up from some switch.
OnPacketIn(p, label) ==
  /\ Sent < MaxPackets
  /\ RememberFlowMeta(p, label)
  /\ sighted' = [sighted EXCEPT ![p] = Append(@, label)]
  /\ cameUp' = [cameUp EXCEPT ![p] = @ + 1]
  /\ Windowed!ProcessPacket(p, label)
  /\ pending' = [e \in Pairs \X Tags |->
                   IF e[2] = label THEN pending[e] + Windowed!Result(p, label)[e[1]]
                   ELSE pending[e]]
  /\ UNCHANGED <<collectorVars, collected>>

\* A mutant: however old.
LabelOfAnyAge(p) == IF meta[p] # None THEN meta[p].label ELSE Unlabelled

\* _fresh_meta, and what on_flow_stats makes of it.
LabelOf(p) == IF meta[p] # None /\ meta[p].fresh THEN meta[p].label ELSE Unlabelled

\* on_flow_stats.
OnFlowStats(s) ==
  /\ ProcessStats(s)
  /\ pending' = [e \in Pairs \X Tags |->
                   IF e[2] = LabelOf(e[1])
                   THEN pending[e] + Delta(s, e[1], Head(replies[s])[e[1]])
                   ELSE pending[e]]
  /\ UNCHANGED <<windowVars, metaVars, collected>>

PendingOf(p) == SumFunction([l \in Tags |-> pending[<<p, l>>]])

\* A mutant: a copy, and nothing cleared.
CollectCopy ==
  /\ collected' = [p \in Pairs |-> collected[p] + PendingOf(p)]
  /\ UNCHANGED <<collectorVars, windowVars, metaVars, pending>>

\* collect(), by the monitor.
Collect ==
  /\ collected' = [p \in Pairs |-> collected[p] + PendingOf(p)]
  /\ pending' = [e \in Pairs \X Tags |-> 0]
  /\ UNCHANGED <<collectorVars, windowVars, metaVars>>

\* _FLOW_META_TTL passes since the last packet of the pair that came up, or (below)
\* since the first of those within it.
MetaExpires(p) ==
  /\ meta[p] # None
  /\ meta' = [meta EXCEPT ![p].fresh = FALSE]
  /\ sighted' = [sighted EXCEPT ![p] = <<>>]
  /\ UNCHANGED <<collectorVars, windowVars, cameUp, eventVars>>

OlderExpires(p) ==
  /\ Len(sighted[p]) > 1
  /\ sighted' = [sighted EXCEPT ![p] = Tail(@)]
  /\ UNCHANGED <<collectorVars, windowVars, meta, cameUp, eventVars>>

-----------------------------------------------------------------------------
Tables ==
  \/ \E s \in Switches, f \in Flows :
       Install(s, f) \/ Expire(s, f) \/ (Sent < MaxPackets /\ Count(s, f)) \/ Space(s, f)
  \/ \E s \in Switches : Answer(s) \/ LoseReplies(s)

Next ==
  \/ Tables /\ UNCHANGED <<windowVars, metaVars, eventVars>>
  \/ \E s \in Switches : OnFlowStats(s)
  \/ \E p \in Pairs, label \in Labels : OnPacketIn(p, label)
  \/ \E w \in Windowed!Windows :
       Windowed!SecondPasses(w) /\ UNCHANGED <<collectorVars, metaVars, eventVars>>
  \/ Collect
  \/ \E p \in Pairs : MetaExpires(p) \/ OlderExpires(p)

Spec == Init /\ [][Next]_vars

-----------------------------------------------------------------------------
InWindows(p) == SumFunction([w \in Windowed!Windows |-> srcPackets[w][p]])
FromTables(p) == SumFunction([s \in Switches |-> reported[s][p]])

\* Nothing is lost and nothing told twice between the handlers and the monitor: what
\* the pipeline has collected or will find pending of a pair is what the collectors
\* have reported of it.
TelemetryAddsUp ==
  \A p \in Pairs :
    collected[p] + PendingOf(p) + InWindows(p) = FromTables(p) + cameUp[p]

\* Traffic counted in the tables never carries a label that no packet of its pair had
\* within the TTL: after that it is "IP" rather than a label that may be wrong by now.
NoStaleLabel ==
  [][reported' # reported =>
       \A p \in Pairs, l \in Labels :
         pending'[<<p, l>>] > pending[<<p, l>>] => Contains(sighted[p], l)]_vars

=============================================================================
