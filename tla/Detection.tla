------------------------------ MODULE Detection ------------------------------
(***************************************************************************)
(* The pure part of the pipeline: detection/engine.py, decision/engine.py  *)
(* and the score process() hands from one to the other.  No state.         *)
(*                                                                         *)
(* A telemetry event is [from, src, dst, port, proto, pps]; from tells     *)
(* equal events of two senders apart.  Every adapter but OpenFlow's is a   *)
(* stub that collects nothing, so all events are of one domain and no      *)
(* confidence is boosted.  Scores, confidences and entropies are in        *)
(* thousandths.                                                            *)
(*                                                                         *)
(* Where the code takes a maximum over a list, the first one wins; lists   *)
(* come in the order of arrival, so the operators return every possible    *)
(* result as a set, and {} stands for None.                                *)
(***************************************************************************)
EXTENDS Naturals, FiniteSets, FiniteSetsExt

CONSTANTS
  Threshold,     \* SYN_, UDP_ and ICMP_THRESHOLD by the protocol they apply to
  DistPps,       \* DIST_PPS_THRESHOLD
  MinSources,    \* DIST_MIN_SOURCES
  LowSlowFlows   \* LOW_SLOW_NEW_FLOWS

\* _PROTOCOL_CHECKS, in their order.
Checks == <<[proto |-> "TCP_SYN", type |-> "SYN_FLOOD"],
            [proto |-> "UDP", type |-> "UDP_FLOOD"],
            [proto |-> "ICMP", type |-> "ICMP_FLOOD"]>>

\* DIST_ENTROPY_THRESHOLD, DECISION_THRESHOLD, and the decision weights in tenths.
EntropyFloor == 700
DecisionFloor == 1500
Weight == [SYN_FLOOD |-> 10, UDP_FLOOD |-> 9, ICMP_FLOOD |-> 8,
           LOW_SLOW |-> 12, DDOS_DISTRIBUTED |-> 13]

ASSUME SettingsAssumption ==
  /\ Threshold \in [{"TCP_SYN", "UDP", "ICMP"} -> Nat \ {0}]
  /\ {DistPps, MinSources, LowSlowFlows} \subseteq Nat \ {0}

PpsOf(events) == SumFunction([e \in events |-> e.pps])
SourcesOf(events) == {e.src : e \in events}
PpsOfSource(events, src) == PpsOf({e \in events : e.src = src})

-----------------------------------------------------------------------------
(* Entropy *)

\* The binary digits of log2(x / 2^14) for 2^14 <= x < 2^15: squaring x doubles it.
LogDigits[n \in Nat, x \in Nat] ==
  LET square == (x * x) \div 2^14 IN
  IF n = 0 THEN 0
  ELSE IF square >= 2^15 THEN 2^(n - 1) + LogDigits[n - 1, square \div 2]
  ELSE LogDigits[n - 1, square]

\* 1024 * log2(n), rounded down, for n < 2^14.
Log2[n \in Nat \ {0}] ==
  LET whole == CHOOSE k \in 0 .. 13 : 2^k <= n /\ n < 2^(k + 1)
  IN 1024 * whole + LogDigits[10, n * 2^(14 - whole)]

\* Shannon entropy of the weights over that of as many equal ones; a source without
\* weight counts for neither.
NormalizedEntropy(events) ==
  LET sources == {s \in SourcesOf(events) : PpsOfSource(events, s) > 0}
      total == PpsOf(events)
      spread == MapThenSumSet(LAMBDA e : PpsOfSource(events, e) * Log2[PpsOfSource(events, e)],
                              sources)
  IN IF Cardinality(sources) <= 1 THEN 0
     ELSE (1000 * ((total * Log2[total] - spread) \div total)) \div Log2[Cardinality(sources)]

-----------------------------------------------------------------------------
(* DDoSDetectionEngine *)

\* TCP_SYN is collapsed before it leaves the engine.
Normalized(proto) == IF proto = "TCP_SYN" THEN "TCP" ELSE proto

TopOf(events) == {e \in events : \A f \in events : e.pps >= f.pps}

\* _pick_representative takes the top of the events that know their port (those of a
\* packet-in): any event may be the only one that does.
Representatives(events) == events

Distributed(e, sources, score, entropy) ==
  [src |-> "*", dst |-> e.dst, port |-> e.port, proto |-> Normalized(e.proto),
   type |-> "DDOS_DISTRIBUTED", sources |-> sources, score |-> score, confidence |-> entropy]

SingleSource(e, type, score) ==
  [src |-> e.src, dst |-> e.dst, port |-> e.port, proto |-> Normalized(e.proto),
   type |-> type, sources |-> {}, score |-> score, confidence |-> Min({score \div 10, 1000})]

Dominant(events) ==
  {s \in SourcesOf(events) :
     \A t \in SourcesOf(events) : PpsOfSource(events, s) >= PpsOfSource(events, t)}

\* Many sources, and evenly spread?
IsSpread(events) ==
  Cardinality(SourcesOf(events)) >= MinSources /\ NormalizedEntropy(events) >= EntropyFloor

BuildResult(events, threshold, type) ==
  LET score == (1000 * PpsOf(events)) \div threshold IN
  IF IsSpread(events)
  THEN {Distributed(e, SourcesOf(events), score, NormalizedEntropy(events)) :
          e \in Representatives(events)}
  ELSE UNION {{SingleSource(e, type, score) :
                 e \in Representatives({f \in events : f.src = s})} : s \in Dominant(events)}

\* The fallback when no protocol is over its own threshold.
ClassifyDistributed(events) ==
  IF PpsOf(events) >= DistPps /\ IsSpread(events)
  THEN {Distributed(e, SourcesOf(events), (1000 * PpsOf(events)) \div DistPps,
                    NormalizedEntropy(events)) : e \in TopOf(events)}
  ELSE {}

\* A mutant: TCP_SYN is collapsed before the checks.
OfNormalized(events, proto) == {e \in events : Normalized(e.proto) = proto}

OfProto(events, proto) == {e \in events : e.proto = proto}

\* _classify, for the events of one destination: the first protocol over its
\* threshold is the only one looked at.
Classify(events) ==
  LET over == {i \in DOMAIN Checks :
                 PpsOf(OfProto(events, Checks[i].proto)) > Threshold[Checks[i].proto]}
      c == Checks[Min(over)]
  IN IF over = {} THEN ClassifyDistributed(events)
     ELSE BuildResult(OfProto(events, c.proto), Threshold[c.proto], c.type)

\* LOW_SLOW, by the number of connections instead of packets.
LowSlow(src, dst, port, proto, count) ==
  LET score == (1000 * count) \div LowSlowFlows IN
  [src |-> src, dst |-> dst, port |-> port, proto |-> proto, type |-> "LOW_SLOW",
   sources |-> {}, score |-> score, confidence |-> Min({score \div 2, 1000})]

\* counts: the forwarding rules to a destination that are old and have carried little,
\* as the flow stats of the cycle show them.  No source is named.
AnalyzeLowSlow(counts, excludedDsts) ==
  {LowSlow("*", d, 0, "IP", counts[d]) :
     d \in {x \in DOMAIN counts \ excludedDsts : counts[x] >= LowSlowFlows}}

\* A mutant: flagged pairs are not left out.
AnalyzeAllPairs(conns, excludedPairs) ==
  {LowSlow(c.src, c.dst, c.port, c.proto, c.count) :
     c \in {x \in conns : x.count >= LowSlowFlows}}

\* conns: the connection counts of the (source, destination) pairs.
AnalyzeLowSlowSingleSource(conns, excludedPairs) ==
  {LowSlow(c.src, c.dst, c.port, c.proto, c.count) :
     c \in {x \in conns : x.count >= LowSlowFlows /\ <<x.src, x.dst>> \notin excludedPairs}}

-----------------------------------------------------------------------------
(* DecisionEngine, for a group of one detection *)

\* process() multiplies the score by the confidence, evaluate() by the weight.
Evaluate(d) == ((d.score * d.confidence) \div 1000) * Weight[d.type] >= 10 * DecisionFloor

=============================================================================
