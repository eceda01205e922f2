---------------------------- MODULE FloodControl ----------------------------
(***************************************************************************)
(* The control loop end to end: senders, the telemetry their packets leave *)
(* behind, the pipeline of ryu_controller_2.py that detects and blocks,    *)
(* and the drop rules that take the senders out of telemetry again.        *)
(*                                                                         *)
(* Detection and decision are computed, by the operators of Detection.     *)
(* The books of the orchestrator and its greenthreads are Orchestration's: *)
(* here a cycle and a release are one step each.  Windows, counters and    *)
(* the age of labels are OpenFlowAdapter's: here a reading is a flood at   *)
(* its rate, under the label it was given.                                 *)
(***************************************************************************)
EXTENDS Detection

CONSTANTS
  Floods,   \* senders: [at, srcs, dst, port, proto, pps, conns], pps for each source
  Places,   \* the host ports, one to a switch
  Home,     \* source -> the place ARP has shown, Nowhere when it has not
  Stalled,  \* destination -> how many stalled flows to it a cycle may find
  Nowhere

ASSUME FloodsAssumption ==
  /\ Nowhere \notin Places
  /\ IsFiniteSet(Floods)
  /\ \A f \in Floods : f.at \in Places /\ f.srcs \subseteq DOMAIN Home
  /\ \A f \in Floods : IsFiniteSet(f.srcs) /\ f.srcs # {} /\ f.pps \in Nat
  /\ \A s \in DOMAIN Home : Home[s] \in Places \cup {Nowhere}
  /\ "*" \notin DOMAIN Home
  /\ \A d \in DOMAIN Stalled : Stalled[d] \subseteq Nat

\* The floods of the same (source, destination) pairs: forwarding rules, and with them
\* the counters of the flow stats, do not tell them apart.
SamePair(f) == {g \in Floods : g.dst = f.dst /\ g.srcs \cap f.srcs # {}}

ASSUME PairAssumption ==
  \A f \in Floods : \A g \in SamePair(f) : g.srcs = f.srcs /\ g.at = f.at

VARIABLES
  running,     \* the floods under way
  labelled,    \* _flow_meta, while fresh: the flood a pair's last packet-in was of
  located,     \* _flow_meta: floods a packet-in has shown on their host port
  reported,    \* the readings since the last cycle
  remembered,  \* floods whose source ports the DDoSCollector remembers
  detections,  \* what the last cycle detected
  active,      \* _blocked: [key, at]
  rules,       \* the drop rules in the tables: [key, at]
  measured,    \* <<key, place>> -> what the drop rule there counted when last read
  latest       \* key -> the place _block_pps is from, Nowhere when there is no rate

traffic == <<running, labelled, located>>
telemetry == <<reported, remembered>>
books == <<detections, active, rules>>
rates == <<measured, latest>>
vars == <<traffic, telemetry, books, rates>>

Key(d) == [src |-> d.src, dst |-> d.dst, port |-> d.port, proto |-> d.proto]
KeyOf(f, src) == [src |-> src, dst |-> f.dst, port |-> f.port, proto |-> Normalized(f.proto)]
KeysOf(f) == {KeyOf(f, s) : s \in {"*"} \cup f.srcs}
Keys == (UNION {KeysOf(f) : f \in Floods})
          \cup {[src |-> "*", dst |-> d, port |-> 0, proto |-> "IP"] : d \in DOMAIN Stalled}
Block == [key : Keys, at : Places \cup {Nowhere}]

\* Traffic of one flood under the label of one of its pair's.
Readings == {r \in [flood : Floods, as : Floods] : r.as \in SamePair(r.flood)}

TypeOK ==
  /\ running \subseteq Floods
  /\ labelled \subseteq Floods
  /\ located \subseteq Floods
  /\ reported \subseteq Readings
  /\ remembered \subseteq Floods
  /\ {Key(d) : d \in detections} \subseteq Keys
  /\ active \subseteq Block
  /\ rules \subseteq active
  /\ measured \in [Keys \X Places -> SUBSET Floods]
  /\ latest \in [Keys -> Places \cup {Nowhere}]
  /\ \A k \in Keys : latest[k] # Nowhere => \E b \in active : b.key = k

Init ==
  /\ running = {} /\ labelled = {} /\ located = {}
  /\ reported = {} /\ remembered = {}
  /\ detections = {} /\ active = {} /\ rules = {}
  /\ measured = [m \in Keys \X Places |-> {}]
  /\ latest = [k \in Keys |-> Nowhere]

-----------------------------------------------------------------------------
(* Traffic *)

\* The match of wide covers that of narrow; protocol "IP" matches no protocol field.
Covers(wide, narrow) ==
  /\ wide.dst = narrow.dst
  /\ wide.src \in {"*", narrow.src}
  /\ \/ wide.proto = "IP"
     \/ wide.proto = narrow.proto /\ wide.port \in {0, narrow.port}

DroppedBy(f, r) ==
  /\ \A s \in f.srcs : Covers(r.key, KeyOf(f, s))
  /\ r.at \in {f.at, Nowhere}
Dropped(f) == \E r \in rules : DroppedBy(f, r)

Start(f) ==
  /\ running' = running \cup {f}
  /\ UNCHANGED <<labelled, located, telemetry, books, rates>>

Stop(f) ==
  /\ running' = running \ {f}
  /\ UNCHANGED <<labelled, located, telemetry, books, rates>>

\* A mutant: only connection attempts are counted.
HasPortsWhenSyn(f) == f.proto = "TCP_SYN"

\* Packets whose source ports the DDoSCollector counts for LOW_SLOW.
HasPorts(f) == f.proto \in {"TCP_SYN", "TCP", "UDP"}

\* A packet of the flood comes up, on its host port or another.  It gives its pair the
\* label; with it the DDoSCollector may close a window, whose event has the packet's own.
PacketIn(f, onHostPort, windowed) ==
  /\ f \in running /\ ~Dropped(f)
  /\ labelled' = (labelled \ SamePair(f)) \cup {f}
  /\ located' = IF onHostPort THEN located \cup {f} ELSE located
  /\ reported' = IF windowed THEN reported \cup {[flood |-> f, as |-> f]} ELSE reported
  /\ remembered' = IF HasPorts(f) THEN remembered \cup {f} ELSE remembered
  /\ UNCHANGED <<running, books, rates>>

\* The counters of the flood's forwarding rules are read.  They know its pair only: all
\* of the pair's traffic goes under the label of its last packet-in.  A label is never
\* too old: the rule goes when the label would, by VALIDATED_FLOW_HARD_TIMEOUT.
FlowStats(f) ==
  /\ f \in running /\ ~Dropped(f)
  /\ \E g \in labelled \cap SamePair(f) :
       reported' = reported \cup
         {[flood |-> h, as |-> g] : h \in {x \in SamePair(f) \cap running : ~Dropped(x)}}
  /\ UNCHANGED <<traffic, remembered, books, rates>>

\* _FLOW_META_TTL: no packet of the pair has come up for a while.
ForgetLabel(f) ==
  /\ \A g \in SamePair(f) : g \notin running \/ Dropped(g)
  /\ labelled' = labelled \ SamePair(f)
  /\ UNCHANGED <<running, located, telemetry, books, rates>>

\* LOW_SLOW_PORT_IDLE_TTL: a pair's source ports are forgotten together.
ForgetPorts(f) ==
  /\ \A g \in SamePair(f) : g \notin running \/ Dropped(g)
  /\ remembered' = remembered \ SamePair(f)
  /\ UNCHANGED <<traffic, reported, books, rates>>

-----------------------------------------------------------------------------
(* The pipeline *)

\* One event for every source of a flood, with the port and protocol of its label.
EventsOf(readings) ==
  UNION {{[from |-> r.flood, src |-> s, dst |-> r.flood.dst,
           port |-> r.as.port, proto |-> r.as.proto, pps |-> r.flood.pps] :
            s \in r.flood.srcs} : r \in readings}

\* analyze(): one detection for every destination that gives one, any of those that tie.
Analyze(readings) ==
  LET candidates == UNION {Classify(EventsOf({r \in readings : r.flood.dst = d})) :
                             d \in {r.flood.dst : r \in readings}}
  IN {ds \in SUBSET candidates :
        \A c \in candidates : \E d \in ds :
          d.dst = c.dst /\ \A e \in ds : e.dst = c.dst => e = d}

\* analyze() depends on the readings alone: its graph.
Analyzed == {[readings |-> rs, results |-> Analyze(rs)] : rs \in SUBSET Readings}

\* The source ports a pair has used, and the floods that may have been seen last.
PortsUsed(s, d) ==
  MapThenSumSet(LAMBDA f : f.conns, {f \in remembered : s \in f.srcs /\ f.dst = d})

Connections ==
  UNION {{[src |-> s, dst |-> f.dst, port |-> f.port, proto |-> Normalized(f.proto),
           count |-> PortsUsed(s, f.dst)] : s \in f.srcs} : f \in remembered}

OnePerPair(conns) == \A x, y \in conns : x.src = y.src /\ x.dst = y.dst => x = y

\* The pairs with enough of them, each with the flood it was last seen in.
LastSeen ==
  {conns \in SUBSET {c \in Connections : c.count >= LowSlowFlows} :
     /\ OnePerPair(conns)
     /\ \A c \in Connections : c.count >= LowSlowFlows =>
          \E x \in conns : x.src = c.src /\ x.dst = c.dst}

StalledCounts ==
  {counts \in [DOMAIN Stalled -> UNION {Stalled[d] : d \in DOMAIN Stalled}] :
     \A d \in DOMAIN Stalled : counts[d] \in Stalled[d]}

\* Volumetric detections, then LOW_SLOW for the destinations and the pairs they do not
\* name.
WithLowSlow(volumetric) ==
  {volumetric
     \cup AnalyzeLowSlow(counts, {v.dst : v \in volumetric})
     \cup AnalyzeLowSlowSingleSource(last, {<<v.src, v.dst>> : v \in volumetric}) :
   counts \in StalledCounts, last \in LastSeen}

\* Where the actions for a detection go: the places of its located sources, the place
\* of its one source, or every switch.
PlacesFor(d) ==
  IF d.type = "DDOS_DISTRIBUTED"
  THEN {f.at : f \in {g \in located : /\ g.dst = d.dst /\ g.srcs \cap d.sources # {}
                                     /\ labelled \cap SamePair(g) # {}}}
  ELSE {IF d.src \in DOMAIN Home THEN Home[d.src] ELSE Nowhere}

\* A mutant: a destination is blocked once.
BlocksOncePerDst(ds) ==
  UNION {{[key |-> Key(d), at |-> p] : p \in PlacesFor(d)} :
           d \in {e \in ds : Evaluate(e) /\ \A b \in active : b.key.dst # e.dst}}

Blocks(ds) ==
  UNION {{[key |-> Key(d), at |-> p] : p \in PlacesFor(d)} : d \in {e \in ds : Evaluate(e)}}

\* A run of the pipeline.  A block the mitigator holds already is not installed again.
Cycle ==
  \E a \in {x \in Analyzed : x.readings = reported} :
  \E volumetric \in a.results : \E ds \in WithLowSlow(volumetric) :
    /\ detections' = ds
    /\ active' = active \cup Blocks(ds)
    /\ rules' = rules \cup (Blocks(ds) \ active)
    /\ reported' = {}
    /\ UNCHANGED <<traffic, remembered, rates>>

-----------------------------------------------------------------------------
(* Release *)

\* UNBLOCK_RATIO of the threshold check_unblocks takes for the key.
ReleaseRate(k) ==
  (IF k.src = "*" THEN DistPps
   ELSE CASE k.proto = "TCP" -> Threshold["TCP_SYN"]
          [] k.proto = "ICMP" -> Threshold["ICMP"]
          [] OTHER -> Threshold["UDP"]) \div 2

RateOf(fs) == MapThenSumSet(LAMBDA f : f.pps * Cardinality(f.srcs), fs)

\* A flow-stats reply shows what the drop rule of key k at place p has counted since the
\* last.  The rate is the key's, whatever another place has shown before.
Measure(k, p) ==
  /\ \E r \in rules : r.key = k /\ r.at \in {p, Nowhere}
  /\ measured' = [measured EXCEPT ![<<k, p>>] =
       {f \in running : f.at = p /\ \E r \in rules : r.key = k /\ DroppedBy(f, r)}]
  /\ latest' = [latest EXCEPT ![k] = p]
  /\ UNCHANGED <<traffic, telemetry, books>>

\* _block_pps.get(key, 0.0)
Unmeasured(k) == latest[k] = Nowhere
BlockPps(k) == IF Unmeasured(k) THEN 0 ELSE RateOf(measured[<<k, latest[k]>>])

\* A mutant: rates are kept by destination.
IsQuietForDestination(k) ==
  \E b \in active : b.key.dst = k.dst /\ BlockPps(b.key) < ReleaseRate(k)

IsQuiet(k) == BlockPps(k) < ReleaseRate(k)

\* _forget_block_traffic().
ForgetRates(k) ==
  /\ measured' = [m \in Keys \X Places |-> IF m[1] = k THEN {} ELSE measured[m]]
  /\ latest' = [latest EXCEPT ![k] = Nowhere]

\* A mutant: the rules stay.
ReleaseBooksOnly(k) ==
  /\ \E b \in active : b.key = k
  /\ IsQuiet(k)
  /\ \A d \in detections : Evaluate(d) => Key(d) # k
  /\ active' = {b \in active : b.key # k}
  /\ ForgetRates(k)
  /\ UNCHANGED <<rules, traffic, telemetry, detections>>

\* The block has been quiet for UNBLOCK_CONFIRM_CYCLES, of which this is the last; no
\* cycle raised it again, so the last one did not.  The delete takes every narrower rule
\* along.
Release(k) ==
  /\ \E b \in active : b.key = k
  /\ IsQuiet(k)
  /\ \A d \in detections : Evaluate(d) => Key(d) # k
  /\ active' = {b \in active : b.key # k}
  /\ rules' = {r \in rules : ~Covers(k, r.key)}
  /\ ForgetRates(k)
  /\ UNCHANGED <<traffic, telemetry, detections>>

-----------------------------------------------------------------------------
Next ==
  \/ \E f \in Floods : Start(f) \/ Stop(f) \/ FlowStats(f) \/ ForgetLabel(f) \/ ForgetPorts(f)
  \/ \E f \in Floods, onHostPort, windowed \in BOOLEAN : PacketIn(f, onHostPort, windowed)
  \/ Cycle
  \/ \E k \in Keys : Release(k) \/ \E p \in Places : Measure(k, p)

Spec == Init /\ [][Next]_vars

\* A pair that is not dropped comes up at its host port again and again (its forwarding
\* rules time out), each flood of it is reported by a window or by the pair's counters,
\* and the monitor runs.
Sighted(f) == \E g \in SamePair(f), windowed \in BOOLEAN : PacketIn(g, TRUE, windowed)

Fairness ==
  /\ WF_vars(Cycle)
  /\ \A f \in Floods : WF_vars(Sighted(f)) /\ WF_vars(FlowStats(f) \/ PacketIn(f, TRUE, TRUE))

FairSpec == Spec /\ Fairness

-----------------------------------------------------------------------------
\* A flood over the threshold of its protocol.
Loud(f) ==
  f.proto \in DOMAIN Threshold /\ f.pps * Cardinality(f.srcs) > Threshold[f.proto]

\* When a cycle is through with a reading of a loud flood, it has detected something by
\* volume on its destination.
Noticed(r) ==
  Loud(r.flood) => \E d \in detections' : d.dst = r.flood.dst /\ d.type # "LOW_SLOW"

\* No loud flood that is reported under its own label is passed over by analyze(),
\* whatever else is reported with it, the same pair's other traffic included.  Volume
\* under another's label may be: 900 SYN/s as TCP are over no threshold.
NoLoudFloodPassedOver ==
  [][\A r \in reported \ reported' : r.as = r.flood => Noticed(r)]_vars

\* A flood the engines confirm on its own, without any other traffic.
Decisive ==
  {f \in Floods : \E d \in Classify(EventsOf({[flood |-> f, as |-> f]})) : Evaluate(d)}

\* Two detections of a cycle never share an identity, so that no attack competes with
\* another for the one decision of a group.
OneDetectionPerGroup == \A c, d \in detections : Key(c) = Key(d) => c = d

\* Of the active blocks only those are released that a reply has given a rate.
MeasuredReleases ==
  \A k \in Keys : (\E b \in active : b.key = k) /\ Unmeasured(k)
                   => \E b \in active' : b.key = k

\* Once the traffic is steady, and replies keep coming in time for check_unblocks, every
\* flood that is confirmed on its own ends up dropped for good: detection, decision and
\* release leave none out on the instances of the runs (not on every one: claim_mixed).
FloodsEnd ==
  <>[][FALSE]_running /\ <>[][MeasuredReleases]_vars
    => \A f \in Decisive : <>[](f \in running => Dropped(f))

\* While the rate that a block goes by counts a flood, the flood stays dropped until it
\* ends, whatever blocks are released beside it.  One that pauses, or that no reply has
\* shown, may be let through: check_unblocks cannot know of it.  (A property of the
\* runs' instances: a distributed SYN flood under half of DistPps is let go.)
CountedFloodsStayDropped ==
  [][\A f \in Decisive, k \in Keys :
       /\ f \in running /\ Dropped(f)
       /\ ~Unmeasured(k) /\ f \in measured[<<k, latest[k]>>]
       => Dropped(f)' \/ f \notin running']_vars

=============================================================================
