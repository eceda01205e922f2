------------------------- MODULE FloodControlProofs -------------------------
(***************************************************************************)
(* Theorems about FloodControl, for any floods, places and thresholds.     *)
(*                                                                         *)
(* What a detection says is taken from an event, and what an event says    *)
(* from the label of its reading, a flood of the same pair                 *)
(* (ClassifyTakesEvents, FromLabel): that makes every detection's key one  *)
(* of Keys.  That no two of a cycle have the same key is a matter of how   *)
(* the three kinds exclude each other.                                     *)
(***************************************************************************)
EXTENDS FloodControl, SumProofs

LowSlowKey(d) == [src |-> "*", dst |-> d, port |-> 0, proto |-> "IP"]

\* d says of source, destination, port and protocol what event e says.
TakenFrom(d, e) ==
  /\ d.src \in {"*", e.src}
  /\ d.dst = e.dst
  /\ d.port = e.port
  /\ d.proto = Normalized(e.proto)

-----------------------------------------------------------------------------
(* What the pipeline returns *)

\* _build_result only repeats what one of the events says.
LEMMA BuildResultTakesEvents ==
  ASSUME NEW events, NEW threshold, NEW type, NEW d \in BuildResult(events, threshold, type)
  PROVE  \E e \in events : TakenFrom(d, e)
<1> DEFINE score == (1000 * PpsOf(events)) \div threshold
<1>1. CASE IsSpread(events)
  <2>1. PICK e \in events :
          d = Distributed(e, SourcesOf(events), score, NormalizedEntropy(events))
    BY <1>1 DEF BuildResult, Representatives
  <2>2. TakenFrom(d, e)
    BY <2>1 DEF Distributed, TakenFrom
  <2> QED BY <2>2
<1>2. CASE ~IsSpread(events)
  <2>1. PICK s \in Dominant(events) : \E e \in {f \in events : f.src = s} :
          d = SingleSource(e, type, score)
    BY <1>2 DEF BuildResult, Representatives
  <2>2. PICK e \in {f \in events : f.src = s} : d = SingleSource(e, type, score)
    BY <2>1
  <2>3. TakenFrom(d, e)
    BY <2>2 DEF SingleSource, TakenFrom
  <2> QED BY <2>3, <2>2
<1> QED BY <1>1, <1>2

\* So does _classify, whichever way it ends.
LEMMA ClassifyTakesEvents ==
  ASSUME NEW events, NEW d \in Classify(events)
  PROVE  \E e \in events : TakenFrom(d, e)
<1> DEFINE over == {i \in DOMAIN Checks :
                      PpsOf(OfProto(events, Checks[i].proto)) > Threshold[Checks[i].proto]}
           c == Checks[Min(over)]
<1>1. CASE over = {}
  <2>1. d \in ClassifyDistributed(events)
    BY <1>1 DEF Classify
  <2>2. PICK e \in TopOf(events) :
          d = Distributed(e, SourcesOf(events), (1000 * PpsOf(events)) \div DistPps,
                          NormalizedEntropy(events))
    BY <2>1 DEF ClassifyDistributed
  <2>3. e \in events /\ TakenFrom(d, e)
    BY <2>2 DEF TopOf, Distributed, TakenFrom
  <2> QED BY <2>3
<1>2. CASE over # {}
  <2>1. d \in BuildResult(OfProto(events, c.proto), Threshold[c.proto], c.type)
    BY <1>2 DEF Classify
  <2>2. PICK e \in OfProto(events, c.proto) : TakenFrom(d, e)
    BY <2>1, BuildResultTakesEvents
  <2> QED BY <2>2 DEF OfProto
<1> QED BY <1>1, <1>2

\* An event of a source of a reading, under the reading's label.
EventOf(r, s) ==
  [from |-> r.flood, src |-> s, dst |-> r.flood.dst,
   port |-> r.as.port, proto |-> r.as.proto, pps |-> r.flood.pps]

\* A detection by volume has the key of a flood, the one its events were labelled with,
\* and one of its sources or none: a label is of the same pair.
LEMMA FromLabel ==
  ASSUME NEW readings \in SUBSET Readings, NEW d \in Classify(EventsOf(readings))
  PROVE  \E f \in Floods : Key(d) \in KeysOf(f)
<1>1. PICK e \in EventsOf(readings) : TakenFrom(d, e)
  BY ClassifyTakesEvents
<1>2. PICK r \in readings : \E s \in r.flood.srcs : e = EventOf(r, s)
  BY <1>1 DEF EventsOf, EventOf
<1>3. PICK s \in r.flood.srcs : e = EventOf(r, s)
  BY <1>2
<1>4. r.flood \in Floods /\ r.as \in Floods /\ r.as \in SamePair(r.flood)
  BY DEF Readings
<1>5. r.as.dst = r.flood.dst /\ r.as.srcs = r.flood.srcs
  BY <1>4, PairAssumption DEF SamePair
<1>6. /\ d.src \in {"*"} \cup r.as.srcs
      /\ d.dst = r.as.dst /\ d.port = r.as.port /\ d.proto = Normalized(r.as.proto)
  BY <1>1, <1>3, <1>5 DEF TakenFrom, EventOf
<1>7. Key(d) = KeyOf(r.as, d.src)
  BY <1>6 DEF Key, KeyOf
<1>8. Key(d) \in KeysOf(r.as)
  BY <1>6, <1>7 DEF KeysOf
<1> QED BY <1>4, <1>8

\* analyze() returns at most one detection for a destination, and each is one that
\* _classify gives for some of the readings.
LEMMA AnalyzeOnePerDst ==
  ASSUME NEW readings \in SUBSET Readings, NEW ds \in Analyze(readings)
  PROVE  /\ \A c, d \in ds : c.dst = d.dst => c = d
         /\ \A d \in ds : \E f \in Floods : Key(d) \in KeysOf(f)
<1> DEFINE candidates ==
      UNION {Classify(EventsOf({r \in readings : r.flood.dst = d})) :
               d \in {r.flood.dst : r \in readings}}
<1>1. ds \subseteq candidates
  BY DEF Analyze
<1>2. \A c \in candidates : \E d \in ds : d.dst = c.dst /\ \A e \in ds : e.dst = c.dst => e = d
  BY DEF Analyze
<1>3. ASSUME NEW c \in ds, NEW d \in ds, c.dst = d.dst PROVE c = d
  <2>1. PICK x \in ds : \A e \in ds : e.dst = c.dst => e = x
    BY <1>1, <1>2
  <2> QED BY <1>3, <2>1
<1>4. ASSUME NEW d \in ds PROVE \E f \in Floods : Key(d) \in KeysOf(f)
  <2>1. PICK v \in {r.flood.dst : r \in readings} :
          d \in Classify(EventsOf({r \in readings : r.flood.dst = v}))
    BY <1>1
  <2>2. {r \in readings : r.flood.dst = v} \in SUBSET Readings
    OBVIOUS
  <2> QED BY <2>1, <2>2, FromLabel
<1> QED BY <1>3, <1>4

-----------------------------------------------------------------------------
(* A cycle *)

\* A LOW_SLOW detection says what it was called with.
LEMMA LowSlowFields ==
  ASSUME NEW src, NEW dst, NEW port, NEW proto, NEW count
  PROVE  /\ LowSlow(src, dst, port, proto, count).src = src
         /\ LowSlow(src, dst, port, proto, count).dst = dst
         /\ LowSlow(src, dst, port, proto, count).port = port
         /\ LowSlow(src, dst, port, proto, count).proto = proto
BY DEF LowSlow

\* What the connection counts say is what a remembered flood says of one of its sources.
LEMMA ConnectionFromFlood ==
  ASSUME TypeOK, NEW c \in Connections
  PROVE  /\ c.src \in DOMAIN Home
         /\ \E f \in Floods : [src |-> c.src, dst |-> c.dst, port |-> c.port,
                               proto |-> c.proto] \in KeysOf(f)
<1>1. PICK f \in remembered : \E s \in f.srcs :
        c = [src |-> s, dst |-> f.dst, port |-> f.port, proto |-> Normalized(f.proto),
             count |-> PortsUsed(s, f.dst)]
  BY DEF Connections
<1>2. PICK s \in f.srcs :
        c = [src |-> s, dst |-> f.dst, port |-> f.port, proto |-> Normalized(f.proto),
             count |-> PortsUsed(s, f.dst)]
  BY <1>1
<1>3. f \in Floods /\ s \in DOMAIN Home
  BY <1>1, FloodsAssumption DEF TypeOK
<1>4. [src |-> c.src, dst |-> c.dst, port |-> c.port, proto |-> c.proto] = KeyOf(f, s)
  BY <1>2 DEF KeyOf
<1>5. c.src = s
  BY <1>2
<1> QED BY <1>3, <1>4, <1>5 DEF KeysOf

\* The three kinds of detections of a cycle, and what keeps them apart.
LowSlowKind(volumetric, low) ==
  /\ \A d \in low : /\ \E x \in DOMAIN Stalled : Key(d) = LowSlowKey(x)
                    /\ d.src = "*"
                    /\ d.dst \notin {v.dst : v \in volumetric}
  /\ \A c, d \in low : c.dst = d.dst => c = d

SingleKind(volumetric, single) ==
  /\ \A d \in single : /\ \E f \in Floods : Key(d) \in KeysOf(f)
                       /\ d.src # "*"
                       /\ <<d.src, d.dst>> \notin {<<v.src, v.dst>> : v \in volumetric}
  /\ \A c, d \in single : c.src = d.src /\ c.dst = d.dst => c = d

Kinds(volumetric, low, single, ds) ==
  /\ ds = volumetric \cup low \cup single
  /\ LowSlowKind(volumetric, low)
  /\ SingleKind(volumetric, single)

LEMMA KindsOfDetections ==
  ASSUME TypeOK, NEW readings \in SUBSET Readings, NEW volumetric \in Analyze(readings),
         NEW ds \in WithLowSlow(volumetric)
  PROVE  \E low, single : Kinds(volumetric, low, single, ds)
<1> DEFINE dsts == {v.dst : v \in volumetric}
           pairs == {<<v.src, v.dst>> : v \in volumetric}
<1>1. PICK counts \in StalledCounts, last \in LastSeen :
        ds = volumetric \cup AnalyzeLowSlow(counts, dsts)
                        \cup AnalyzeLowSlowSingleSource(last, pairs)
  BY DEF WithLowSlow
<1> DEFINE low == AnalyzeLowSlow(counts, dsts)
           single == AnalyzeLowSlowSingleSource(last, pairs)
<1>2. DOMAIN counts = DOMAIN Stalled
  BY DEF StalledCounts
<1>3. last \subseteq Connections /\ OnePerPair(last)
  BY DEF LastSeen
<1>4. ASSUME NEW d \in low
      PROVE  /\ \E x \in DOMAIN Stalled : Key(d) = LowSlowKey(x)
             /\ d.src = "*"
             /\ d.dst \notin dsts
             /\ d = LowSlow("*", d.dst, 0, "IP", counts[d.dst])
  <2>1. PICK x \in DOMAIN counts \ dsts : d = LowSlow("*", x, 0, "IP", counts[x])
    BY <1>4 DEF AnalyzeLowSlow
  <2>2. d.src = "*" /\ d.dst = x /\ d.port = 0 /\ d.proto = "IP"
    BY <2>1, LowSlowFields
  <2> QED BY <1>2, <2>1, <2>2 DEF Key, LowSlowKey
<1>5. ASSUME NEW d \in single
      PROVE  /\ \E x \in last : /\ d = LowSlow(x.src, x.dst, x.port, x.proto, x.count)
                                /\ d.src = x.src
                                /\ d.dst = x.dst
             /\ \E f \in Floods : Key(d) \in KeysOf(f)
             /\ d.src # "*"
             /\ <<d.src, d.dst>> \notin pairs
  <2>1. PICK x \in last : /\ d = LowSlow(x.src, x.dst, x.port, x.proto, x.count)
                          /\ <<x.src, x.dst>> \notin pairs
    BY <1>5 DEF AnalyzeLowSlowSingleSource
  <2>2. d.src = x.src /\ d.dst = x.dst /\ d.port = x.port /\ d.proto = x.proto
    BY <2>1, LowSlowFields
  <2>3. x \in Connections
    BY <1>3
  <2>4. /\ x.src \in DOMAIN Home
        /\ \E f \in Floods : [src |-> x.src, dst |-> x.dst, port |-> x.port,
                              proto |-> x.proto] \in KeysOf(f)
    BY <2>3, ConnectionFromFlood
  <2>5. Key(d) = [src |-> x.src, dst |-> x.dst, port |-> x.port, proto |-> x.proto]
    BY <2>2 DEF Key
  <2>6. x.src # "*"
    BY <2>4, FloodsAssumption
  <2> QED BY <2>1, <2>2, <2>4, <2>5, <2>6
<1>6. \A c, d \in low : c.dst = d.dst => c = d
  BY <1>4
<1>7. ASSUME NEW c \in single, NEW d \in single, c.src = d.src, c.dst = d.dst PROVE c = d
  <2>1. PICK x \in last : /\ c = LowSlow(x.src, x.dst, x.port, x.proto, x.count)
                          /\ c.src = x.src /\ c.dst = x.dst
    BY <1>5
  <2>2. PICK y \in last : /\ d = LowSlow(y.src, y.dst, y.port, y.proto, y.count)
                          /\ d.src = y.src /\ d.dst = y.dst
    BY <1>5
  <2>3. x = y
    BY <1>3, <1>7, <2>1, <2>2 DEF OnePerPair
  <2> QED BY <2>1, <2>2, <2>3
<1>8. LowSlowKind(volumetric, low)
  BY <1>4, <1>6 DEF LowSlowKind
<1>9. SingleKind(volumetric, single)
  BY <1>5, <1>7 DEF SingleKind
<1>10. Kinds(volumetric, low, single, ds)
  BY <1>1, <1>8, <1>9 DEF Kinds
<1> HIDE DEF low, single
<1> QED BY <1>10

\* What is known of the detections of a cycle: they have the keys they should have, and
\* no two have the same.
LEMMA CycleDetections ==
  ASSUME TypeOK, NEW readings \in SUBSET Readings, NEW volumetric \in Analyze(readings),
         NEW ds \in WithLowSlow(volumetric)
  PROVE  /\ {Key(d) : d \in ds} \subseteq Keys
         /\ \A c, d \in ds : Key(c) = Key(d) => c = d
<1>1. PICK low, single : Kinds(volumetric, low, single, ds)
  BY KindsOfDetections
<1>2. /\ \A c, d \in volumetric : c.dst = d.dst => c = d
      /\ \A d \in volumetric : \E f \in Floods : Key(d) \in KeysOf(f)
  BY AnalyzeOnePerDst
<1>3. ASSUME NEW d \in ds PROVE Key(d) \in Keys
  <2>1. CASE \E f \in Floods : Key(d) \in KeysOf(f)
    BY <2>1 DEF Keys
  <2>2. CASE \E x \in DOMAIN Stalled : Key(d) = LowSlowKey(x)
    BY <2>2 DEF Keys, LowSlowKey
  <2> QED BY <1>1, <1>2, <2>1, <2>2 DEF Kinds, LowSlowKind, SingleKind
<1>4. ASSUME NEW c \in ds, NEW d \in ds, Key(c) = Key(d) PROVE c = d
  <2>1. c.src = d.src /\ c.dst = d.dst
    BY <1>4 DEF Key
  <2>2. CASE c \in volumetric /\ d \in volumetric
    BY <1>2, <2>1, <2>2
  <2>3. CASE c \in low /\ d \in low
    BY <1>1, <2>1, <2>3 DEF Kinds, LowSlowKind, SingleKind
  <2>4. CASE c \in single /\ d \in single
    BY <1>1, <2>1, <2>4 DEF Kinds, LowSlowKind, SingleKind
  <2>5. ~(c \in volumetric /\ d \in low) /\ ~(c \in low /\ d \in volumetric)
    BY <1>1, <2>1 DEF Kinds, LowSlowKind, SingleKind
  <2>6. ~(c \in volumetric /\ d \in single) /\ ~(c \in single /\ d \in volumetric)
    BY <1>1, <2>1 DEF Kinds, LowSlowKind, SingleKind
  <2>7. ~(c \in low /\ d \in single) /\ ~(c \in single /\ d \in low)
    BY <1>1, <2>1 DEF Kinds, LowSlowKind, SingleKind
  <2>8. c \in volumetric \cup low \cup single /\ d \in volumetric \cup low \cup single
    BY <1>1 DEF Kinds
  <2> QED BY <2>2, <2>3, <2>4, <2>5, <2>6, <2>7, <2>8
<1> QED BY <1>3, <1>4

\* Actions go to places there are.
LEMMA BlocksAreBlocks ==
  ASSUME TypeOK, NEW ds, {Key(d) : d \in ds} \subseteq Keys
  PROVE  Blocks(ds) \subseteq Block
<1> SUFFICES ASSUME NEW b \in Blocks(ds) PROVE b \in Block
  OBVIOUS
<1>1. PICK d \in ds : \E p \in PlacesFor(d) : b = [key |-> Key(d), at |-> p]
  BY DEF Blocks
<1>2. PICK p \in PlacesFor(d) : b = [key |-> Key(d), at |-> p]
  BY <1>1
<1>3. p \in Places \cup {Nowhere}
  <2>1. CASE d.type = "DDOS_DISTRIBUTED"
    BY <1>1, <2>1, <1>2, FloodsAssumption DEF PlacesFor, TypeOK
  <2>2. CASE d.type # "DDOS_DISTRIBUTED"
    BY <1>1, <2>2, <1>2, FloodsAssumption DEF PlacesFor
  <2> QED BY <2>1, <2>2
<1> QED BY <1>1, <1>3, <1>2 DEF Block

-----------------------------------------------------------------------------
Inv == TypeOK /\ OneDetectionPerGroup

LEMMA InvInit == Init => Inv
BY DEF Init, Inv, TypeOK, OneDetectionPerGroup

\* A cycle that concludes with the detections ds.
Concludes(ds) ==
  /\ detections' = ds
  /\ active' = active \cup Blocks(ds)
  /\ rules' = rules \cup (Blocks(ds) \ active)
  /\ reported' = {}
  /\ UNCHANGED <<traffic, remembered, rates>>

LEMMA CycleConcludes ==
  ASSUME TypeOK, Cycle
  PROVE  \E volumetric \in Analyze(reported) :
           \E ds \in WithLowSlow(volumetric) : Concludes(ds)
<1>1. PICK a \in {x \in Analyzed : x.readings = reported} :
        \E volumetric \in a.results : \E ds \in WithLowSlow(volumetric) : Concludes(ds)
  BY DEF Cycle, Concludes
<1>2. a.results = Analyze(reported)
  BY DEF Analyzed
<1> QED BY <1>1, <1>2

LEMMA InvNext == Inv /\ [Next]_vars => Inv'
<1> SUFFICES ASSUME Inv, [Next]_vars PROVE Inv'
  OBVIOUS
<1> USE DEF Inv
<1> USE DEF traffic, telemetry, books, rates
<1>1. ASSUME NEW f \in Floods, Start(f) \/ Stop(f) \/ ForgetLabel(f) \/ ForgetPorts(f)
      PROVE  Inv'
  BY <1>1 DEF TypeOK, OneDetectionPerGroup, Start, Stop, ForgetLabel, ForgetPorts
<1>2. ASSUME NEW f \in Floods, NEW onHostPort \in BOOLEAN, NEW windowed \in BOOLEAN,
             PacketIn(f, onHostPort, windowed)
      PROVE  Inv'
  <2>1. f \in SamePair(f)
    BY FloodsAssumption DEF SamePair
  <2>2. [flood |-> f, as |-> f] \in Readings
    BY <2>1 DEF Readings
  <2>3. reported' \subseteq Readings
    BY <1>2, <2>2 DEF PacketIn, TypeOK
  <2> QED BY <1>2, <2>3 DEF TypeOK, OneDetectionPerGroup, PacketIn
<1>3. ASSUME NEW f \in Floods, FlowStats(f) PROVE Inv'
  <2>1. PICK g \in labelled \cap SamePair(f) :
          reported' = reported \cup
            {[flood |-> h, as |-> g] : h \in {x \in SamePair(f) \cap running : ~Dropped(x)}}
    BY <1>3 DEF FlowStats
  <2>2. ASSUME NEW h \in SamePair(f) PROVE [flood |-> h, as |-> g] \in Readings
    <3>1. h \in Floods /\ g \in Floods /\ h.dst = f.dst /\ g.dst = f.dst
      BY DEF SamePair
    <3>2. h.srcs = f.srcs /\ g.srcs = f.srcs /\ g.srcs \cap f.srcs # {}
      BY PairAssumption DEF SamePair
    <3>3. g \in SamePair(h)
      BY <3>1, <3>2 DEF SamePair
    <3> QED BY <3>1, <3>3 DEF Readings
  <2>3. reported' \subseteq Readings
    BY <2>1, <2>2 DEF TypeOK
  <2> QED BY <1>3, <2>3 DEF TypeOK, OneDetectionPerGroup, FlowStats
<1>4. ASSUME Cycle PROVE Inv'
  <2>1. PICK volumetric \in Analyze(reported) :
          \E ds \in WithLowSlow(volumetric) : Concludes(ds)
    BY <1>4, CycleConcludes
  <2>2. PICK ds \in WithLowSlow(volumetric) : Concludes(ds)
    BY <2>1
  <2>3. reported \in SUBSET Readings
    BY DEF TypeOK
  <2>4. /\ {Key(d) : d \in ds} \subseteq Keys
        /\ \A c, d \in ds : Key(c) = Key(d) => c = d
    BY <2>3, CycleDetections
  <2>5. Blocks(ds) \subseteq Block
    BY <2>4, BlocksAreBlocks
  <2>6. TypeOK'
    BY <2>2, <2>4, <2>5 DEF TypeOK, Concludes
  <2>7. OneDetectionPerGroup'
    BY <2>2, <2>4 DEF OneDetectionPerGroup, Concludes
  <2> QED BY <2>6, <2>7
<1>5. ASSUME NEW k \in Keys, Release(k) PROVE Inv'
  <2>1. Covers(k, k)
    BY DEF Covers
  <2>2. rules' \subseteq active'
    BY <1>5, <2>1 DEF Release, TypeOK
  <2>3. /\ measured' \in [Keys \X Places -> SUBSET Floods]
        /\ latest' \in [Keys -> Places \cup {Nowhere}]
        /\ \A j \in Keys : latest'[j] # Nowhere => j # k /\ latest[j] # Nowhere
    BY <1>5 DEF Release, ForgetRates, TypeOK
  <2>4. \A j \in Keys : latest'[j] # Nowhere => \E b \in active' : b.key = j
    BY <1>5, <2>3 DEF Release, TypeOK
  <2> QED BY <1>5, <2>2, <2>3, <2>4 DEF Release, TypeOK, OneDetectionPerGroup
<1>6. ASSUME NEW k \in Keys, NEW p \in Places, Measure(k, p) PROVE Inv'
  <2>1. \E b \in active : b.key = k
    BY <1>6 DEF Measure, TypeOK
  <2>2. /\ measured' \in [Keys \X Places -> SUBSET Floods]
        /\ latest' \in [Keys -> Places \cup {Nowhere}]
        /\ \A j \in Keys : latest'[j] # Nowhere => j = k \/ latest[j] # Nowhere
    BY <1>6 DEF Measure, TypeOK
  <2> QED BY <1>6, <2>1, <2>2 DEF Measure, TypeOK, OneDetectionPerGroup
<1>7. ASSUME UNCHANGED vars PROVE Inv'
  BY <1>7 DEF vars, TypeOK, OneDetectionPerGroup
<1> QED BY <1>1, <1>2, <1>3, <1>4, <1>5, <1>6, <1>7 DEF Next

LEMMA InvAlways == Spec => []Inv
BY InvInit, InvNext, PTL DEF Spec

\* Whatever runs, every block is one the detections can lead to, at a place there is,
\* and a release leaves no drop rule behind that the mitigator's books do not have.
THEOREM FloodTypeCorrect == Spec => []TypeOK
<1>1. Inv => TypeOK
  BY DEF Inv
<1> QED BY <1>1, InvAlways, PTL

\* For any traffic, thresholds and numbers of stalled flows, the volumetric detections
\* and the two kinds of LOW_SLOW of a cycle never share an identity: no decision is
\* taken on the sum of two views of the same packets.
THEOREM OneDetection == Spec => []OneDetectionPerGroup
<1>1. Inv => OneDetectionPerGroup
  BY DEF Inv
<1> QED BY <1>1, InvAlways, PTL

-----------------------------------------------------------------------------
(* A loud flood is detected *)

\* Rates of sources and of protocols are numbers.
LEMMA RateType ==
  ASSUME NEW events, IsFiniteSet(events), \A e \in events : e.pps \in Nat
  PROVE  PpsOf(events) \in Nat
<1> DEFINE f == [e \in events |-> e.pps]
<1>1. f \in [events -> Nat]
  OBVIOUS
<1> HIDE DEF f
<1>2. SumFunction(f) \in Nat
  BY <1>1, SumType
<1> QED BY <1>2 DEF PpsOf, f

\* There are finitely many sources, so one of them is dominant.
LEMMA SomeDominant ==
  ASSUME NEW events, IsFiniteSet(events), events # {}, \A e \in events : e.pps \in Nat
  PROVE  Dominant(events) # {}
<1> DEFINE sources == SourcesOf(events)
           src == [e \in events |-> e.src]
           rate == [s \in sources |-> PpsOfSource(events, s)]
<1>1. src \in Surjection(events, sources)
  BY DEF Surjection, SourcesOf
<1>2. IsFiniteSet(sources) /\ sources # {}
  BY <1>1, FS_Surjection DEF SourcesOf
<1>3. ASSUME NEW s \in sources PROVE PpsOfSource(events, s) \in Nat
  <2> DEFINE own == {e \in events : e.src = s}
  <2>1. IsFiniteSet(own) /\ \A e \in own : e.pps \in Nat
    BY FS_Subset
  <2> HIDE DEF own
  <2>2. PpsOf(own) \in Nat
    BY <2>1, RateType
  <2> QED BY <2>2 DEF PpsOfSource, own
<1>4. rate \in [sources -> Nat]
  BY <1>3
<1> HIDE DEF sources
<1>5. PICK s \in sources : \A t \in sources : rate[s] >= rate[t]
  <2> HIDE DEF rate
  <2> QED BY <1>2, <1>4, Greatest
<1>6. s \in Dominant(events)
  BY <1>5 DEF Dominant, sources
<1> QED BY <1>6

\* _build_result always has a result, of the type it is given or DDOS_DISTRIBUTED.
LEMMA BuildResultGives ==
  ASSUME NEW events, IsFiniteSet(events), events # {}, \A e \in events : e.pps \in Nat,
         NEW threshold, NEW type
  PROVE  BuildResult(events, threshold, type) # {}
<1>1. CASE IsSpread(events)
  BY <1>1 DEF BuildResult, Representatives
<1>2. CASE ~IsSpread(events)
  <2>1. PICK s \in Dominant(events) : TRUE
    BY SomeDominant
  <2>2. PICK e \in events : e.src = s
    BY <2>1 DEF Dominant, SourcesOf
  <2> DEFINE d == SingleSource(e, type, (1000 * PpsOf(events)) \div threshold)
  <2>3. d \in {SingleSource(f, type, (1000 * PpsOf(events)) \div threshold) :
                f \in {g \in events : g.src = s}}
    BY <2>2
  <2> HIDE DEF d
  <2>4. d \in BuildResult(events, threshold, type)
    BY <1>2, <2>3 DEF BuildResult, Representatives
  <2> QED BY <2>4
<1> QED BY <1>1, <1>2

\* What is found by volume is never taken for LOW_SLOW.
LEMMA ByVolume ==
  ASSUME NEW events, NEW d \in Classify(events)
  PROVE  d.type # "LOW_SLOW"
<1> DEFINE over == {i \in DOMAIN Checks :
                      PpsOf(OfProto(events, Checks[i].proto)) > Threshold[Checks[i].proto]}
           c == Checks[Min(over)]
<1>1. CASE over = {}
  <2>1. d \in ClassifyDistributed(events)
    BY <1>1 DEF Classify
  <2> QED BY <2>1 DEF ClassifyDistributed, Distributed
<1>2. CASE over # {}
  <2>1. d \in BuildResult(OfProto(events, c.proto), Threshold[c.proto], c.type)
    BY <1>2 DEF Classify
  <2>2. over \subseteq {1, 2, 3}
    BY DEF Checks
  <2>3. Min(over) \in {1, 2, 3}
    <3>1. PICK i \in over : \A j \in over : i <= j
      <4>1. over \subseteq Nat
        BY <2>2
      <4> HIDE DEF over
      <4> QED BY <1>2, <4>1, SmallestNumber
    <3>2. Min(over) \in over
      BY <3>1 DEF Min
    <3> QED BY <2>2, <3>2
  <2> HIDE DEF over
  <2>4. c.type # "LOW_SLOW"
    BY <2>3 DEF Checks
  <2> DEFINE those == OfProto(events, c.proto)
             score == (1000 * PpsOf(those)) \div Threshold[c.proto]
  <2>5. CASE IsSpread(those)
    <3>1. PICK e \in those :
            d = Distributed(e, SourcesOf(those), score, NormalizedEntropy(those))
      BY <2>1, <2>5 DEF BuildResult, Representatives
    <3> QED BY <3>1 DEF Distributed
  <2>6. CASE ~IsSpread(those)
    <3>1. PICK s \in Dominant(those) : \E e \in {f \in those : f.src = s} :
            d = SingleSource(e, c.type, score)
      BY <2>1, <2>6 DEF BuildResult, Representatives
    <3>2. PICK e \in {f \in those : f.src = s} : d = SingleSource(e, c.type, score)
      BY <3>1
    <3>3. d.type = c.type
      BY <3>2 DEF SingleSource
    <3> QED BY <2>4, <3>3
  <2> QED BY <2>5, <2>6
<1> QED BY <1>1, <1>2

\* If the events of one protocol are over its threshold, _classify has a result, which
\* may be of another protocol that is, too.
LEMMA ClassifyGives ==
  ASSUME NEW events, IsFiniteSet(events), \A e \in events : e.pps \in Nat,
         NEW proto \in DOMAIN Threshold, PpsOf(OfProto(events, proto)) > Threshold[proto]
  PROVE  Classify(events) # {}
<1> DEFINE over == {i \in DOMAIN Checks :
                      PpsOf(OfProto(events, Checks[i].proto)) > Threshold[Checks[i].proto]}
           c == Checks[Min(over)]
           those == OfProto(events, c.proto)
<1>1. over \subseteq {1, 2, 3} /\ over # {}
  <2>1. \E i \in DOMAIN Checks : Checks[i].proto = proto
    BY SettingsAssumption DEF Checks
  <2> QED BY <2>1 DEF Checks
<1>2. Min(over) \in over
  <2>0. over \subseteq Nat
    BY <1>1
  <2> HIDE DEF over
  <2>1. PICK i \in over : \A j \in over : i <= j
    BY <1>1, <2>0, SmallestNumber
  <2> QED BY <2>1 DEF Min
<1>3. Min(over) \in DOMAIN Checks /\ PpsOf(those) > Threshold[c.proto]
  BY <1>2
<1>4. c.proto \in DOMAIN Threshold
  <2> HIDE DEF over
  <2> QED BY <1>3, SettingsAssumption DEF Checks
<1>5. Threshold[c.proto] \in Nat \ {0}
  BY <1>4, SettingsAssumption
<1>6. IsFiniteSet(those) /\ \A e \in those : e.pps \in Nat
  BY FS_Subset DEF OfProto
<1>7. those # {}
  <2> SUFFICES ASSUME those = {} PROVE FALSE
    OBVIOUS
  <2> DEFINE none == [e \in those |-> e.pps]
  <2>1. none = [e \in those |-> 0]
    OBVIOUS
  <2> HIDE DEF none
  <2>2. SumFunction(none) = 0
    <3> HIDE DEF those
    <3> QED BY <1>6, <2>1, SumZero
  <2>3. PpsOf(those) = 0
    BY <2>2 DEF PpsOf, none
  <2> HIDE DEF those, c
  <2> QED BY <1>3, <1>5, <2>3
<1>8. BuildResult(those, Threshold[c.proto], c.type) # {}
  <2> HIDE DEF those, c
  <2> QED BY <1>6, <1>7, BuildResultGives
<1> QED BY <1>1, <1>8 DEF Classify

\* The events of a cycle are finite in number, each with the rate of a flood.
LEMMA EventsFinite ==
  ASSUME NEW readings \in SUBSET Readings
  PROVE  IsFiniteSet(EventsOf(readings)) /\ \A e \in EventsOf(readings) : e.pps \in Nat
<1> DEFINE Of(r) == {EventOf(r, s) : s \in r.flood.srcs}
           parts == {Of(r) : r \in readings}
<1>1. ASSUME NEW r \in readings PROVE IsFiniteSet(Of(r))
  <2> DEFINE event == [s \in r.flood.srcs |-> EventOf(r, s)]
  <2>1. event \in Surjection(r.flood.srcs, Of(r))
    BY DEF Surjection
  <2>2. IsFiniteSet(r.flood.srcs)
    BY FloodsAssumption DEF Readings
  <2> HIDE DEF event, Of
  <2> QED BY <2>1, <2>2, FS_Surjection
<1>2. IsFiniteSet(parts)
  <2> DEFINE part == [r \in readings |-> Of(r)]
             all == [flood : Floods, as : Floods]
             pair == [p \in Floods \X Floods |-> [flood |-> p[1], as |-> p[2]]]
  <2>1. part \in Surjection(readings, parts)
    <3> HIDE DEF Of
    <3> QED BY DEF Surjection
  <2>2. pair \in Surjection(Floods \X Floods, all)
    <3>1. pair \in [Floods \X Floods -> all]
      OBVIOUS
    <3>2. ASSUME NEW r \in all PROVE \E p \in Floods \X Floods : pair[p] = r
      <4>1. <<r.flood, r.as>> \in Floods \X Floods
        OBVIOUS
      <4>2. pair[<<r.flood, r.as>>] = r
        BY <4>1
      <4> QED BY <4>1, <4>2
    <3> HIDE DEF pair, all
    <3> QED BY <3>1, <3>2 DEF Surjection
  <2>3. IsFiniteSet(Floods \X Floods)
    BY FloodsAssumption, FS_Product
  <2>4. IsFiniteSet(all)
    <3> HIDE DEF pair, all
    <3> QED BY <2>2, <2>3, FS_Surjection
  <2>5. IsFiniteSet(readings)
    BY <2>4, FS_Subset DEF Readings
  <2> HIDE DEF part, parts
  <2> QED BY <2>1, <2>5, FS_Surjection
<1>3. \A p \in parts : IsFiniteSet(p)
  BY <1>1
<1>4. EventsOf(readings) = UNION parts
  BY DEF EventsOf, EventOf
<1>5. IsFiniteSet(UNION parts)
  <2> HIDE DEF parts
  <2> QED BY <1>2, <1>3, FS_UNION
<1>6. ASSUME NEW e \in EventsOf(readings) PROVE e.pps \in Nat
  <2>1. PICK r \in readings : e \in Of(r)
    BY DEF EventsOf, EventOf
  <2>2. e.pps = r.flood.pps
    BY <2>1 DEF EventOf
  <2> QED BY <2>2, FloodsAssumption DEF Readings
<1> QED BY <1>4, <1>5, <1>6

\* A flood's part of the telemetry is its rate for each of its sources.
LEMMA FloodCounts ==
  ASSUME NEW readings \in SUBSET Readings, NEW r \in readings
  PROVE  PpsOf(OfProto(EventsOf(readings), r.as.proto))
           >= r.flood.pps * Cardinality(r.flood.srcs)
<1> DEFINE those == OfProto(EventsOf(readings), r.as.proto)
           own == {EventOf(r, s) : s \in r.flood.srcs}
           event == [s \in r.flood.srcs |-> EventOf(r, s)]
           rate == [e \in those |-> e.pps]
<1>0. r.flood \in Floods
  BY DEF Readings
<1>1. IsFiniteSet(those) /\ \A e \in those : e.pps \in Nat
  BY EventsFinite, FS_Subset DEF OfProto
<1>2. own \subseteq EventsOf(readings)
  BY DEF EventsOf, EventOf
<1>3. own \subseteq those
  BY <1>2 DEF OfProto, EventOf
<1>4. event \in Surjection(r.flood.srcs, own) /\ event \in Injection(r.flood.srcs, own)
  <2>1. \A s, t \in r.flood.srcs : EventOf(r, s) = EventOf(r, t) => s = t
    BY DEF EventOf
  <2> QED BY <2>1 DEF Surjection, Injection, IsInjective
<1>5. Cardinality(own) = Cardinality(r.flood.srcs)
  <2>1. IsFiniteSet(r.flood.srcs)
    BY <1>0, FloodsAssumption
  <2> HIDE DEF event, own
  <2> QED BY <1>4, <2>1, FS_Surjection
<1>6. rate \in [those -> Nat] /\ \A e \in own : rate[e] >= r.flood.pps /\ r.flood.pps \in Nat
  <2>1. r.flood.pps \in Nat
    BY <1>0, FloodsAssumption
  <2>2. \A e \in own : e.pps = r.flood.pps
    BY DEF EventOf
  <2> HIDE DEF those, own
  <2> QED BY <1>1, <1>3, <2>1, <2>2
<1> HIDE DEF those, own, rate
<1>7. r.flood.pps \in Nat
  BY <1>0, FloodsAssumption
<1>8. SumFunction(rate) >= r.flood.pps * Cardinality(own)
  BY <1>1, <1>3, <1>6, <1>7, SumAtLeast
<1> QED BY <1>5, <1>8 DEF PpsOf, those, rate

\* So analyze() names the destination of a loud flood that goes by its own label.
LEMMA LoudIsAnalyzed ==
  ASSUME NEW readings \in SUBSET Readings, NEW ds \in Analyze(readings),
         NEW r \in readings, r.as = r.flood, Loud(r.flood)
  PROVE  \E d \in ds : d.dst = r.flood.dst /\ d.type # "LOW_SLOW"
<1> DEFINE same == {x \in readings : x.flood.dst = r.flood.dst}
           events == EventsOf(same)
           candidates ==
             UNION {Classify(EventsOf({x \in readings : x.flood.dst = d})) :
                      d \in {x.flood.dst : x \in readings}}
           f == r.flood
<1>1. same \in SUBSET Readings /\ r \in same /\ f \in Floods
  BY DEF Readings
<1>2. IsFiniteSet(events) /\ \A e \in events : e.pps \in Nat
  <2> HIDE DEF same
  <2> QED BY <1>1, EventsFinite
<1>3. PpsOf(OfProto(events, f.proto)) > Threshold[f.proto] /\ f.proto \in DOMAIN Threshold
  <2>1. PpsOf(OfProto(events, f.proto)) >= f.pps * Cardinality(f.srcs)
    <3> HIDE DEF same
    <3> QED BY <1>1, FloodCounts
  <2>2. IsFiniteSet(OfProto(events, f.proto)) /\ \A e \in OfProto(events, f.proto) : e.pps \in Nat
    <3> HIDE DEF events
    <3> QED BY <1>2, FS_Subset DEF OfProto
  <2>3. PpsOf(OfProto(events, f.proto)) \in Nat
    <3> HIDE DEF events
    <3> QED BY <2>2, RateType
  <2>4. f.pps * Cardinality(f.srcs) \in Nat
    BY <1>1, FloodsAssumption, FS_CardinalityType
  <2>5. Threshold[f.proto] \in Nat
    BY SettingsAssumption DEF Loud
  <2> HIDE DEF events
  <2> QED BY <2>1, <2>3, <2>4, <2>5 DEF Loud
<1>4. PICK c \in Classify(events) : TRUE
  <2> HIDE DEF events, f
  <2> QED BY <1>2, <1>3, ClassifyGives
<1>5. c.dst = f.dst
  <2>1. PICK e \in events : TakenFrom(c, e)
    BY <1>4, ClassifyTakesEvents
  <2>2. e.dst = f.dst
    BY <2>1 DEF EventsOf
  <2> QED BY <2>1, <2>2 DEF TakenFrom
<1>6. c \in candidates
  BY <1>4
<1>7. PICK d \in ds : d.dst = c.dst
  BY <1>6 DEF Analyze
<1>8. d \in candidates
  BY <1>7 DEF Analyze
<1>9. d.type # "LOW_SLOW"
  BY <1>8, ByVolume
<1> QED BY <1>5, <1>7, <1>9

\* Whatever is reported together, on one destination or several and the same pair's
\* other traffic included, a flood over its own protocol's threshold that is reported
\* under its own label brings about a detection by volume on its destination (_classify,
\* analyze in detection/engine.py): a weaker one may take its name and its place in the
\* decision (claim_mixed), but never the alarm itself.  Only the label may.
THEOREM LoudFloodsDetected == Spec => NoLoudFloodPassedOver
<1> DEFINE Detected == \A r \in reported \ reported' : r.as = r.flood => Noticed(r)
<1>1. TypeOK /\ [Next]_vars => [Detected]_vars
  <2> SUFFICES ASSUME TypeOK, Next PROVE Detected
    OBVIOUS
  <2>1. CASE reported \subseteq reported'
    BY <2>1
  <2>2. CASE Cycle
    <3> SUFFICES ASSUME NEW r \in reported, r.as = r.flood, Loud(r.flood)
                 PROVE  \E d \in detections' : d.dst = r.flood.dst /\ d.type # "LOW_SLOW"
      BY DEF Noticed
    <3>1. PICK volumetric \in Analyze(reported) :
            \E ds \in WithLowSlow(volumetric) : Concludes(ds)
      BY <2>2, CycleConcludes
    <3>2. PICK ds \in WithLowSlow(volumetric) : Concludes(ds)
      BY <3>1
    <3>3. reported \in SUBSET Readings
      BY DEF TypeOK
    <3>4. PICK low, single : Kinds(volumetric, low, single, ds)
      BY <3>3, KindsOfDetections
    <3>5. volumetric \subseteq detections'
      BY <3>2, <3>4 DEF Kinds, Concludes
    <3>6. \E d \in volumetric : d.dst = r.flood.dst /\ d.type # "LOW_SLOW"
      BY <3>3, LoudIsAnalyzed
    <3> QED BY <3>5, <3>6
  <2>3. Cycle \/ reported \subseteq reported'
    <3> USE DEF telemetry
    <3>1. ASSUME NEW f \in Floods,
                 \/ Start(f) \/ Stop(f) \/ FlowStats(f) \/ ForgetLabel(f) \/ ForgetPorts(f)
          PROVE  reported \subseteq reported'
      BY <3>1 DEF Start, Stop, FlowStats, ForgetLabel, ForgetPorts
    <3>2. ASSUME NEW f \in Floods, NEW onHostPort \in BOOLEAN, NEW windowed \in BOOLEAN,
                 PacketIn(f, onHostPort, windowed)
          PROVE  reported \subseteq reported'
      BY <3>2 DEF PacketIn
    <3>3. ASSUME NEW k \in Keys, Release(k) \/ \E p \in Places : Measure(k, p)
          PROVE  reported \subseteq reported'
      BY <3>3 DEF Release, Measure
    <3> QED BY <3>1, <3>2, <3>3 DEF Next
  <2> QED BY <2>1, <2>2, <2>3
<1> QED BY <1>1, FloodTypeCorrect, PTL DEF Spec, NoLoudFloodPassedOver

=============================================================================
