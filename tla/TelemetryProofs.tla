--------------------------- MODULE TelemetryProofs ---------------------------
(***************************************************************************)
(* Proofs about OpenFlowAdapter, for any switches, flows, labels and       *)
(* numbers of packets and replies: what the pipeline collects of a pair    *)
(* adds up to what the collectors report of it, and no traffic of the      *)
(* tables is given a label that no recent packet of the pair had.          *)
(***************************************************************************)
EXTENDS OpenFlowAdapterProofs, SumProofs

\* The label that goes on a pair's traffic is that of its last packet within the TTL.
LabelIsLast ==
  \A p \in Pairs : meta[p] # None /\ meta[p].fresh =>
    Len(sighted[p]) > 0 /\ sighted[p][Len(sighted[p])] = meta[p].label

-----------------------------------------------------------------------------
LEMMA Finite ==
  /\ IsFiniteSet(Switches)
  /\ IsFiniteSet(Tags)
  /\ IsFiniteSet(Windowed!Windows)
<1>1. IsFiniteSet(Switches) /\ IsFiniteSet(Flows) /\ IsFiniteSet(Labels)
  BY AdapterAssumption
<1>2. IsFiniteSet(Tags)
  BY <1>1, FS_AddElement DEF Tags
<1>3. IsFiniteSet(Pairs)
  BY <1>1, FS_Subset DEF Pairs
<1>4. IsFiniteSet({DstOf[p] : p \in Pairs})
  <2> DEFINE dst == [p \in Pairs |-> DstOf[p]]
  <2>1. dst \in [Pairs -> {DstOf[p] : p \in Pairs}]
    OBVIOUS
  <2>2. \A d \in {DstOf[p] : p \in Pairs} : \E p \in Pairs : dst[p] = d
    OBVIOUS
  <2>3. dst \in Surjection(Pairs, {DstOf[p] : p \in Pairs})
    BY <2>1, <2>2 DEF Surjection
  <2> QED BY <1>3, <2>3, FS_Surjection
<1>5. IsFiniteSet(Windowed!Windows)
  BY <1>1, <1>4, FS_Product DEF Windowed!Windows
<1> QED BY <1>1, <1>2, <1>5

\* What a reply adds to a flow is never negative.
LEMMA DeltaType ==
  ASSUME CollectorTypeOK, NEW s \in Switches, NEW f \in Flows,
         NEW entry \in Entry \cup {None}
  PROVE  Delta(s, f, entry) \in Nat
<1>1. prevFlows[s][f] \in Sample \cup {None}
  BY DEF CollectorTypeOK
<1>2. CASE entry # None /\ IsMeasured(f) /\ IsReported(prevFlows[s][f], entry)
  <2>1. entry.packets \in Nat /\ prevFlows[s][f].packets \in Nat
        /\ entry.packets >= prevFlows[s][f].packets
    BY <1>1, <1>2 DEF Entry, Sample, IsReported
  <2> QED BY <1>2, <2>1 DEF Delta, Found
<1> QED BY <1>2 DEF Delta

\* What a packet counts in its window, and what it reports.
LEMMA WindowTypes ==
  ASSUME Windowed!WindowTypeOK, NEW p \in Pairs, NEW label \in Labels
  PROVE  /\ <<DstOf[p], label>> \in Windowed!Windows
         /\ Windowed!NoPackets \in [Pairs -> Nat]
         /\ Windowed!Counted(p, label) \in [Pairs -> Nat]
         /\ Windowed!Result(p, label) \in [Pairs -> Nat]
<1> DEFINE w == <<DstOf[p], label>>
<1>1. w \in Windowed!Windows
  BY DEF Windowed!Windows
<1>2. Windowed!NoPackets \in [Pairs -> Nat]
  BY DEF Windowed!NoPackets
<1>3. Windowed!Counted(p, label) \in [Pairs -> Nat]
  BY <1>1 DEF Windowed!Counted, Windowed!WindowTypeOK
<1> QED BY <1>1, <1>2, <1>3 DEF Windowed!Result

LEMMA PendingType ==
  ASSUME pending \in [Pairs \X Tags -> Nat], NEW p \in Pairs
  PROVE  /\ [l \in Tags |-> pending[<<p, l>>]] \in [Tags -> Nat]
         /\ PendingOf(p) \in Nat
<1>1. [l \in Tags |-> pending[<<p, l>>]] \in [Tags -> Nat]
  OBVIOUS
<1> QED BY <1>1, Finite, SumType DEF PendingOf

-----------------------------------------------------------------------------
\* The type of what the adapter and the windows keep.
AdapterTypeOK ==
  /\ Windowed!WindowTypeOK
  /\ meta \in [Pairs -> [label : Labels, fresh : BOOLEAN] \cup {None}]
  /\ sighted \in [Pairs -> Seq(Labels)]
  /\ cameUp \in [Pairs -> Nat]
  /\ pending \in [Pairs \X Tags -> Nat]
  /\ collected \in [Pairs -> Nat]

LEMMA PacketInType ==
  ASSUME AdapterTypeOK, NEW p \in Pairs, NEW label \in Labels, OnPacketIn(p, label)
  PROVE  AdapterTypeOK'
<1> USE DEF AdapterTypeOK
<1>1. Windowed!WindowTypeOK'
  <2>1. \A w \in Windowed!Windows :
          srcPackets'[w] \in [Pairs -> Nat] /\ age'[w] \in {"absent", "young", "over"}
    BY WindowTypes DEF OnPacketIn, Windowed!ProcessPacket, Windowed!WindowTypeOK
  <2>2. /\ srcPackets' = [w \in Windowed!Windows |-> srcPackets'[w]]
        /\ age' = [w \in Windowed!Windows |-> age'[w]]
    BY DEF OnPacketIn, Windowed!ProcessPacket, Windowed!WindowTypeOK
  <2> QED BY <2>1, <2>2 DEF Windowed!WindowTypeOK
<1>2. meta' \in [Pairs -> [label : Labels, fresh : BOOLEAN] \cup {None}]
  BY DEF OnPacketIn, RememberFlowMeta
<1>3. sighted' \in [Pairs -> Seq(Labels)]
  BY DEF OnPacketIn
<1>4. cameUp' \in [Pairs -> Nat]
  BY DEF OnPacketIn
<1>5. pending' \in [Pairs \X Tags -> Nat]
  <2>1. \A e \in Pairs \X Tags : /\ e[1] \in Pairs
                                 /\ pending[e] \in Nat
                                 /\ Windowed!Result(p, label)[e[1]] \in Nat
    BY WindowTypes
  <2>2. \A e \in Pairs \X Tags : pending[e] + Windowed!Result(p, label)[e[1]] \in Nat
    BY <2>1
  <2> QED BY <2>1, <2>2 DEF OnPacketIn
<1> QED BY <1>1, <1>2, <1>3, <1>4, <1>5 DEF OnPacketIn

LEMMA FlowStatsType ==
  ASSUME AdapterTypeOK, CollectorTypeOK, NEW s \in Switches, OnFlowStats(s)
  PROVE  /\ Head(replies[s]) \in [Flows -> Entry \cup {None}]
         /\ AdapterTypeOK'
<1> USE DEF AdapterTypeOK
<1>1. Head(replies[s]) \in [Flows -> Entry \cup {None}]
  <2>1. replies[s] \in Seq([Flows -> Entry \cup {None}]) /\ replies[s] # <<>>
    BY DEF OnFlowStats, ProcessStats, CollectorTypeOK
  <2> QED BY <2>1
<1>2. \A e \in Pairs \X Tags : pending[e] + Delta(s, e[1], Head(replies[s])[e[1]]) \in Nat
  <2> TAKE e \in Pairs \X Tags
  <2>1. e[1] \in Flows /\ pending[e] \in Nat
    BY DEF Pairs
  <2>2. Delta(s, e[1], Head(replies[s])[e[1]]) \in Nat
    BY <1>1, <2>1, DeltaType
  <2> QED BY <2>1, <2>2
<1>3. pending' \in [Pairs \X Tags -> Nat]
  BY <1>2 DEF OnFlowStats
<1> QED BY <1>1, <1>3 DEF OnFlowStats, windowVars, metaVars, Windowed!WindowTypeOK

LEMMA CollectType ==
  ASSUME AdapterTypeOK, Collect
  PROVE  AdapterTypeOK'
<1>1. \A p \in Pairs : collected[p] + PendingOf(p) \in Nat
  <2> TAKE p \in Pairs
  <2>1. PendingOf(p) \in Nat /\ collected[p] \in Nat
    BY PendingType DEF AdapterTypeOK
  <2> QED BY <2>1
<1>2. collected' \in [Pairs -> Nat]
  BY <1>1 DEF Collect
<1>3. pending' \in [Pairs \X Tags -> Nat]
  BY DEF Collect
<1> QED
  BY <1>2, <1>3 DEF Collect, AdapterTypeOK, windowVars, metaVars, Windowed!WindowTypeOK

LEMMA ExpiryType ==
  ASSUME AdapterTypeOK, NEW p \in Pairs, MetaExpires(p) \/ OlderExpires(p)
  PROVE  AdapterTypeOK'
<1> USE DEF AdapterTypeOK
<1>1. Windowed!WindowTypeOK'
  BY DEF MetaExpires, OlderExpires, windowVars, Windowed!WindowTypeOK
<1>2. CASE MetaExpires(p)
  <2>1. meta' \in [Pairs -> [label : Labels, fresh : BOOLEAN] \cup {None}]
    BY <1>2 DEF MetaExpires
  <2>2. sighted' \in [Pairs -> Seq(Labels)]
    BY <1>2 DEF MetaExpires
  <2> QED BY <1>1, <1>2, <2>1, <2>2 DEF MetaExpires, eventVars
<1>3. CASE OlderExpires(p)
  <2>1. sighted' \in [Pairs -> Seq(Labels)]
    BY <1>3 DEF OlderExpires
  <2> QED BY <1>1, <1>3, <2>1 DEF OlderExpires, eventVars
<1> QED BY <1>2, <1>3

LEMMA SecondType ==
  ASSUME AdapterTypeOK, NEW w \in Windowed!Windows, Windowed!SecondPasses(w),
         UNCHANGED <<collectorVars, metaVars, eventVars>>
  PROVE  AdapterTypeOK'
BY DEF AdapterTypeOK, metaVars, eventVars, Windowed!SecondPasses, Windowed!WindowTypeOK

LEMMA AdapterTypeStep ==
  ASSUME AdapterTypeOK, CollectorTypeOK, [Next]_vars
  PROVE  AdapterTypeOK'
<1>1. ASSUME UNCHANGED <<windowVars, metaVars, eventVars>>
      PROVE  AdapterTypeOK'
  BY <1>1 DEF AdapterTypeOK, windowVars, metaVars, eventVars, Windowed!WindowTypeOK
<1>2. CASE Tables /\ UNCHANGED <<windowVars, metaVars, eventVars>>
  BY <1>1, <1>2
<1>3. ASSUME NEW s \in Switches, OnFlowStats(s) PROVE AdapterTypeOK'
  BY <1>3, FlowStatsType
<1>4. ASSUME NEW p \in Pairs, NEW label \in Labels, OnPacketIn(p, label)
      PROVE  AdapterTypeOK'
  BY <1>4, PacketInType
<1>5. ASSUME NEW w \in Windowed!Windows, Windowed!SecondPasses(w),
             UNCHANGED <<collectorVars, metaVars, eventVars>>
      PROVE  AdapterTypeOK'
  BY <1>5, SecondType
<1>6. CASE Collect
  BY <1>6, CollectType
<1>7. ASSUME NEW p \in Pairs, MetaExpires(p) \/ OlderExpires(p) PROVE AdapterTypeOK'
  BY <1>7, ExpiryType
<1>8. CASE UNCHANGED vars
  BY <1>1, <1>8 DEF vars
<1> QED BY <1>2, <1>3, <1>4, <1>5, <1>6, <1>7, <1>8 DEF Next

\* Every counter of the pipeline is a number and every label in it a packet's label or
\* "IP" (collectors/ and telemetry/openflow_adapter.py).
THEOREM TelemetryTypeCorrect == Spec => []TypeOK
<1>1. Init => AdapterTypeOK
  BY DEF Init, AdapterTypeOK, Windowed!WindowInit, Windowed!WindowTypeOK, Windowed!NoPackets
<1>2. Inv => CollectorTypeOK
  BY DEF Inv
<1>3. AdapterTypeOK /\ Inv /\ [Next]_vars => AdapterTypeOK'
  BY <1>2, AdapterTypeStep
<1>4. AdapterTypeOK /\ Inv => TypeOK
  BY <1>2 DEF AdapterTypeOK, TypeOK
<1> QED BY <1>1, <1>3, <1>4, AlwaysInv, PTL DEF Spec

-----------------------------------------------------------------------------
(* The sums, as the handlers change them *)

LEMMA WindowsType ==
  ASSUME Windowed!WindowTypeOK, NEW p \in Pairs
  PROVE  /\ [w \in Windowed!Windows |-> srcPackets[w][p]] \in [Windowed!Windows -> Nat]
         /\ InWindows(p) \in Nat
<1>1. [w \in Windowed!Windows |-> srcPackets[w][p]] \in [Windowed!Windows -> Nat]
  BY DEF Windowed!WindowTypeOK
<1> QED BY <1>1, Finite, SumType DEF InWindows

LEMMA FromTablesType ==
  ASSUME reported \in [Switches -> [Flows -> Nat]], NEW p \in Pairs
  PROVE  /\ [s \in Switches |-> reported[s][p]] \in [Switches -> Nat]
         /\ FromTables(p) \in Nat
<1>1. [s \in Switches |-> reported[s][p]] \in [Switches -> Nat]
  BY DEF Pairs
<1> QED BY <1>1, Finite, SumType DEF FromTables

\* More packets under one label of a pair.
LEMMA MorePending ==
  ASSUME pending \in [Pairs \X Tags -> Nat], NEW p \in Pairs, NEW tag \in Tags, NEW n \in Nat,
         \A l \in Tags : pending'[<<p, l>>] = IF l = tag THEN pending[<<p, l>>] + n ELSE pending[<<p, l>>]
  PROVE  PendingOf(p)' = PendingOf(p) + n
<1> DEFINE old == [l \in Tags |-> pending[<<p, l>>]]
           new == [l \in Tags |-> pending'[<<p, l>>]]
<1>1. /\ old \in [Tags -> Int] /\ new \in [Tags -> Int]
      /\ \A l \in Tags \ {tag} : new[l] = old[l]
      /\ new[tag] - old[tag] = n
  OBVIOUS
<1>2. PendingOf(p) = SumFunction(old) /\ PendingOf(p)' = SumFunction(new)
  BY DEF PendingOf
<1> HIDE DEF old, new
<1>3. SumFunction(new) = SumFunction(old) + (new[tag] - old[tag])
  BY <1>1, Finite, SumChange
<1> QED BY <1>1, <1>2, <1>3

\* Other packets of a pair in one window.
LEMMA OtherWindow ==
  ASSUME Windowed!WindowTypeOK, NEW p \in Pairs, NEW w \in Windowed!Windows,
         NEW n \in Nat,
         \A v \in Windowed!Windows : srcPackets'[v][p] = IF v = w THEN n ELSE srcPackets[v][p]
  PROVE  InWindows(p)' = InWindows(p) + (n - srcPackets[w][p])
<1> DEFINE old == [v \in Windowed!Windows |-> srcPackets[v][p]]
           new == [v \in Windowed!Windows |-> srcPackets'[v][p]]
<1>1. old \in [Windowed!Windows -> Int]
  BY WindowsType
<1>2. /\ new \in [Windowed!Windows -> Int]
      /\ \A v \in Windowed!Windows \ {w} : new[v] = old[v]
      /\ new[w] = n /\ old[w] = srcPackets[w][p]
  BY <1>1
<1>3. InWindows(p) = SumFunction(old) /\ InWindows(p)' = SumFunction(new)
  BY DEF InWindows, Windowed!Windows
<1> HIDE DEF old, new
<1>4. SumFunction(new) = SumFunction(old) + (new[w] - old[w])
  BY <1>1, <1>2, Finite, SumChange
<1> QED BY <1>2, <1>3, <1>4

\* More packets reported by one switch.
LEMMA MoreReported ==
  ASSUME reported \in [Switches -> [Flows -> Nat]], NEW p \in Pairs, NEW s \in Switches,
         NEW n \in Nat,
         \A t \in Switches :
           reported'[t][p] = IF t = s THEN reported[t][p] + n ELSE reported[t][p]
  PROVE  FromTables(p)' = FromTables(p) + n
<1> DEFINE old == [t \in Switches |-> reported[t][p]]
           new == [t \in Switches |-> reported'[t][p]]
<1>1. old \in [Switches -> Int] /\ old[s] \in Nat
  BY FromTablesType
<1>2. /\ new \in [Switches -> Int]
      /\ \A t \in Switches \ {s} : new[t] = old[t]
      /\ new[s] - old[s] = n
  BY <1>1
<1>3. FromTables(p) = SumFunction(old) /\ FromTables(p)' = SumFunction(new)
  BY DEF FromTables
<1> HIDE DEF old, new
<1>4. SumFunction(new) = SumFunction(old) + (new[s] - old[s])
  BY <1>1, <1>2, Finite, SumChange
<1> QED BY <1>2, <1>3, <1>4

-----------------------------------------------------------------------------
(* Nothing lost, nothing told twice *)

AddsUp(p) == collected[p] + PendingOf(p) + InWindows(p) = FromTables(p) + cameUp[p]

\* All of an account's numbers.
LEMMA AccountType ==
  ASSUME AdapterTypeOK, CollectorTypeOK, NEW p \in Pairs
  PROVE  /\ collected[p] \in Nat /\ PendingOf(p) \in Nat /\ InWindows(p) \in Nat
         /\ FromTables(p) \in Nat /\ cameUp[p] \in Nat
<1>1. collected[p] \in Nat /\ cameUp[p] \in Nat
  BY DEF AdapterTypeOK
<1>2. pending \in [Pairs \X Tags -> Nat] /\ Windowed!WindowTypeOK
      /\ reported \in [Switches -> [Flows -> Nat]]
  BY DEF AdapterTypeOK, CollectorTypeOK
<1> QED BY <1>1, <1>2, PendingType, WindowsType, FromTablesType

\* What leaves the window is told, but for what is still in it.
LEMMA Moved ==
  ASSUME NEW c \in Nat, NEW pend \in Nat, NEW wins \in Nat, NEW tabs \in Nat, NEW up \in Nat,
         NEW before \in Nat, NEW one \in Nat, NEW told \in Nat, NEW kept \in Nat,
         told + kept = before + one, c + pend + wins = tabs + up
  PROVE  c + (pend + told) + (wins + (kept - before)) = tabs + (up + one)
OBVIOUS

\* A packet is counted in its window, and when it closes it the window's whole count
\* moves to the pending events.
LEMMA PacketInAddsUp ==
  ASSUME AdapterTypeOK, CollectorTypeOK, NEW p \in Pairs, NEW label \in Labels,
         OnPacketIn(p, label), NEW q \in Pairs, AddsUp(q)
  PROVE  AddsUp(q)'
<1> DEFINE w == <<DstOf[p], label>>
           one == IF q = p THEN 1 ELSE 0
           before == srcPackets[w][q]
           told == IF age[w] = "over" THEN before + one ELSE 0
           kept == IF age[w] = "over" THEN 0 ELSE before + one
<1>1. Windowed!WindowTypeOK /\ pending \in [Pairs \X Tags -> Nat] /\ cameUp \in [Pairs -> Nat]
  BY DEF AdapterTypeOK
<1>2. w \in Windowed!Windows /\ label \in Tags
  BY <1>1, WindowTypes DEF Tags
<1>3. before \in Nat /\ told \in Nat /\ kept \in Nat /\ one \in Nat
      /\ told + kept = before + one
  BY <1>1, <1>2 DEF Windowed!WindowTypeOK
<1>4. Windowed!Counted(p, label)[q] = before + one
  BY <1>1, <1>2 DEF Windowed!Counted, Windowed!WindowTypeOK
<1>5. Windowed!NoPackets[q] = 0
  BY DEF Windowed!NoPackets
<1>6. Windowed!Result(p, label)[q] = told
  BY <1>4, <1>5 DEF Windowed!Result
<1>7. \A v \in Windowed!Windows : srcPackets'[v][q] = IF v = w THEN kept ELSE srcPackets[v][q]
  BY <1>1, <1>2, <1>4, <1>5 DEF OnPacketIn, Windowed!ProcessPacket, Windowed!WindowTypeOK
<1>8. \A l \in Tags :
        pending'[<<q, l>>] = IF l = label THEN pending[<<q, l>>] + told ELSE pending[<<q, l>>]
  BY <1>6 DEF OnPacketIn
<1>9. cameUp'[q] = cameUp[q] + one
  BY <1>1 DEF OnPacketIn
<1>10. collected'[q] = collected[q] /\ FromTables(q)' = FromTables(q)
  BY DEF OnPacketIn, collectorVars, FromTables
<1> HIDE DEF w, one, before, told, kept
<1>11. PendingOf(q)' = PendingOf(q) + told
  BY <1>1, <1>2, <1>3, <1>8, MorePending
<1>12. InWindows(q)' = InWindows(q) + (kept - srcPackets[w][q])
  BY <1>1, <1>2, <1>3, <1>7, OtherWindow
<1>13. srcPackets[w][q] = before
  BY DEF before
<1>14. /\ collected[q] \in Nat /\ PendingOf(q) \in Nat /\ InWindows(q) \in Nat
       /\ FromTables(q) \in Nat /\ cameUp[q] \in Nat
  BY AccountType
<1>15. collected[q] + PendingOf(q) + InWindows(q) = FromTables(q) + cameUp[q]
  BY DEF AddsUp
<1>16. collected[q] + (PendingOf(q) + told) + (InWindows(q) + (kept - before))
         = FromTables(q) + (cameUp[q] + one)
  <2> DEFINE c == collected[q]
             pend == PendingOf(q)
             wins == InWindows(q)
             tabs == FromTables(q)
             up == cameUp[q]
  <2>1. /\ c \in Nat /\ pend \in Nat /\ wins \in Nat /\ tabs \in Nat /\ up \in Nat
        /\ c + pend + wins = tabs + up
    BY <1>14, <1>15
  <2> HIDE DEF c, pend, wins, tabs, up
  <2>2. c + (pend + told) + (wins + (kept - before)) = tabs + (up + one)
    BY <1>3, <2>1, Moved
  <2> QED BY <2>2 DEF c, pend, wins, tabs, up
<1> QED
  BY <1>9, <1>10, <1>11, <1>12, <1>13, <1>16 DEF AddsUp

\* What a reply adds to a pair's events is what the collector reports.
LEMMA FlowStatsAddsUp ==
  ASSUME AdapterTypeOK, CollectorTypeOK, NEW s \in Switches, OnFlowStats(s),
         NEW p \in Pairs, AddsUp(p)
  PROVE  AddsUp(p)'
<1> DEFINE more == Delta(s, p, Head(replies[s])[p])
<1>1. more \in Nat
  BY FlowStatsType, DeltaType DEF Pairs
<1>2. LabelOf(p) \in Tags
  BY DEF LabelOf, Tags, AdapterTypeOK
<1>3. \A l \in Tags : pending'[<<p, l>>] = IF l = LabelOf(p) THEN pending[<<p, l>>] + more
                                           ELSE pending[<<p, l>>]
  BY DEF OnFlowStats
<1>4. \A t \in Switches :
        reported'[t][p] = IF t = s THEN reported[t][p] + more ELSE reported[t][p]
  BY DEF OnFlowStats, ProcessStats, CollectorTypeOK, Pairs
<1>5. /\ collected'[p] = collected[p] /\ cameUp'[p] = cameUp[p]
      /\ InWindows(p)' = InWindows(p)
  BY DEF OnFlowStats, windowVars, metaVars, InWindows
<1>6. pending \in [Pairs \X Tags -> Nat] /\ reported \in [Switches -> [Flows -> Nat]]
  BY DEF AdapterTypeOK, CollectorTypeOK
<1> HIDE DEF more
<1>7. PendingOf(p)' = PendingOf(p) + more
  BY <1>1, <1>2, <1>3, <1>6, MorePending
<1>8. FromTables(p)' = FromTables(p) + more
  BY <1>1, <1>4, <1>6, MoreReported
<1> QED BY <1>1, <1>5, <1>7, <1>8, AccountType DEF AddsUp

\* The monitor takes all that is pending.
LEMMA CollectAddsUp ==
  ASSUME AdapterTypeOK, CollectorTypeOK, Collect, NEW p \in Pairs, AddsUp(p)
  PROVE  AddsUp(p)'
<1>1. collected'[p] = collected[p] + PendingOf(p)
  BY DEF Collect
<1>2. cameUp'[p] = cameUp[p] /\ InWindows(p)' = InWindows(p) /\ FromTables(p)' = FromTables(p)
  BY DEF Collect, collectorVars, windowVars, metaVars, InWindows, FromTables
<1>3. PendingOf(p)' = 0
  <2> DEFINE new == [l \in Tags |-> pending'[<<p, l>>]]
  <2>1. new = [l \in Tags |-> 0]
    BY DEF Collect
  <2>2. PendingOf(p)' = SumFunction(new)
    BY DEF PendingOf
  <2> HIDE DEF new
  <2> QED BY <2>1, <2>2, Finite, SumZero
<1> QED BY <1>1, <1>2, <1>3, AccountType DEF AddsUp

LEMMA AddsUpStep ==
  ASSUME AdapterTypeOK, CollectorTypeOK, TelemetryAddsUp, [Next]_vars
  PROVE  TelemetryAddsUp'
<1> SUFFICES ASSUME NEW p \in Pairs, AddsUp(p) PROVE AddsUp(p)'
  BY DEF TelemetryAddsUp, AddsUp
<1>1. ASSUME UNCHANGED <<srcPackets, pending, collected, cameUp, reported>>
      PROVE  AddsUp(p)'
  BY <1>1 DEF AddsUp, PendingOf, InWindows, FromTables
<1>2. CASE Tables /\ UNCHANGED <<windowVars, metaVars, eventVars>>
  BY <1>1, <1>2 DEF Tables, Install, Expire, Count, Space, Answer, LoseReplies,
                    windowVars, metaVars, eventVars
<1>3. ASSUME NEW s \in Switches, OnFlowStats(s) PROVE AddsUp(p)'
  BY <1>3, FlowStatsAddsUp
<1>4. ASSUME NEW q \in Pairs, NEW label \in Labels, OnPacketIn(q, label)
      PROVE  AddsUp(p)'
  BY <1>4, PacketInAddsUp
<1>5. ASSUME NEW w \in Windowed!Windows, Windowed!SecondPasses(w),
             UNCHANGED <<collectorVars, metaVars, eventVars>>
      PROVE  AddsUp(p)'
  BY <1>1, <1>5 DEF Windowed!SecondPasses, collectorVars, metaVars, eventVars
<1>6. CASE Collect
  BY <1>6, CollectAddsUp
<1>7. ASSUME NEW q \in Pairs, MetaExpires(q) \/ OlderExpires(q) PROVE AddsUp(p)'
  BY <1>1, <1>7 DEF MetaExpires, OlderExpires, collectorVars, windowVars, eventVars
<1>8. CASE UNCHANGED vars
  BY <1>1, <1>8 DEF vars, collectorVars, windowVars, metaVars, eventVars
<1> QED BY <1>2, <1>3, <1>4, <1>5, <1>6, <1>7, <1>8 DEF Next

\* Whatever order packets, replies, windows and collections come in, what the pipeline
\* has collected and will find pending of a pair is what the collectors have reported
\* of it (telemetry/openflow_adapter.py: on_packet_in, on_flow_stats, collect).
THEOREM NothingLostOrDoubled == Spec => []TelemetryAddsUp
<1>1. Init => TelemetryAddsUp
  <2> SUFFICES ASSUME Init, NEW p \in Pairs PROVE AddsUp(p)
    BY DEF TelemetryAddsUp, AddsUp
  <2>1. collected[p] = 0 /\ cameUp[p] = 0
    BY DEF Init
  <2>2. PendingOf(p) = 0
    <3> DEFINE sums == [l \in Tags |-> pending[<<p, l>>]]
    <3>1. sums = [l \in Tags |-> 0]
      BY DEF Init
    <3>2. PendingOf(p) = SumFunction(sums)
      BY DEF PendingOf
    <3> HIDE DEF sums
    <3> QED BY <3>1, <3>2, Finite, SumZero
  <2>3. InWindows(p) = 0
    <3> DEFINE sums == [w \in Windowed!Windows |-> srcPackets[w][p]]
    <3>1. sums = [w \in Windowed!Windows |-> 0]
      BY DEF Init, Windowed!WindowInit, Windowed!NoPackets
    <3>2. InWindows(p) = SumFunction(sums)
      BY DEF InWindows
    <3> HIDE DEF sums
    <3> QED BY <3>1, <3>2, Finite, SumZero
  <2>4. FromTables(p) = 0
    <3> DEFINE sums == [s \in Switches |-> reported[s][p]]
    <3>1. sums = [s \in Switches |-> 0]
      BY DEF Init, CollectorInit, Pairs
    <3>2. FromTables(p) = SumFunction(sums)
      BY DEF FromTables
    <3> HIDE DEF sums
    <3> QED BY <3>1, <3>2, Finite, SumZero
  <2> QED BY <2>1, <2>2, <2>3, <2>4 DEF AddsUp
<1>2. TypeOK => AdapterTypeOK /\ CollectorTypeOK
  BY DEF TypeOK, AdapterTypeOK
<1>3. TypeOK /\ TelemetryAddsUp /\ [Next]_vars => TelemetryAddsUp'
  BY <1>2, AddsUpStep
<1> QED BY <1>1, <1>3, TelemetryTypeCorrect, PTL DEF Spec

-----------------------------------------------------------------------------
(* The labels *)

LEMMA LabelStep ==
  ASSUME AdapterTypeOK, LabelIsLast, [Next]_vars
  PROVE  LabelIsLast'
<1>1. ASSUME UNCHANGED metaVars PROVE LabelIsLast'
  BY <1>1 DEF LabelIsLast, metaVars
<1>2. ASSUME NEW p \in Pairs, NEW label \in Labels, OnPacketIn(p, label)
      PROVE  LabelIsLast'
  <2> SUFFICES ASSUME NEW q \in Pairs, meta'[q] # None, meta'[q].fresh
               PROVE  Len(sighted'[q]) > 0 /\ sighted'[q][Len(sighted'[q])] = meta'[q].label
    BY DEF LabelIsLast
  <2>1. CASE q = p
    <3>1. meta'[q].label = label /\ sighted'[q] = Append(sighted[q], label)
      BY <1>2, <2>1 DEF OnPacketIn, RememberFlowMeta, AdapterTypeOK
    <3>2. sighted[q] \in Seq(Labels)
      BY DEF AdapterTypeOK
    <3> QED BY <3>1, <3>2
  <2>2. CASE q # p
    <3>1. meta'[q] = meta[q] /\ sighted'[q] = sighted[q]
      BY <1>2, <2>2 DEF OnPacketIn, RememberFlowMeta, AdapterTypeOK
    <3> QED BY <3>1 DEF LabelIsLast
  <2> QED BY <2>1, <2>2
<1>3. ASSUME NEW p \in Pairs, MetaExpires(p) PROVE LabelIsLast'
  <2>1. \A q \in Pairs : q # p => meta'[q] = meta[q] /\ sighted'[q] = sighted[q]
    BY <1>3 DEF MetaExpires, AdapterTypeOK
  <2>2. meta'[p].fresh = FALSE
    BY <1>3 DEF MetaExpires, AdapterTypeOK
  <2> QED BY <2>1, <2>2 DEF LabelIsLast
<1>4. ASSUME NEW p \in Pairs, OlderExpires(p) PROVE LabelIsLast'
  <2>1. \A q \in Pairs : q # p => sighted'[q] = sighted[q]
    BY <1>4 DEF OlderExpires, AdapterTypeOK
  <2>2. sighted[p] \in Seq(Labels) /\ Len(sighted[p]) > 1 /\ sighted'[p] = Tail(sighted[p])
    BY <1>4 DEF OlderExpires, AdapterTypeOK
  <2>3. Len(sighted'[p]) > 0
        /\ sighted'[p][Len(sighted'[p])] = sighted[p][Len(sighted[p])]
    BY <2>2
  <2>4. meta' = meta
    BY <1>4 DEF OlderExpires
  <2> QED BY <2>1, <2>3, <2>4 DEF LabelIsLast
<1>5. ASSUME NEW s \in Switches, OnFlowStats(s) PROVE LabelIsLast'
  BY <1>1, <1>5 DEF OnFlowStats
<1>6. CASE Collect
  BY <1>1, <1>6 DEF Collect
<1>7. CASE UNCHANGED vars
  BY <1>1, <1>7 DEF vars
<1> QED BY <1>1, <1>2, <1>3, <1>4, <1>5, <1>6, <1>7 DEF Next

\* Only a reply changes what is reported, and what it adds goes under a recent label.
LEMMA LabelledRecently ==
  ASSUME AdapterTypeOK, CollectorTypeOK, LabelIsLast, [Next]_vars, reported' # reported,
         NEW p \in Pairs, NEW l \in Labels, pending'[<<p, l>>] > pending[<<p, l>>]
  PROVE  Contains(sighted[p], l)
<1>1. PICK s \in Switches : OnFlowStats(s)
  BY DEF Next, Tables, Install, Expire, Count, Space, Answer, LoseReplies, OnPacketIn, Collect,
         MetaExpires, OlderExpires, vars, collectorVars, eventVars
<1>2. l \in Tags /\ pending[<<p, l>>] \in Nat
  BY DEF Tags, AdapterTypeOK
<1>3. l = LabelOf(p)
  BY <1>1, <1>2 DEF OnFlowStats
<1>4. meta[p] # None /\ meta[p].fresh /\ meta[p].label = l
  BY <1>3, AdapterAssumption DEF LabelOf
<1>5. sighted[p] \in Seq(Labels) /\ Len(sighted[p]) > 0 /\ sighted[p][Len(sighted[p])] = l
  BY <1>4 DEF LabelIsLast, AdapterTypeOK
<1>6. \E i \in 1 .. Len(sighted[p]) : sighted[p][i] = l
  BY <1>5
<1> QED BY <1>6 DEF Contains

\* Traffic counted in the tables is never labelled with what no packet of its pair had
\* within the TTL (_fresh_meta, on_flow_stats).
THEOREM LabelsAreRecent == Spec => NoStaleLabel
<1>1. Init => LabelIsLast
  BY DEF Init, LabelIsLast
<1>2. TypeOK => AdapterTypeOK /\ CollectorTypeOK
  BY DEF TypeOK, AdapterTypeOK
<1>3. TypeOK /\ LabelIsLast /\ [Next]_vars => LabelIsLast'
  BY <1>2, LabelStep
<1> DEFINE Step == reported' # reported =>
                     \A p \in Pairs, l \in Labels :
                       pending'[<<p, l>>] > pending[<<p, l>>] => Contains(sighted[p], l)
<1>4. TypeOK /\ LabelIsLast /\ [Next]_vars => [Step]_vars
  BY <1>2, LabelledRecently
<1> QED BY <1>1, <1>3, <1>4, TelemetryTypeCorrect, PTL DEF Spec, NoStaleLabel

=============================================================================
