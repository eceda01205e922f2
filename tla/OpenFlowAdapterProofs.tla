------------------------ MODULE OpenFlowAdapterProofs ------------------------
(***************************************************************************)
(* Proofs about FlowCollector, as OpenFlowAdapter drives it, for any       *)
(* switches, flows and numbers of packets and replies: the collector never *)
(* reports more than the switches forwarded, and skips nothing of a rule   *)
(* while it lives.                                                         *)
(***************************************************************************)
EXTENDS OpenFlowAdapter, TLAPS

\* All packets of the flow on its switch, up to the moment of a snapshot.
UpTo(x) == x.before + x.packets

\* y was taken of the same life of an entry as x, or of a later one.
Follows(x, y) ==
  \/ x.before = y.before /\ x.packets <= y.packets
  \/ UpTo(x) <= y.before

\* The last sample of a flow, the snapshots on their way and the entry itself stand in
\* the order they were taken in.
InOrder(s, f) ==
  /\ table[s][f] # None => UpTo(table[s][f]) = passed[s][f]
  /\ prevFlows[s][f] # None =>
       /\ UpTo(prevFlows[s][f]) <= passed[s][f]
       /\ table[s][f] # None => Follows(prevFlows[s][f], table[s][f])
  /\ \A i \in 1 .. Len(replies[s]) : replies[s][i][f] # None =>
       /\ UpTo(replies[s][i][f]) <= passed[s][f]
       /\ table[s][f] # None => Follows(replies[s][i][f], table[s][f])
       /\ prevFlows[s][f] # None => Follows(prevFlows[s][f], replies[s][i][f])
  /\ \A i, j \in 1 .. Len(replies[s]) :
       i < j /\ replies[s][i][f] # None /\ replies[s][j][f] # None =>
         Follows(replies[s][i][f], replies[s][j][f])

\* What has been reported ends with the last sample, and is exact while an entry lives.
WithinSample(s, f) ==
  /\ prevFlows[s][f] = None => reported[s][f] = 0
  /\ prevFlows[s][f] # None =>
       /\ Kind[f] = "ip"
       /\ reported[s][f] <= UpTo(prevFlows[s][f])
       /\ reported[s][f] = prevFlows[s][f].base + prevFlows[s][f].packets

Inv ==
  /\ CollectorTypeOK
  /\ \A s \in Switches, f \in Flows : InOrder(s, f) /\ WithinSample(s, f)

-----------------------------------------------------------------------------
LEMMA FollowsTransitive ==
  ASSUME NEW x \in Entry \cup Sample, x # None, NEW y \in Entry \cup Sample, y # None,
         NEW z \in Entry \cup Sample, z # None, Follows(x, y), Follows(y, z)
  PROVE  Follows(x, z)
BY DEF Follows, UpTo, Entry, Sample

LEMMA InitInv == Init => Inv
<1> SUFFICES ASSUME Init PROVE Inv
  OBVIOUS
<1>1. CollectorTypeOK
  BY DEF Init, CollectorInit, CollectorTypeOK
<1>2. ASSUME NEW s \in Switches, NEW f \in Flows PROVE InOrder(s, f) /\ WithinSample(s, f)
  BY DEF Init, CollectorInit, InOrder, WithinSample
<1> QED BY <1>1, <1>2 DEF Inv

\* What a snapshot is, wherever it is met.
LEMMA Snapshots ==
  ASSUME Inv, NEW s \in Switches, NEW f \in Flows
  PROVE  /\ table[s][f] \in Entry \cup {None}
         /\ prevFlows[s][f] \in Sample \cup {None}
         /\ passed[s][f] \in Nat
         /\ reported[s][f] \in Nat
         /\ replies[s] \in Seq([Flows -> Entry \cup {None}])
         /\ \A i \in 1 .. Len(replies[s]) : replies[s][i][f] \in Entry \cup {None}
<1>1. replies[s] \in Seq([Flows -> Entry \cup {None}])
  BY DEF Inv, CollectorTypeOK
<1>2. \A i \in 1 .. Len(replies[s]) : replies[s][i] \in [Flows -> Entry \cup {None}]
  BY <1>1
<1> QED BY <1>1, <1>2 DEF Inv, CollectorTypeOK

\* A new entry starts where all that was counted before it ends.
LEMMA InstallStep ==
  ASSUME Inv, NEW s \in Switches, NEW f \in Flows, Install(s, f)
  PROVE  Inv'
<1> DEFINE fresh == [packets |-> 0, before |-> passed[s][f]]
<1>1. fresh \in Entry /\ UpTo(fresh) = passed[s][f]
  BY Snapshots DEF Entry, UpTo
<1>2. CollectorTypeOK'
  BY <1>1 DEF Inv, CollectorTypeOK, Install
<1>3. ASSUME NEW t \in Switches, NEW g \in Flows
      PROVE  InOrder(t, g)' /\ WithinSample(t, g)'
  <2> USE Snapshots
  <2>1. WithinSample(t, g)'
    BY DEF Inv, WithinSample, Install
  <2>2. CASE t = s /\ g = f
    <3>1. table'[t][g] = fresh
      BY <2>2 DEF Install, Inv, CollectorTypeOK
    <3>2. ASSUME NEW x \in Entry \cup Sample, UpTo(x) <= passed[s][f]
          PROVE  Follows(x, fresh)
      BY <3>2 DEF Follows
    <3> QED
      BY <1>1, <2>1, <2>2, <3>1, <3>2 DEF Inv, InOrder, Install
  <2>3. CASE ~(t = s /\ g = f)
    <3>1. table'[t][g] = table[t][g]
      BY <2>3 DEF Install, Inv, CollectorTypeOK
    <3> QED
      BY <2>1, <3>1 DEF Inv, InOrder, Install
  <2> QED BY <2>2, <2>3
<1> QED BY <1>2, <1>3 DEF Inv

LEMMA ExpireStep ==
  ASSUME Inv, NEW s \in Switches, NEW f \in Flows, Expire(s, f)
  PROVE  Inv'
<1>1. CollectorTypeOK'
  BY DEF Inv, CollectorTypeOK, Expire
<1>2. ASSUME NEW t \in Switches, NEW g \in Flows
      PROVE  InOrder(t, g)' /\ WithinSample(t, g)'
  <2>1. table'[t][g] \in {table[t][g], None}
    BY DEF Expire, Inv, CollectorTypeOK
  <2> QED
    BY <2>1 DEF Inv, InOrder, WithinSample, Expire
<1> QED BY <1>1, <1>2 DEF Inv

LEMMA CountStep ==
  ASSUME Inv, NEW s \in Switches, NEW f \in Flows, Count(s, f)
  PROVE  Inv'
<1> USE Snapshots
<1> DEFINE e == table[s][f]
           more == [e EXCEPT !.packets = @ + 1]
<1>1. e \in Entry /\ more \in Entry /\ more.before = e.before /\ more.packets = e.packets + 1
  BY DEF Count, Entry
<1>2. table' = [table EXCEPT ![s][f] = more]
  BY DEF Count
<1>some. e # None /\ more # None
  BY <1>1, CollectorAssumption DEF Count
<1> HIDE DEF more
<1>3. CollectorTypeOK'
  <2>1. table' \in [Switches -> [Flows -> Entry \cup {None}]]
    BY <1>1, <1>2 DEF Inv, CollectorTypeOK
  <2>2. passed' \in [Switches -> [Flows -> Nat]]
    BY DEF Inv, CollectorTypeOK, Count
  <2> QED BY <2>1, <2>2 DEF Inv, CollectorTypeOK, Count
<1>4. ASSUME NEW t \in Switches, NEW g \in Flows
      PROVE  InOrder(t, g)' /\ WithinSample(t, g)'
  <2>1. WithinSample(t, g)'
    BY DEF Inv, WithinSample, Count
  <2>2. CASE t = s /\ g = f
    <3>1. table'[t][g] = more
      BY <1>2, <2>2 DEF Inv, CollectorTypeOK
    <3>counted. passed'[t][g] = passed[t][g] + 1
      BY <2>2 DEF Count, Inv, CollectorTypeOK
    <3>2. UpTo(more) = UpTo(e) + 1
      BY <1>1 DEF UpTo, Entry
    <3>3. ASSUME NEW x \in Entry \cup Sample, Follows(x, e)
          PROVE  Follows(x, more)
      BY <1>1, <3>3 DEF Follows, UpTo, Entry, Sample
    <3>4. ASSUME NEW x \in Entry \cup Sample, UpTo(x) <= passed[t][g]
          PROVE  UpTo(x) <= passed'[t][g]
      BY <3>counted, <3>4 DEF UpTo, Entry, Sample
    <3>5. InOrder(t, g) /\ table[t][g] = e
      BY <2>2 DEF Inv
    <3>6. UNCHANGED <<replies, prevFlows>>
      BY DEF Count
    <3>7. UpTo(more) = passed'[t][g]
      BY <1>some, <3>counted, <3>2, <3>5 DEF InOrder
    <3>8. prevFlows[t][g] # None =>
            UpTo(prevFlows[t][g]) <= passed'[t][g] /\ Follows(prevFlows[t][g], more)
      BY <1>some, <3>3, <3>4, <3>5 DEF InOrder
    <3>9. ASSUME NEW i \in 1 .. Len(replies[t]), replies[t][i][g] # None
          PROVE  UpTo(replies[t][i][g]) <= passed'[t][g] /\ Follows(replies[t][i][g], more)
      BY <1>some, <3>3, <3>4, <3>5, <3>9 DEF InOrder
    <3>10. InOrder(t, g)'
      BY <3>1, <3>5, <3>6, <3>7, <3>8, <3>9 DEF InOrder
    <3> QED
      BY <2>1, <3>10
  <2>3. CASE ~(t = s /\ g = f)
    <3>1. table'[t][g] = table[t][g] /\ passed'[t][g] = passed[t][g]
      BY <1>2, <2>3 DEF Count, Inv, CollectorTypeOK
    <3> QED
      BY <2>1, <3>1 DEF Inv, InOrder, Count
  <2> QED BY <2>1, <2>2, <2>3
<1> QED BY <1>3, <1>4 DEF Inv

LEMMA SpaceStep ==
  ASSUME Inv, NEW s \in Switches, NEW f \in Flows, Space(s, f)
  PROVE  Inv'
<1> USE Snapshots
<1> DEFINE p == prevFlows[s][f]
           spaced == [p EXCEPT !.spaced = TRUE]
<1>1. /\ p \in Sample /\ spaced \in Sample
      /\ spaced.before = p.before /\ spaced.packets = p.packets /\ spaced.base = p.base
  BY DEF Space, Sample
<1>2. prevFlows' = [prevFlows EXCEPT ![s][f] = spaced]
  BY DEF Space
<1>3. CollectorTypeOK'
  BY <1>1, <1>2 DEF Inv, CollectorTypeOK, Space, switchVars
<1>4. ASSUME NEW t \in Switches, NEW g \in Flows
      PROVE  InOrder(t, g)' /\ WithinSample(t, g)'
  <2>1. CASE t = s /\ g = f
    <3>1. prevFlows'[t][g] = spaced /\ spaced # None /\ p # None
      BY <1>1, <1>2, <2>1, CollectorAssumption DEF Inv, CollectorTypeOK
    <3> QED
      BY <1>1, <2>1, <3>1 DEF Inv, InOrder, WithinSample, Follows, UpTo, Space, switchVars
  <2>2. CASE ~(t = s /\ g = f)
    <3>1. prevFlows'[t][g] = prevFlows[t][g]
      BY <1>2, <2>2 DEF Inv, CollectorTypeOK
    <3> QED
      BY <3>1 DEF Inv, InOrder, WithinSample, Space, switchVars
  <2> QED BY <2>1, <2>2
<1> QED BY <1>3, <1>4 DEF Inv

\* A snapshot goes to the end of the queue; the entries it shows are the latest.
LEMMA AnswerStep ==
  ASSUME Inv, NEW s \in Switches, Answer(s)
  PROVE  Inv'
<1> USE Snapshots
<1>1. /\ replies[s] \in Seq([Flows -> Entry \cup {None}])
      /\ table[s] \in [Flows -> Entry \cup {None}]
  BY DEF Inv, CollectorTypeOK
<1>2. replies' = [replies EXCEPT ![s] = Append(replies[s], table[s])]
  BY DEF Answer
<1>3. UNCHANGED <<table, passed, prevFlows, reported>>
  BY DEF Answer
<1>4. CollectorTypeOK'
  <2>1. Append(replies[s], table[s]) \in Seq([Flows -> Entry \cup {None}])
    BY <1>1
  <2> QED BY <1>2, <1>3, <2>1 DEF Inv, CollectorTypeOK
<1>5. ASSUME NEW t \in Switches, NEW f \in Flows
      PROVE  InOrder(t, f)' /\ WithinSample(t, f)'
  <2>1. InOrder(t, f) /\ WithinSample(t, f)
    BY DEF Inv
  <2>2. WithinSample(t, f)'
    BY <1>3, <2>1 DEF WithinSample
  <2>3. CASE t = s
    <3> DEFINE n == Len(replies[s])
    <3>1. n \in Nat
      BY <1>1
    <3>2. Len(replies'[t]) = n + 1 /\ replies'[t][n + 1] = table[s]
      BY <1>1, <1>2, <2>3 DEF Inv, CollectorTypeOK
    <3>3. \A i \in 1 .. n : replies'[t][i] = replies[t][i]
      BY <1>1, <1>2, <2>3 DEF Inv, CollectorTypeOK
    <3>4. ASSUME table[t][f] # None
          PROVE  UpTo(table[t][f]) <= passed[t][f] /\ Follows(table[t][f], table[t][f])
      BY <2>1, <3>4 DEF InOrder, Follows, Entry
    <3>5. ASSUME NEW i \in 1 .. n + 1, replies'[t][i][f] # None
          PROVE  /\ UpTo(replies'[t][i][f]) <= passed[t][f]
                 /\ table[t][f] # None => Follows(replies'[t][i][f], table[t][f])
                 /\ prevFlows[t][f] # None => Follows(prevFlows[t][f], replies'[t][i][f])
      <4>1. CASE i \in 1 .. n
        BY <2>1, <2>3, <3>3, <3>5, <4>1 DEF InOrder
      <4>2. CASE i = n + 1
        BY <2>1, <2>3, <3>2, <3>4, <3>5, <4>2 DEF InOrder
      <4> QED BY <3>1, <4>1, <4>2
    <3>6. ASSUME NEW i \in 1 .. n + 1, NEW j \in 1 .. n + 1, i < j,
                 replies'[t][i][f] # None, replies'[t][j][f] # None
          PROVE  Follows(replies'[t][i][f], replies'[t][j][f])
      <4>1. i \in 1 .. n
        BY <3>1, <3>6
      <4>2. CASE j \in 1 .. n
        BY <2>1, <2>3, <3>3, <3>6, <4>1, <4>2 DEF InOrder
      <4>3. CASE j = n + 1
        BY <2>3, <3>2, <3>5, <3>6, <4>3
      <4> QED BY <3>1, <4>2, <4>3
    <3>7. InOrder(t, f)'
      BY <1>3, <2>1, <3>2, <3>5, <3>6 DEF InOrder
    <3> QED BY <2>2, <3>7
  <2>4. CASE t # s
    <3>1. replies'[t] = replies[t]
      BY <1>2, <2>4 DEF Inv, CollectorTypeOK
    <3> QED BY <1>3, <2>1, <2>2, <3>1 DEF InOrder
  <2> QED BY <2>3, <2>4
<1> QED BY <1>4, <1>5 DEF Inv

LEMMA LoseStep ==
  ASSUME Inv, NEW s \in Switches, LoseReplies(s)
  PROVE  Inv'
<1>1. CollectorTypeOK'
  BY DEF Inv, CollectorTypeOK, LoseReplies
<1>2. ASSUME NEW t \in Switches, NEW f \in Flows
      PROVE  InOrder(t, f)' /\ WithinSample(t, f)'
  <2>1. replies'[t] \in {replies[t], <<>>}
    BY DEF Inv, CollectorTypeOK, LoseReplies
  <2>2. UNCHANGED <<table, passed, prevFlows, reported>>
    BY DEF LoseReplies
  <2>3. InOrder(t, f) /\ WithinSample(t, f)
    BY DEF Inv
  <2>4. CASE replies'[t] = replies[t]
    BY <2>2, <2>3, <2>4 DEF InOrder, WithinSample
  <2>5. CASE replies'[t] = <<>>
    <3>1. Len(replies'[t]) = 0
      BY <2>5
    <3> QED BY <2>2, <2>3, <3>1 DEF InOrder, WithinSample
  <2> QED BY <2>1, <2>4, <2>5
<1> QED BY <1>1, <1>2 DEF Inv

\* The arithmetic of one flow: its sample prev, what has been reported of it, and the
\* entry a reply shows.
LEMMA KeptSample ==
  ASSUME NEW s \in Switches, NEW f \in Flows, NEW entry \in Entry \cup {None},
         KeepsSample(s, f, entry)
  PROVE  Delta(s, f, entry) = 0
BY DEF KeepsSample, IsTooSoon, Delta, IsReported

\* What has been found since a sample, on top of what had been.
LEMMA SumsUp ==
  ASSUME NEW base \in Int, NEW before \in Int, NEW now \in Int
  PROVE  (base + before) + (now - before) = base + now
OBVIOUS

LEMMA MovedOn ==
  ASSUME NEW told \in Nat, NEW pb \in Nat, NEW pp \in Nat, NEW eb \in Nat, NEW ep \in Nat,
         told <= pb + pp, pp <= ep, pb = eb \/ pb + pp <= eb
  PROVE  /\ ep - pp \in Nat
         /\ told + (ep - pp) \in Nat
         /\ told + (ep - pp) <= eb + ep
OBVIOUS

LEMMA MovedSample ==
  ASSUME Inv, NEW s \in Switches, NEW f \in Flows, NEW entry \in Entry \cup {None},
         ~KeepsSample(s, f, entry),
         entry # None /\ prevFlows[s][f] # None => Follows(prevFlows[s][f], entry)
  PROVE  /\ Kind[f] = "ip" /\ entry \in Entry
         /\ Delta(s, f, entry) \in Nat
         /\ Resampled(s, f, entry) \in Sample
         /\ Resampled(s, f, entry).before = entry.before
         /\ Resampled(s, f, entry).packets = entry.packets
         /\ reported[s][f] + Delta(s, f, entry) <= UpTo(entry)
         /\ reported[s][f] + Delta(s, f, entry)
              = Resampled(s, f, entry).base + entry.packets
<1> USE Snapshots
<1> DEFINE prev == prevFlows[s][f]
           known == reported[s][f] + Delta(s, f, entry)
           moved == Resampled(s, f, entry)
<1>1. entry # None /\ entry \in Entry /\ Kind[f] = "ip" /\ (prev = None \/ prev.spaced)
  BY DEF KeepsSample, IsTooSoon, IsMeasured
<1>2. /\ entry.packets \in Nat /\ entry.before \in Nat /\ reported[s][f] \in Nat
      /\ prev # None => prev.packets \in Nat /\ prev.before \in Nat /\ prev.base \in Int
  BY <1>1 DEF Entry, Sample
<1>3. WithinSample(s, f)
  BY DEF Inv
<1>4. /\ moved.before = entry.before /\ moved.packets = entry.packets
      /\ moved.spaced = FALSE
      /\ moved.base = IF prev # None /\ prev.before = entry.before
                      THEN prev.base ELSE known - entry.packets
      /\ moved = [packets |-> entry.packets, before |-> entry.before, spaced |-> FALSE,
                  base |-> moved.base]
  BY DEF Resampled
<1>5. CASE prev = None
  <2>1. Delta(s, f, entry) = 0 /\ reported[s][f] = 0
    BY <1>3, <1>5 DEF Delta, IsReported, WithinSample
  <2>2. moved.base \in Int /\ known = moved.base + entry.packets
    BY <1>2, <1>4, <1>5, <2>1
  <2>3. moved \in Sample
    BY <1>2, <1>4, <2>2 DEF Sample
  <2> QED BY <1>1, <1>2, <1>4, <2>1, <2>2, <2>3 DEF UpTo
<1>6. CASE prev # None /\ entry.packets >= prev.packets
  <2>1. Delta(s, f, entry) = entry.packets - prev.packets
    BY <1>1, <1>6 DEF Delta, IsMeasured, IsReported, Found
  <2>2. Follows(prev, entry) /\ reported[s][f] <= UpTo(prev)
        /\ reported[s][f] = prev.base + prev.packets
    BY <1>1, <1>3, <1>6, CollectorAssumption DEF WithinSample
  <2>3. known \in Int /\ known <= UpTo(entry) /\ Delta(s, f, entry) \in Nat
    <3>1. /\ prev.packets \in Nat /\ prev.before \in Nat
          /\ prev.packets <= entry.packets
      BY <1>2, <1>6
    <3>2. prev.before = entry.before \/ prev.before + prev.packets <= entry.before
      BY <2>2 DEF Follows, UpTo
    <3>3. reported[s][f] <= prev.before + prev.packets
      BY <2>2 DEF UpTo
    <3>4. /\ entry.packets - prev.packets \in Nat
          /\ reported[s][f] + (entry.packets - prev.packets) \in Nat
          /\ reported[s][f] + (entry.packets - prev.packets) <= entry.before + entry.packets
      BY <1>2, <3>1, <3>2, <3>3, MovedOn
    <3>5. UpTo(entry) = entry.before + entry.packets
      BY DEF UpTo
    <3> HIDE Snapshots
    <3> QED BY <2>1, <3>4, <3>5
  <2>4. moved.base \in Int /\ known = moved.base + entry.packets
    <3>1. known = (prev.base + prev.packets) + (entry.packets - prev.packets)
      BY <2>1, <2>2
    <3>2. prev.packets \in Nat /\ prev.base \in Int /\ entry.packets \in Nat
      BY <1>2, <1>6
    <3>3. known = prev.base + entry.packets
      BY <3>1, <3>2, SumsUp
    <3>4. moved.base = IF prev.before = entry.before THEN prev.base
                       ELSE known - entry.packets
      BY <1>4, <1>6
    <3> HIDE Snapshots DEF moved, known, prev
    <3>5. CASE prev.before = entry.before
      BY <3>2, <3>3, <3>4, <3>5
    <3>6. CASE prev.before # entry.before
      BY <2>3, <3>2, <3>4, <3>6
    <3> QED BY <3>5, <3>6
  <2>5. moved \in Sample
    BY <1>2, <1>4, <2>4 DEF Sample
  <2> QED BY <1>1, <1>4, <2>3, <2>4, <2>5
<1>7. CASE prev # None /\ entry.packets < prev.packets
  <2>1. Delta(s, f, entry) = 0
    BY <1>2, <1>7 DEF Delta, IsReported
  <2>2. Follows(prev, entry) /\ reported[s][f] <= UpTo(prev)
    BY <1>1, <1>3, <1>7, CollectorAssumption DEF WithinSample
  <2>3. UpTo(prev) <= entry.before /\ prev.before # entry.before
    BY <1>2, <1>7, <2>2 DEF Follows, UpTo
  <2>4. known \in Int /\ known <= UpTo(entry)
    BY <1>2, <1>7, <2>1, <2>2, <2>3 DEF UpTo
  <2>5. moved.base \in Int /\ known = moved.base + entry.packets
    BY <1>2, <1>4, <2>3, <2>4
  <2>6. moved \in Sample
    BY <1>2, <1>4, <2>5 DEF Sample
  <2> QED BY <1>1, <1>4, <2>1, <2>4, <2>5, <2>6
<1> QED BY <1>2, <1>5, <1>6, <1>7

\* A reply is processed: every flow's sample stays or moves on to the reply's snapshot,
\* and what is reported of it lies between the two.
LEMMA ProcessStep ==
  ASSUME Inv, NEW s \in Switches, ProcessStats(s)
  PROVE  Inv'
<1> USE Snapshots
<1> DEFINE body == replies[s][1]
<1>1. replies[s] \in Seq([Flows -> Entry \cup {None}]) /\ replies[s] # <<>>
  BY DEF Inv, CollectorTypeOK, ProcessStats
<1>2. /\ Len(replies[s]) \in Nat \ {0}
      /\ Head(replies[s]) = body
      /\ body \in [Flows -> Entry \cup {None}]
  BY <1>1
<1>3. UNCHANGED <<table, passed>>
  BY DEF ProcessStats
<1>4. \A t \in Switches, f \in Flows :
        /\ t # s => /\ prevFlows'[t][f] = prevFlows[t][f]
                    /\ reported'[t][f] = reported[t][f]
                    /\ replies'[t] = replies[t]
        /\ prevFlows'[s][f] = IF KeepsSample(s, f, body[f]) THEN prevFlows[s][f]
                              ELSE Resampled(s, f, body[f])
        /\ reported'[s][f] = reported[s][f] + Delta(s, f, body[f])
  BY <1>2 DEF Inv, CollectorTypeOK, ProcessStats
<1>5. replies'[s] = Tail(replies[s])
  BY DEF Inv, CollectorTypeOK, ProcessStats
<1>6. \A f \in Flows :
        body[f] # None => /\ body[f] \in Entry
                          /\ UpTo(body[f]) <= passed[s][f]
                          /\ table[s][f] # None => Follows(body[f], table[s][f])
                          /\ prevFlows[s][f] # None => Follows(prevFlows[s][f], body[f])
  <2> TAKE f \in Flows
  <2>1. InOrder(s, f) /\ 1 \in 1 .. Len(replies[s])
    BY <1>2 DEF Inv
  <2> QED BY <1>2, <2>1 DEF InOrder
<1>7. \A i \in 1 .. Len(replies'[s]) :
        /\ i \in Nat /\ i + 1 \in 1 .. Len(replies[s])
        /\ replies'[s][i] = replies[s][i + 1]
  BY <1>1, <1>2, <1>5
<1>order. ASSUME NEW f \in Flows, InOrder(s, f),
             \A i \in 1 .. Len(replies'[s]) :
               replies'[s][i][f] # None /\ prevFlows'[s][f] # None =>
                 Follows(prevFlows'[s][f], replies'[s][i][f]),
             prevFlows'[s][f] # None =>
               /\ UpTo(prevFlows'[s][f]) <= passed[s][f]
               /\ table[s][f] # None => Follows(prevFlows'[s][f], table[s][f])
      PROVE  InOrder(s, f)'
  <2>1. ASSUME NEW i \in 1 .. Len(replies'[s]), NEW j \in 1 .. Len(replies'[s]), i < j,
               replies'[s][i][f] # None, replies'[s][j][f] # None
        PROVE  Follows(replies'[s][i][f], replies'[s][j][f])
    <3>1. /\ i + 1 \in 1 .. Len(replies[s]) /\ replies'[s][i] = replies[s][i + 1]
          /\ j + 1 \in 1 .. Len(replies[s]) /\ replies'[s][j] = replies[s][j + 1]
          /\ i + 1 < j + 1
      BY <1>7, <2>1
    <3> QED BY <1>order, <2>1, <3>1 DEF InOrder
  <2>2. ASSUME NEW i \in 1 .. Len(replies'[s]), replies'[s][i][f] # None
        PROVE  /\ UpTo(replies'[s][i][f]) <= passed[s][f]
               /\ table[s][f] # None => Follows(replies'[s][i][f], table[s][f])
    BY <1>7, <1>order, <2>2 DEF InOrder
  <2> QED BY <1>3, <1>order, <2>1, <2>2 DEF InOrder
<1>8. ASSUME NEW f \in Flows
      PROVE  /\ prevFlows'[s][f] \in Sample \cup {None}
             /\ reported'[s][f] \in Nat
             /\ InOrder(s, f)'
             /\ WithinSample(s, f)'
  <2>1. InOrder(s, f) /\ WithinSample(s, f)
    BY DEF Inv
  <2>2. CASE KeepsSample(s, f, body[f])
    <3>1. prevFlows'[s][f] = prevFlows[s][f] /\ reported'[s][f] = reported[s][f]
      BY <1>2, <1>4, <2>2, KeptSample
    <3>2. \A i \in 1 .. Len(replies'[s]) :
            replies'[s][i][f] # None /\ prevFlows'[s][f] # None =>
              Follows(prevFlows'[s][f], replies'[s][i][f])
      BY <1>7, <2>1, <3>1 DEF InOrder
    <3>3. InOrder(s, f)'
      BY <1>order, <2>1, <3>1, <3>2 DEF InOrder
    <3> QED BY <2>1, <3>1, <3>3 DEF WithinSample
  <2>3. CASE ~KeepsSample(s, f, body[f])
    <3> DEFINE moved == prevFlows'[s][f]
    <3>1. moved = Resampled(s, f, body[f])
      BY <1>4, <2>3
    <3>2. /\ Kind[f] = "ip" /\ body[f] \in Entry
          /\ Delta(s, f, body[f]) \in Nat
          /\ moved \in Sample
          /\ moved.before = body[f].before /\ moved.packets = body[f].packets
          /\ reported'[s][f] <= UpTo(body[f])
          /\ reported'[s][f] = moved.base + body[f].packets
      BY <1>2, <1>4, <1>6, <2>3, <3>1, MovedSample
    <3>3. moved # None /\ body[f] # None
      BY <3>2, CollectorAssumption
    <3>4. UpTo(moved) = UpTo(body[f])
      BY <3>2 DEF UpTo
    <3>5. ASSUME NEW z \in Entry, Follows(body[f], z)
          PROVE  Follows(moved, z)
      BY <3>2, <3>4, <3>5 DEF Follows
    <3>6. WithinSample(s, f)'
      BY <3>2, <3>3, <3>4 DEF WithinSample
    <3>7. ASSUME NEW i \in 1 .. Len(replies'[s]), replies'[s][i][f] # None
          PROVE  Follows(moved, replies'[s][i][f])
      <4>1. i + 1 \in 1 .. Len(replies[s]) /\ replies'[s][i] = replies[s][i + 1]
        BY <1>7
      <4>2. 1 \in 1 .. Len(replies[s]) /\ 1 < i + 1
        BY <1>2, <4>1
      <4>3. replies'[s][i][f] \in Entry
        BY <3>7, <4>1
      <4>4. Follows(body[f], replies'[s][i][f])
        BY <2>1, <3>3, <3>7, <4>1, <4>2 DEF InOrder
      <4> QED BY <3>5, <4>3, <4>4
    <3>8. /\ UpTo(moved) <= passed[s][f]
          /\ table[s][f] # None => Follows(moved, table[s][f])
      BY <1>6, <3>3, <3>4, <3>5
    <3>9. InOrder(s, f)'
      BY <1>order, <2>1, <3>7, <3>8
    <3> QED BY <1>4, <3>2, <3>6, <3>9
  <2> QED BY <2>2, <2>3
<1>9. CollectorTypeOK'
  <2>1. replies' \in [Switches -> Seq([Flows -> Entry \cup {None}])]
    BY <1>1 DEF Inv, CollectorTypeOK, ProcessStats
  <2>2. prevFlows' \in [Switches -> [Flows -> Sample \cup {None}]]
    <3>1. prevFlows' = [prevFlows EXCEPT ![s] = [f \in Flows |-> prevFlows'[s][f]]]
      BY DEF Inv, CollectorTypeOK, ProcessStats
    <3> QED BY <1>8, <3>1 DEF Inv, CollectorTypeOK
  <2>3. reported' \in [Switches -> [Flows -> Nat]]
    <3>1. reported' = [reported EXCEPT ![s] = [f \in Flows |-> reported'[s][f]]]
      BY DEF Inv, CollectorTypeOK, ProcessStats
    <3> QED BY <1>8, <3>1 DEF Inv, CollectorTypeOK
  <2> QED BY <1>3, <2>1, <2>2, <2>3 DEF Inv, CollectorTypeOK
<1>10. ASSUME NEW t \in Switches, t # s, NEW f \in Flows
       PROVE  InOrder(t, f)' /\ WithinSample(t, f)'
  <2>1. UNCHANGED <<table[t][f], passed[t][f], prevFlows[t][f], reported[t][f], replies[t]>>
    BY <1>3, <1>4, <1>10
  <2>2. InOrder(t, f) /\ WithinSample(t, f)
    BY DEF Inv
  <2> QED BY <2>1, <2>2 DEF InOrder, WithinSample
<1> QED BY <1>8, <1>9, <1>10 DEF Inv

LEMMA NextInv == Inv /\ [Next]_vars => Inv'
<1> SUFFICES ASSUME Inv, [Next]_vars PROVE Inv'
  OBVIOUS
<1>1. CASE UNCHANGED collectorVars
  BY <1>1 DEF Inv, CollectorTypeOK, InOrder, WithinSample, collectorVars, switchVars
<1>2. CASE Tables
  BY <1>2, InstallStep, ExpireStep, CountStep, SpaceStep, AnswerStep, LoseStep DEF Tables
<1>3. ASSUME NEW s \in Switches, OnFlowStats(s) PROVE Inv'
  BY <1>3, ProcessStep DEF OnFlowStats
<1>4. ASSUME NEW p \in Pairs, NEW label \in Labels, OnPacketIn(p, label)
      PROVE  UNCHANGED collectorVars
  BY <1>4 DEF OnPacketIn
<1>5. CASE Collect
  BY <1>1, <1>5 DEF Collect
<1>6. ASSUME NEW p \in Pairs, MetaExpires(p) \/ OlderExpires(p)
      PROVE  UNCHANGED collectorVars
  BY <1>6 DEF MetaExpires, OlderExpires
<1>7. CASE UNCHANGED vars
  BY <1>1, <1>7 DEF vars
<1> QED
  BY <1>1, <1>2, <1>3, <1>4, <1>5, <1>6, <1>7 DEF Next

LEMMA AlwaysInv == Spec => []Inv
BY InitInv, NextInv, PTL DEF Spec

\* The collector never reports more packets of a flow on a switch than its rules have
\* forwarded there, and none of a drop rule, for any interleaving of reinstallations,
\* late replies and lost ones.
THEOREM NeverOvercounted == Spec => []NeverOvercounts
<1>1. Inv => NeverOvercounts
  <2> SUFFICES ASSUME Inv, NEW s \in Switches, NEW f \in Flows
               PROVE  reported[s][f] <= IF Kind[f] = "drop" THEN 0 ELSE passed[s][f]
    BY DEF NeverOvercounts
  <2>1. InOrder(s, f) /\ WithinSample(s, f)
    BY DEF Inv
  <2>2. reported[s][f] \in Nat /\ passed[s][f] \in Nat
    BY Snapshots
  <2>3. CASE prevFlows[s][f] = None
    BY <2>1, <2>2, <2>3 DEF WithinSample
  <2>4. CASE prevFlows[s][f] # None
    <3>1. UpTo(prevFlows[s][f]) \in Nat
      BY <2>4, Snapshots DEF UpTo, Sample
    <3> QED BY <2>1, <2>2, <2>4, <3>1 DEF WithinSample, InOrder
  <2> QED BY <2>3, <2>4
<1> QED BY <1>1, AlwaysInv, PTL

\* While an entry lives, all its counter has grown by since it was first sampled has
\* been reported, up to the last sample.
THEOREM NothingIsSkipped == Spec => []NothingSkipped
<1>1. Inv => NothingSkipped
  BY DEF Inv, WithinSample, NothingSkipped
<1> QED BY <1>1, AlwaysInv, PTL

=============================================================================
