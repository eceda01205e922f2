------------------------- MODULE OrchestrationProofs -------------------------
(***************************************************************************)
(* Safety of Orchestration for every set of switches, hosts and keys.      *)
(*                                                                         *)
(* The inductive invariant is IInv: the types, the agreement of the books, *)
(* where the monitor is in them (Progress), the measurements, the absence  *)
(* of orphan rules, and why a delete cannot miss a rule: a table that      *)
(* holds one belongs to a registered switch, whose channel is up unless it *)
(* is flaky (Reachable), and what a release has done stays done            *)
(* (ReleaseDeletes).                                                       *)
(***************************************************************************)
EXTENDS Orchestration, SequenceTheorems, TLAPS

Reachable ==
  \A e \in drops : e.dpid \in datapaths /\ (e.dpid \notin Flaky => e.dpid \in connected)

ReleaseDeletes ==
  pc = "release" =>
    \A e \in drops : e.dpid \in loop.known \ (loop.left \cup Flaky)
                       => ~StatMatchesBlock(e.match, loop.key)

Progress ==
  /\ pc \in {"review", "release"} => work \subseteq activeBlocks \ HalfReleased
  /\ \A k \in activeBlocks \ HalfReleased : streak[k] < ConfirmCycles
  /\ pc = "release" => /\ loop.key \in activeBlocks /\ streak[loop.key] >= ConfirmCycles
                       /\ loop.sources = {}
  /\ pc = "install" => /\ loop.key = job.key /\ loop.key \in activeBlocks
                       /\ streak[loop.key] = 0
                       /\ loop.left \subseteq datapaths
  /\ pc = "clear" => loop.sources # {}

IInv ==
  /\ TypeOK
  /\ BooksAgree
  /\ Progress
  /\ MeasurementsOnlyOfActive
  /\ NoOrphanDrop
  /\ Reachable
  /\ ReleaseDeletes

-----------------------------------------------------------------------------
(* What the mitigator's methods do to its state *)

\* A drop rule's match is a rule for any port.
LEMMA DropMatchType ==
  ASSUME NEW k \in Keys, NEW p \in Ports \cup {Any}
  PROVE  DropMatch(k, p) \in Rule
BY KeysAssumption DEF DropMatch, Rule, BlockKey

\* One message of block() adds at most an entry of the right type, on its switch, for
\* the key it was asked to block, and takes none away.
LEMMA InstallProperties ==
  ASSUME NEW k \in Keys, NEW loc \in AnyLocation, NEW s \in Switches,
         InstallDropRule(s, k, loc)
  PROVE  /\ drops \subseteq drops'
         /\ \A e \in drops' \ drops : /\ e \in FlowEntry /\ e.dpid = s /\ s \in connected
                                      /\ StatMatchesBlock(e.match, k)
<1> DEFINE p == IF s = loc.dpid THEN loc.inPort ELSE Any
           match == DropMatch(k, p)
           entry == [dpid |-> s, match |-> match, packets |-> 0]
<1>1. p \in Ports \cup {Any}
  BY OrchestrationAssumption DEF AnyLocation, Location, Nowhere
<1>2. match \in Rule /\ StatMatchesBlock(match, k)
  BY <1>1, DropMatchType DEF StatMatchesBlock
<1>3. entry \in FlowEntry
  BY <1>2 DEF FlowEntry
<1>4. drops \subseteq drops' /\ \A e \in drops' \ drops : e = entry /\ s \in connected
  BY DEF InstallDropRule
<1> QED
  BY <1>2, <1>3, <1>4

\* The non-strict delete covers every rule of the key, on every port.
LEMMA DeleteCoversBlock ==
  ASSUME NEW k \in Keys, NEW match, StatMatchesBlock(match, k)
  PROVE  Covers(k, match)
BY DEF StatMatchesBlock, Covers, Subsumes, DropMatch

\* A new entry in the mitigator's book.
LEMMA BlockedKeysGrow ==
  ASSUME NEW k, NEW d, blocked' = blocked \cup {<<k, d>>}
  PROVE  BlockedKeys' = BlockedKeys \cup {k}
<1>1. BlockedKeys' = {b[1] : b \in blocked \cup {<<k, d>>}}
  BY DEF BlockedKeys
<1>2. <<k, d>>[1] = k
  OBVIOUS
<1> QED BY <1>1, <1>2 DEF BlockedKeys

\* A rule says which key it is of.
LEMMA RuleOfOneKey ==
  ASSUME NEW j \in Keys, NEW k \in Keys, NEW match,
         StatMatchesBlock(match, j), StatMatchesBlock(match, k)
  PROVE  j = k
<1>1. PICK p \in Ports \cup {Any} : match = DropMatch(j, p)
  BY DEF StatMatchesBlock
<1>2. PICK q \in Ports \cup {Any} : match = DropMatch(k, q)
  BY DEF StatMatchesBlock
<1>3. j.src = k.src /\ j.dst = k.dst /\ j.port = k.port /\ j.proto = k.proto
  BY <1>1, <1>2 DEF DropMatch
<1>4. /\ j = [src |-> j.src, dst |-> j.dst, port |-> j.port, proto |-> j.proto]
      /\ k = [src |-> k.src, dst |-> k.dst, port |-> k.port, proto |-> k.proto]
  BY KeysAssumption DEF BlockKey
<1> QED BY <1>3, <1>4

-----------------------------------------------------------------------------
(* The steps *)

\* What the handlers leave alone keeps the books and the monitor's place in them.
LEMMA BooksFrame ==
  ASSUME IInv, UNCHANGED <<blocked, bookVars, monitorVars>>, datapaths \subseteq datapaths'
  PROVE  BooksAgree' /\ Progress'
BY DEF IInv, BooksAgree, Progress, BlockedKeys, HalfReleased, bookVars, monitorVars

\* The monitor's own steps, outside a release, leave the rest alone.
LEMMA MonitorFrame ==
  ASSUME IInv, UNCHANGED <<datapaths, blocked, connected, drops, bookVars, trafficVars>>,
         pc \notin {"release", "dead"}, pc' \notin {"release", "install", "dead"},
         pc' = "review" => work' \subseteq activeBlocks,
         pc' = "clear" => loop'.sources # {}
  PROVE  /\ BooksAgree' /\ Progress' /\ MeasurementsOnlyOfActive'
         /\ NoOrphanDrop' /\ Reachable' /\ ReleaseDeletes'
<1> USE DEF IInv
<1>1. HalfReleased = {} /\ HalfReleased' = {}
  BY DEF HalfReleased
<1>2. BooksAgree' /\ Progress'
  BY <1>1 DEF BooksAgree, Progress, BlockedKeys, bookVars
<1>3. MeasurementsOnlyOfActive' /\ NoOrphanDrop' /\ Reachable' /\ ReleaseDeletes'
  BY DEF MeasurementsOnlyOfActive, NoOrphanDrop, Reachable, ReleaseDeletes, bookVars,
         trafficVars
<1> QED
  BY <1>2, <1>3

\* An active block's streak is a number.
LEMMA StreakIsNumber ==
  ASSUME TypeOK, BooksAgree, NEW k \in activeBlocks
  PROVE  k \in Keys /\ streak[k] \in 0 .. ConfirmCycles /\ streak[k] # None
BY DEF TypeOK, BooksAgree

\* Init: nothing is blocked.
LEMMA InitIInv == Init => IInv
<1> SUFFICES ASSUME Init PROVE IInv
  OBVIOUS
<1> USE DEF Init, MitigatorInit
<1>1. <<>> \in Seq(Reply) /\ Len(<<>>) = 0
  OBVIOUS
<1>2. TypeOK
  BY <1>1, EnvironmentAssumption, OrchestrationAssumption
     DEF TypeOK, MitigatorTypeOK, NoJob, NoLoop, AnyLocation
<1>3. BooksAgree /\ Progress
  BY DEF BooksAgree, BlockedKeys, HalfReleased, Progress
<1>4. MeasurementsOnlyOfActive /\ NoOrphanDrop /\ Reachable /\ ReleaseDeletes
  BY DEF MeasurementsOnlyOfActive, NoOrphanDrop, Reachable, ReleaseDeletes
<1> QED
  BY <1>2, <1>3, <1>4 DEF IInv

\* The steps of check_unblocks before it finds a block confirmed.
LEMMA StartCycleStep ==
  ASSUME IInv, StartCycle
  PROVE  IInv'
<1> USE DEF IInv
<1>1. TypeOK'
  BY DEF StartCycle, TypeOK, MitigatorTypeOK, mitigatorVars, bookVars, trafficVars, statsVars
<1>2. UNCHANGED <<datapaths, blocked, connected, drops, bookVars, trafficVars>>
  BY DEF StartCycle, mitigatorVars
<1> QED
  BY <1>1, <1>2, MonitorFrame DEF StartCycle

LEMMA ReviewStep ==
  ASSUME IInv, NEW k \in work, Review(k)
  PROVE  IInv'
<1> USE DEF IInv
<1>1. /\ pc = "review" /\ pc' = "review" /\ work' = work \ {k}
      /\ streak' = [streak EXCEPT ![k] = IF Loud(k) THEN 0 ELSE @ + 1]
      /\ Loud(k) \/ ~Confirmed(k)
      /\ UNCHANGED <<mitigatorVars, activeBlocks, trafficVars, validated, job, loop, statsVars>>
  BY DEF Review
<1>2. HalfReleased = {} /\ HalfReleased' = {}
  BY <1>1 DEF HalfReleased
<1>3. k \in activeBlocks /\ k \in Keys /\ streak[k] \in Nat
  BY <1>1, StreakIsNumber, OrchestrationAssumption DEF Progress, TypeOK
<1>4. streak'[k] \in 0 .. ConfirmCycles - 1 /\ streak' \in [Keys -> 0 .. ConfirmCycles \cup {None}]
  BY <1>1, <1>3, OrchestrationAssumption DEF TypeOK, Confirmed
<1>5. \A j \in Keys \ {k} : streak'[j] = streak[j]
  BY <1>1 DEF TypeOK
<1>6. TypeOK'
  BY <1>1, <1>4 DEF TypeOK, MitigatorTypeOK, mitigatorVars, trafficVars, statsVars
<1>7. streak'[k] # None /\ streak'[k] < ConfirmCycles
  BY <1>4, NoneAssumption, OrchestrationAssumption
<1>8. BooksAgree'
  <2>1. \A j \in Keys : streak'[j] # None <=> streak[j] # None
    BY <1>3, <1>5, <1>7, NoneAssumption
  <2>2. BlockedKeys' = BlockedKeys
    BY <1>1 DEF BlockedKeys, mitigatorVars
  <2> QED BY <1>1, <1>2, <2>1, <2>2 DEF BooksAgree
<1>9. Progress'
  BY <1>1, <1>2, <1>5, <1>7 DEF Progress, TypeOK
<1>10. MeasurementsOnlyOfActive' /\ NoOrphanDrop' /\ Reachable' /\ ReleaseDeletes'
  BY <1>1 DEF MeasurementsOnlyOfActive, NoOrphanDrop, Reachable, ReleaseDeletes,
              mitigatorVars, trafficVars
<1> QED
  BY <1>6, <1>8, <1>9, <1>10

\* A release begins: the key leaves the mitigator's book, ahead of the others.
LEMMA ConfirmStep ==
  ASSUME IInv, NEW k \in work, Confirm(k)
  PROVE  IInv'
<1> USE DEF IInv
<1>1. /\ pc = "review" /\ pc' = "release" /\ work' = work \ {k}
      /\ streak' = [streak EXCEPT ![k] = @ + 1]
      /\ Confirmed(k)
      /\ blocked' = {b \in blocked : b[1] # k}
      /\ loop' = [NoLoop EXCEPT !.key = k, !.known = datapaths,
                               !.left = IF k \in BlockedKeys THEN datapaths ELSE {}]
      /\ UNCHANGED <<datapaths, connected, tableVars, activeBlocks, trafficVars, validated,
                     job, statsVars>>
  BY DEF Confirm, ForgetBlock
<1>2. HalfReleased = {} /\ HalfReleased' = {k}
  BY <1>1 DEF HalfReleased, NoLoop
<1>3. k \in activeBlocks /\ k \in Keys /\ streak[k] \in Nat /\ streak[k] < ConfirmCycles
  BY <1>1, <1>2, StreakIsNumber, OrchestrationAssumption DEF Progress, TypeOK
<1>4. streak'[k] \in 0 .. ConfirmCycles /\ streak'[k] >= ConfirmCycles
      /\ streak' \in [Keys -> 0 .. ConfirmCycles \cup {None}]
  BY <1>1, <1>3, OrchestrationAssumption DEF TypeOK, Confirmed
<1>5. \A j \in Keys \ {k} : streak'[j] = streak[j]
  BY <1>1 DEF TypeOK
<1>6. k \in BlockedKeys
  BY <1>2, <1>3 DEF BooksAgree
<1>7. /\ loop'.key = k /\ loop'.sources = {}
      /\ loop'.left = datapaths /\ loop'.known = datapaths
  BY <1>1, <1>6 DEF NoLoop
<1>8. TypeOK'
  <2>1. MitigatorTypeOK'
    BY <1>1 DEF TypeOK, MitigatorTypeOK, tableVars
  <2>2. loop' \in [key : Keys \cup {None}, loc : AnyLocation, sources : SUBSET Hosts,
                   left : SUBSET Switches, known : SUBSET Switches]
    BY <1>1, <1>3, <1>6 DEF NoLoop, AnyLocation, TypeOK, MitigatorTypeOK
  <2> QED
    BY <1>1, <1>3, <1>4, <1>7, <2>1, <2>2 DEF TypeOK, trafficVars, statsVars
<1>9. BooksAgree'
  <2>1. \A j \in Keys : streak'[j] # None <=> streak[j] # None
    BY <1>3, <1>4, <1>5, NoneAssumption
  <2>2. BlockedKeys' = BlockedKeys \ {k}
    BY <1>1 DEF BlockedKeys
  <2> QED BY <1>1, <1>2, <2>1, <2>2 DEF BooksAgree
<1>10. Progress'
  BY <1>1, <1>2, <1>3, <1>4, <1>5, <1>7 DEF Progress, TypeOK
<1>11. ReleaseDeletes'
  BY <1>7 DEF ReleaseDeletes
<1>12. MeasurementsOnlyOfActive' /\ NoOrphanDrop' /\ Reachable'
  BY <1>1 DEF MeasurementsOnlyOfActive, NoOrphanDrop, Reachable, tableVars, trafficVars
<1> QED
  BY <1>8, <1>9, <1>10, <1>11, <1>12

\* One delete of a release takes the rules of its key from a table it reaches.
LEMMA DeleteOnStep ==
  ASSUME IInv, NEW s \in Switches, DeleteOn(s)
  PROVE  IInv'
<1> USE DEF IInv
<1>1. /\ pc = "release" /\ pc' = "release" /\ s \in loop.left
      /\ loop' = [loop EXCEPT !.left = @ \ {s}]
      /\ DeleteDropRule(s, loop.key)
      /\ UNCHANGED <<datapaths, blocked, connected, bookVars, trafficVars, validated,
                     work, job, statsVars>>
  BY DEF DeleteOn
<1>2. /\ loop'.key = loop.key /\ loop'.sources = loop.sources /\ loop'.loc = loop.loc
      /\ loop'.known = loop.known /\ loop'.left = loop.left \ {s}
      /\ loop' \in [key : Keys \cup {None}, loc : AnyLocation, sources : SUBSET Hosts,
                    left : SUBSET Switches, known : SUBSET Switches]
  BY <1>1 DEF TypeOK
<1>3. drops' \subseteq drops /\ permits' \subseteq permits
  BY <1>1 DEF DeleteDropRule
<1>4. TypeOK'
  BY <1>1, <1>2, <1>3
     DEF TypeOK, MitigatorTypeOK, bookVars, trafficVars, statsVars
<1>5. BooksAgree' /\ Progress'
  BY <1>1, <1>2 DEF BooksAgree, Progress, BlockedKeys, HalfReleased, bookVars
<1>6. MeasurementsOnlyOfActive' /\ NoOrphanDrop' /\ Reachable'
  BY <1>1, <1>3 DEF MeasurementsOnlyOfActive, NoOrphanDrop, Reachable, bookVars, trafficVars
<1>7. ReleaseDeletes'
  <2> SUFFICES ASSUME NEW e \in drops', e.dpid \in loop.known \ ((loop.left \ {s}) \cup Flaky)
               PROVE  ~StatMatchesBlock(e.match, loop.key)
    BY <1>2 DEF ReleaseDeletes
  <2>1. CASE e.dpid = s
    <3>1. s \in connected
      BY <1>3, <2>1 DEF Reachable
    <3>2. ~Covers(loop.key, e.match)
      BY <1>1, <2>1, <3>1 DEF DeleteDropRule
    <3> QED BY <1>1, <3>2, DeleteCoversBlock DEF TypeOK
  <2>2. CASE e.dpid # s
    BY <1>1, <1>3, <2>2 DEF ReleaseDeletes
  <2> QED BY <2>1, <2>2
<1> QED
  BY <1>4, <1>5, <1>6, <1>7

\* A release ends: the key leaves the orchestrator's books with its measurements, and no
\* rule of it is left where a delete could reach.
LEMMA ReleasedStep ==
  ASSUME IInv, Released
  PROVE  IInv'
<1> USE DEF IInv
<1> DEFINE k == loop.key
<1>1. /\ pc = "release" /\ pc' = "review" /\ loop.left = {} /\ datapaths = loop.known
      /\ activeBlocks' = activeBlocks \ {k}
      /\ streak' = [streak EXCEPT ![k] = None]
      /\ ForgetBlockTraffic(k)
      /\ validated' = validated \ {k.dst}
      /\ loop' = NoLoop
      /\ UNCHANGED <<mitigatorVars, work, job, statsVars>>
  BY DEF Released
<1>2. k \in Keys /\ k \in activeBlocks
  BY <1>1 DEF TypeOK, Progress
<1>3. HalfReleased = {k} /\ HalfReleased' = {}
  BY <1>1 DEF HalfReleased
<1>4. \A j \in Keys : streak'[j] = IF j = k THEN None ELSE streak[j]
  BY <1>1 DEF TypeOK
<1>5. TypeOK'
  <2>1. streak' \in [Keys -> 0 .. ConfirmCycles \cup {None}]
    BY <1>1 DEF TypeOK
  <2>2. blockPps' \in [Keys -> Nat] /\ samples' \in [Keys \X Switches -> Nat \cup {None}]
    BY <1>1 DEF ForgetBlockTraffic, TypeOK
  <2>3. loop' \in [key : Keys \cup {None}, loc : AnyLocation, sources : SUBSET Hosts,
                   left : SUBSET Switches, known : SUBSET Switches]
    BY <1>1 DEF NoLoop, AnyLocation
  <2> QED
    BY <1>1, <2>1, <2>2, <2>3 DEF TypeOK, MitigatorTypeOK, mitigatorVars, statsVars
<1>6. BooksAgree'
  <2>1. BlockedKeys' = BlockedKeys
    BY <1>1 DEF BlockedKeys, mitigatorVars
  <2> QED BY <1>1, <1>2, <1>3, <1>4, <2>1 DEF BooksAgree
<1>7. Progress'
  BY <1>1, <1>3, <1>4 DEF Progress, TypeOK
<1>8. MeasurementsOnlyOfActive'
  BY <1>1 DEF MeasurementsOnlyOfActive, ForgetBlockTraffic, TypeOK
<1>9. NoOrphanDrop'
  <2> SUFFICES ASSUME NEW e \in drops, e.dpid \notin Flaky
               PROVE  \E j \in activeBlocks' : StatMatchesBlock(e.match, j)
    BY <1>1 DEF NoOrphanDrop, mitigatorVars
  <2>1. PICK j \in activeBlocks : StatMatchesBlock(e.match, j)
    BY DEF NoOrphanDrop
  <2>2. e.dpid \in loop.known
    BY <1>1 DEF Reachable
  <2>3. ~StatMatchesBlock(e.match, k)
    BY <1>1, <2>2 DEF ReleaseDeletes
  <2> QED BY <1>1, <2>1, <2>3
<1>10. Reachable' /\ ReleaseDeletes'
  BY <1>1 DEF Reachable, ReleaseDeletes, mitigatorVars
<1> QED
  BY <1>5, <1>6, <1>7, <1>8, <1>9, <1>10

\* A loop that raises leaves everything as it is.
LEMMA LoopRaisesStep ==
  ASSUME IInv, LoopRaises
  PROVE  IInv'
<1> USE DEF IInv
<1>1. /\ pc \in {"release", "clear"} /\ pc' = "dead"
      /\ UNCHANGED <<mitigatorVars, bookVars, trafficVars, validated, work, job, loop, statsVars>>
  BY DEF LoopRaises
<1>2. TypeOK'
  BY <1>1 DEF TypeOK, MitigatorTypeOK, mitigatorVars, bookVars, trafficVars, statsVars
<1>3. HalfReleased' = HalfReleased
  BY <1>1 DEF HalfReleased, Progress
<1>4. BooksAgree' /\ Progress'
  BY <1>1, <1>3 DEF BooksAgree, Progress, BlockedKeys, mitigatorVars, bookVars
<1>5. MeasurementsOnlyOfActive' /\ NoOrphanDrop' /\ Reachable' /\ ReleaseDeletes'
  BY <1>1 DEF MeasurementsOnlyOfActive, NoOrphanDrop, Reachable, ReleaseDeletes,
              mitigatorVars, bookVars, trafficVars
<1> QED
  BY <1>2, <1>4, <1>5

\* The detections of the cycle.
LEMMA DetectStep ==
  ASSUME IInv, NEW seen \in SUBSET Dsts, NEW flagged \in SUBSET Keys, Detect(seen, flagged)
  PROVE  IInv'
<1> USE DEF IInv
<1>1. TypeOK'
  BY DEF Detect, TypeOK, MitigatorTypeOK, mitigatorVars, bookVars, trafficVars, statsVars
<1>2. UNCHANGED <<datapaths, blocked, connected, drops, bookVars, trafficVars>>
  BY DEF Detect, mitigatorVars
<1> QED
  BY <1>1, <1>2, MonitorFrame DEF Detect

\* Taking up a group: only process()'s own variables move.
LEMMA GroupStep ==
  ASSUME IInv, NEW k \in work, Group(k)
  PROVE  IInv'
<1> USE DEF IInv
<1> k \in Keys
  BY DEF TypeOK
<1>1. CASE Dismiss(k)
  <2>1. TypeOK'
    BY <1>1 DEF Dismiss, TypeOK, MitigatorTypeOK, mitigatorVars, bookVars, trafficVars,
                statsVars
  <2>2. UNCHANGED <<datapaths, blocked, connected, drops, bookVars, trafficVars>>
    BY <1>1 DEF Dismiss, mitigatorVars
  <2> QED
    BY <1>1, <2>1, <2>2, MonitorFrame DEF Dismiss
<1>2. ASSUME NEW actions \in SUBSET Action, Decide(k, actions)
      PROVE  IInv'
  <2>1. job' \in [key : Keys \cup {None}, actions : SUBSET Action, fresh : SUBSET Hosts]
        /\ job'.key \in Keys
    BY <1>2 DEF Decide
  <2>2. TypeOK'
    BY <1>2, <2>1
       DEF Decide, TypeOK, MitigatorTypeOK, mitigatorVars, bookVars, trafficVars, statsVars
  <2>3. UNCHANGED <<datapaths, blocked, connected, drops, bookVars, trafficVars>>
    BY <1>2 DEF Decide, mitigatorVars
  <2> QED
    BY <1>2, <2>2, <2>3, MonitorFrame DEF Decide
<1>3. ASSUME NEW loc \in AnyLocation
      PROVE  {[loc |-> loc, sources |-> {}]} \in SUBSET Action
  BY DEF Action
<1>4. ASSUME NEW loc \in AnyLocation, DecideSource(k, loc)
      PROVE  IInv'
  BY <1>2, <1>3, <1>4 DEF DecideSource
<1>5. CASE DecideLowSlow(k)
  BY <1>2, <1>3, <1>5 DEF DecideLowSlow, AnyLocation
<1>6. ASSUME NEW entry \in [Hosts -> AnyLocation], DecideDistributed(k, entry)
      PROVE  IInv'
  <2>1. ActionsOf(entry) \in SUBSET Action
    BY DEF ActionsOf, Action
  <2> QED
    BY <1>2, <1>6, <2>1 DEF DecideDistributed
<1> QED
  BY <1>1, <1>4, <1>5, <1>6 DEF Group

\* An action of a group begins: the key enters the three books in the same step, with a
\* streak of 0.
LEMMA DispatchStep ==
  ASSUME IInv, NEW a \in job.actions, Dispatch(a)
  PROVE  IInv'
<1> USE DEF IInv
<1> DEFINE k == job.key
           targets == BlockTargets(k, a.loc.dpid)
<1>1. /\ pc = "dispatch"
      /\ activeBlocks' = activeBlocks \cup {k}
      /\ streak' = [streak EXCEPT ![k] = 0]
      /\ blocked' = blocked \cup {<<k, a.loc.dpid>>}
      /\ job' = [job EXCEPT !.actions = @ \ {a},
                            !.fresh = IF k \in activeBlocks THEN @ ELSE @ \cup a.sources]
      /\ IF targets = {}
         THEN UNCHANGED <<pc, loop>>
         ELSE /\ pc' = "install"
              /\ loop' = [NoLoop EXCEPT !.key = k, !.loc = a.loc, !.left = targets]
      /\ UNCHANGED <<datapaths, connected, tableVars, trafficVars, validated, work, statsVars>>
  BY DEF Dispatch, RestartedStreak
<1>2. k \in Keys /\ a \in Action
  BY <1>1 DEF TypeOK
<1>3. a.loc \in AnyLocation /\ a.sources \subseteq Hosts
  BY <1>2 DEF Action
<1>4. a.loc.dpid \in Switches \cup {None}
  BY <1>3, OrchestrationAssumption DEF AnyLocation, Location, Nowhere
<1>5. targets \subseteq datapaths /\ datapaths \subseteq Switches
  BY DEF BlockTargets, ScopedTargets, TypeOK, MitigatorTypeOK
<1>6. HalfReleased = {} /\ HalfReleased' = {}
  BY <1>1 DEF HalfReleased
<1>7. streak' \in [Keys -> 0 .. ConfirmCycles \cup {None}]
      /\ \A j \in Keys : streak'[j] = IF j = k THEN 0 ELSE streak[j]
  BY <1>1, <1>2, OrchestrationAssumption DEF TypeOK
<1>8. job' \in [key : Keys \cup {None}, actions : SUBSET Action, fresh : SUBSET Hosts]
      /\ job'.key = k
  BY <1>1, <1>2, <1>3 DEF TypeOK
<1>9. TypeOK'
  <2>1. MitigatorTypeOK'
    BY <1>1, <1>2, <1>4 DEF TypeOK, MitigatorTypeOK, tableVars
  <2>2. loop' \in [key : Keys \cup {None}, loc : AnyLocation, sources : SUBSET Hosts,
                   left : SUBSET Switches, known : SUBSET Switches]
        /\ (pc' = "install" => loop'.key \in Keys)
    BY <1>1, <1>2, <1>3, <1>5 DEF NoLoop, TypeOK
  <2>3. UNCHANGED <<samples, blockPps, validated, work, awaiting, replies>>
        /\ activeBlocks' \subseteq Keys
        /\ pc' \in {"dispatch", "install"}
    BY <1>1, <1>2 DEF trafficVars, statsVars, TypeOK
  <2> HIDE DEF k, targets
  <2> QED
    BY <1>2, <1>7, <1>8, <2>1, <2>2, <2>3 DEF TypeOK
<1>10. BooksAgree'
  <2>1. BlockedKeys' = BlockedKeys \cup {k}
    BY <1>1, BlockedKeysGrow
  <2>2. \A j \in Keys : streak'[j] # None <=> j \in activeBlocks'
    BY <1>1, <1>2, <1>7, NoneAssumption DEF BooksAgree, TypeOK
  <2> QED
    BY <1>1, <1>2, <1>6, <2>1, <2>2 DEF BooksAgree, TypeOK
<1>11. Progress'
  <2>1. \A j \in activeBlocks' : streak'[j] < ConfirmCycles
    BY <1>1, <1>2, <1>6, <1>7, OrchestrationAssumption DEF Progress, TypeOK
  <2>2. pc' = "install" => /\ loop'.key = job'.key /\ loop'.key \in activeBlocks'
                           /\ streak'[loop'.key] = 0 /\ loop'.left \subseteq datapaths'
    BY <1>1, <1>2, <1>5, <1>7, <1>8 DEF NoLoop
  <2> QED
    BY <1>1, <1>6, <2>1, <2>2 DEF Progress
<1>12. MeasurementsOnlyOfActive' /\ NoOrphanDrop' /\ Reachable' /\ ReleaseDeletes'
  BY <1>1 DEF MeasurementsOnlyOfActive, NoOrphanDrop, Reachable, ReleaseDeletes, tableVars,
              trafficVars
<1> QED
  BY <1>9, <1>10, <1>11, <1>12

\* One message of block(): the rule is of an active key, on a registered switch.
LEMMA InstallOnStep ==
  ASSUME IInv, NEW s \in Switches, InstallOn(s)
  PROVE  IInv'
<1> USE DEF IInv
<1>1. /\ pc = "install" /\ s \in loop.left
      /\ InstallDropRule(s, loop.key, loop.loc)
      /\ \/ pc' = "dispatch" /\ loop' = NoLoop
         \/ pc' = "install" /\ loop' = [loop EXCEPT !.left = @ \ {s}]
      /\ UNCHANGED <<datapaths, blocked, connected, permits, bookVars, trafficVars, validated,
                     work, job, statsVars>>
  BY DEF InstallOn
<1>2. loop.key \in Keys /\ loop.key \in activeBlocks /\ loop.loc \in AnyLocation /\ s \in datapaths
  BY <1>1 DEF TypeOK, Progress
<1>3. \A e \in drops' \ drops : /\ e \in FlowEntry /\ e.dpid = s /\ s \in connected
                                /\ StatMatchesBlock(e.match, loop.key)
  BY <1>1, <1>2, InstallProperties
<1>4. TypeOK'
  <2>1. loop' \in [key : Keys \cup {None}, loc : AnyLocation, sources : SUBSET Hosts,
                   left : SUBSET Switches, known : SUBSET Switches]
        /\ (pc' = "install" => loop'.key \in Keys)
    <3>1. CASE pc' = "dispatch" /\ loop' = NoLoop
      BY <3>1 DEF NoLoop, AnyLocation
    <3>2. CASE pc' = "install" /\ loop' = [loop EXCEPT !.left = @ \ {s}]
      BY <1>2, <3>2 DEF TypeOK
    <3> QED BY <1>1, <3>1, <3>2
  <2>2. MitigatorTypeOK'
    BY <1>1, <1>3 DEF TypeOK, MitigatorTypeOK
  <2> QED
    BY <1>1, <2>1, <2>2 DEF TypeOK, bookVars, trafficVars, statsVars
<1>5. HalfReleased = {} /\ HalfReleased' = {}
  BY <1>1 DEF HalfReleased
<1>6. BooksAgree'
  BY <1>1, <1>5 DEF BooksAgree, BlockedKeys, bookVars
<1>7. Progress'
  BY <1>1, <1>5 DEF Progress, bookVars, TypeOK
<1>8. MeasurementsOnlyOfActive' /\ ReleaseDeletes'
  BY <1>1 DEF MeasurementsOnlyOfActive, ReleaseDeletes, bookVars, trafficVars
<1>9. NoOrphanDrop'
  BY <1>1, <1>2, <1>3 DEF NoOrphanDrop, bookVars
<1>10. Reachable'
  BY <1>1, <1>2, <1>3 DEF Reachable
<1> QED
  BY <1>4, <1>6, <1>7, <1>8, <1>9, <1>10

\* The rest of the monitor moves its own variables, permits and requests.
LEMMA RestOfMonitorStep ==
  ASSUME IInv,
         \/ FinishGroup
         \/ \E s \in Switches : ClearOn(s)
         \/ ClearDone
         \/ EndCycle
  PROVE  IInv'
<1> USE DEF IInv
<1>1. UNCHANGED <<datapaths, blocked, connected, drops, bookVars, trafficVars>>
  BY DEF FinishGroup, ClearOn, ClearDone, EndCycle, mitigatorVars
<1>2. TypeOK' /\ (pc' = "clear" => loop'.sources # {})
  <2> USE DEF TypeOK, MitigatorTypeOK, mitigatorVars, bookVars, trafficVars, statsVars
  <2>1. CASE FinishGroup
    <3>1. loop' \in [key : Keys \cup {None}, loc : AnyLocation, sources : SUBSET Hosts,
                     left : SUBSET Switches, known : SUBSET Switches]
      BY <2>1 DEF FinishGroup, NoLoop, AnyLocation
    <3>2. pc' = "clear" => loop'.sources # {} /\ loop'.key \in Keys
      BY <2>1 DEF FinishGroup, NoLoop
    <3> QED
      BY <2>1, <3>1, <3>2 DEF FinishGroup, NoJob
  <2>2. ASSUME NEW s \in Switches, ClearOn(s)
        PROVE  TypeOK' /\ (pc' = "clear" => loop'.sources # {})
    <3>1. loop' = [loop EXCEPT !.left = @ \ {s}] /\ pc = "clear" /\ permits' \subseteq permits
      BY <2>2 DEF ClearOn, ClearForwarding
    <3>2. loop' \in [key : Keys \cup {None}, loc : AnyLocation, sources : SUBSET Hosts,
                     left : SUBSET Switches, known : SUBSET Switches]
          /\ loop'.key = loop.key /\ loop'.sources = loop.sources
      BY <3>1
    <3> QED
      BY <2>2, <3>1, <3>2 DEF ClearOn, Progress
  <2>3. CASE ClearDone
    BY <2>3 DEF ClearDone, NoLoop, AnyLocation
  <2>4. CASE EndCycle
    <3>1. \A s \in Switches : Len(replies[s]) \in Nat
      BY LenProperties
    <3>2. /\ awaiting' \in [Switches -> 0 .. MaxAwaiting]
          /\ \A s \in Switches : awaiting'[s] + Len(replies[s]) <= MaxAwaiting
      BY <2>4, <3>1, OrchestrationAssumption DEF EndCycle
    <3> QED
      BY <2>4, <3>2 DEF EndCycle
  <2> QED
    BY <2>1, <2>2, <2>3, <2>4
<1>3. pc \notin {"release", "dead"} /\ pc' \notin {"release", "install", "dead", "review"}
  BY DEF FinishGroup, ClearOn, ClearDone, EndCycle
<1> QED
  BY <1>1, <1>2, <1>3, MonitorFrame

\* A switch answers.
LEMMA AnswerStep ==
  ASSUME IInv, NEW s \in Switches, Answer(s)
  PROVE  IInv'
<1> USE DEF IInv
<1> DEFINE reply == [drops |-> {e \in drops : e.dpid = s}, pairs |-> PairsOn(s)]
<1>1. reply \in Reply
  BY DEF Reply, PairsOn, TypeOK, MitigatorTypeOK, Packet
<1>2. /\ awaiting' = [awaiting EXCEPT ![s] = @ - 1] /\ awaiting[s] > 0
      /\ replies' = [replies EXCEPT ![s] = Append(@, reply)]
      /\ UNCHANGED <<mitigatorVars, bookVars, trafficVars, validated, monitorVars>>
  BY DEF Answer
<1>3. Append(replies[s], reply) \in Seq(Reply)
      /\ Len(Append(replies[s], reply)) = Len(replies[s]) + 1
  BY <1>1, AppendProperties DEF TypeOK
<1>4. \A t \in Switches : Len(replies[t]) \in Nat
  BY LenProperties DEF TypeOK
<1> HIDE DEF reply
<1>5. /\ replies' \in [Switches -> Seq(Reply)]
      /\ awaiting' \in [Switches -> 0 .. MaxAwaiting]
      /\ \A t \in Switches : awaiting'[t] + Len(replies'[t]) <= MaxAwaiting
  BY <1>2, <1>3, <1>4, OrchestrationAssumption DEF TypeOK
<1>6. TypeOK'
  BY <1>2, <1>5 DEF TypeOK, MitigatorTypeOK, mitigatorVars, bookVars, trafficVars, monitorVars
<1>7. BooksAgree' /\ Progress'
  BY <1>2, BooksFrame DEF mitigatorVars
<1>8. MeasurementsOnlyOfActive' /\ NoOrphanDrop' /\ Reachable' /\ ReleaseDeletes'
  BY <1>2 DEF MeasurementsOnlyOfActive, NoOrphanDrop, Reachable, ReleaseDeletes,
              mitigatorVars, bookVars, trafficVars, monitorVars
<1> QED
  BY <1>6, <1>7, <1>8

\* A reply, however old: what it measures belongs to active blocks, and a sweep takes
\* out forwarding rules only.
LEMMA StatsReplyStep ==
  ASSUME IInv, NEW s \in Switches, NEW timely \in BOOLEAN, StatsReply(s, timely)
  PROVE  IInv'
<1> USE DEF IInv
<1> DEFINE table == Head(replies[s]).drops
           entries == [k \in activeBlocks |-> {e \in table : StatMatchesBlock(e.match, k)}]
           measured == {k \in activeBlocks : entries[k] # {}}
<1>1. UNCHANGED <<datapaths, blocked, connected, drops, bookVars, validated, monitorVars>>
  BY DEF StatsReply
<1>2. /\ replies[s] \in Seq(Reply) /\ replies[s] # <<>>
      /\ replies' = [replies EXCEPT ![s] = Tail(@)] /\ awaiting' = awaiting
      /\ RecordBlockTraffic(s, table, timely)
  BY DEF StatsReply, TypeOK
<1>3. /\ Head(replies[s]) \in Reply
      /\ Tail(replies[s]) \in Seq(Reply)
      /\ Len(Tail(replies[s])) = Len(replies[s]) - 1
  BY <1>2, HeadTailProperties
<1>4. table \subseteq FlowEntry
  BY <1>3 DEF Reply
<1>5. PICK reading \in [measured -> UNION {Readings(entries[k]) : k \in measured}] :
        /\ \A k \in measured : reading[k] \in Readings(entries[k])
        /\ samples' = [x \in Keys \X Switches |->
                         IF x[1] \in measured /\ x[2] = s
                         THEN reading[x[1]][2].packets ELSE samples[x]]
        /\ blockPps' = [k \in Keys |->
                          IF /\ k \in measured
                             /\ HasRate(samples[<<k, s>>], reading[k][1].packets, timely)
                          THEN reading[k][1].packets - samples[<<k, s>>] ELSE blockPps[k]]
  BY <1>2 DEF RecordBlockTraffic
<1>6. \A k \in measured : reading[k][1].packets \in Nat /\ reading[k][2].packets \in Nat
  <2> SUFFICES ASSUME NEW k \in measured
               PROVE  reading[k][1].packets \in Nat /\ reading[k][2].packets \in Nat
    OBVIOUS
  <2>1. entries[k] \subseteq FlowEntry
    BY <1>4
  <2>2. reading[k] \in entries[k] \X entries[k]
    BY <1>5 DEF Readings
  <2> QED BY <2>1, <2>2 DEF FlowEntry
<1>7. measured \subseteq activeBlocks
  OBVIOUS
<1> HIDE DEF measured, entries, table
<1>8. samples' \in [Keys \X Switches -> Nat \cup {None}]
  BY <1>5, <1>6 DEF TypeOK
<1>9. blockPps' \in [Keys -> Nat]
  <2> SUFFICES ASSUME NEW k \in Keys PROVE blockPps'[k] \in Nat
    BY <1>5
  <2>1. CASE k \in measured /\ HasRate(samples[<<k, s>>], reading[k][1].packets, timely)
    <3>1. samples[<<k, s>>] \in Nat
      BY <2>1 DEF HasRate, TypeOK
    <3> QED
      BY <1>5, <1>6, <2>1, <3>1 DEF HasRate
  <2>2. CASE ~(k \in measured /\ HasRate(samples[<<k, s>>], reading[k][1].packets, timely))
    BY <1>5, <2>2 DEF TypeOK
  <2> QED
    BY <2>1, <2>2
<1>10. TypeOK'
  <2>1. permits' \subseteq permits
    BY DEF StatsReply, SweepBlockedForwarding
  <2>2. \A t \in Switches : Len(replies[t]) \in Nat
    BY LenProperties DEF TypeOK
  <2>3. /\ replies' \in [Switches -> Seq(Reply)]
        /\ \A t \in Switches : awaiting'[t] + Len(replies'[t]) <= MaxAwaiting
    BY <1>2, <1>3, <2>2, OrchestrationAssumption DEF TypeOK
  <2> QED
    BY <1>1, <1>2, <1>8, <1>9, <2>1, <2>3 DEF TypeOK, MitigatorTypeOK, bookVars, monitorVars
<1>11. BooksAgree' /\ Progress'
  BY <1>1, BooksFrame
<1>12. MeasurementsOnlyOfActive'
  BY <1>1, <1>5, <1>7 DEF MeasurementsOnlyOfActive, bookVars
<1>13. NoOrphanDrop' /\ Reachable' /\ ReleaseDeletes'
  BY <1>1 DEF NoOrphanDrop, Reachable, ReleaseDeletes, bookVars, monitorVars
<1> QED
  BY <1>10, <1>11, <1>12, <1>13

\* A switch joins or comes back: it may bring fewer rules, never more.
LEMMA SwitchFeaturesStep ==
  ASSUME IInv, NEW s \in Switches, NEW restarted \in BOOLEAN, SwitchFeatures(s, restarted)
  PROVE  IInv'
<1> USE DEF IInv
<1>1. /\ datapaths' = datapaths \cup {s}
      /\ connected' = connected \cup {s}
      /\ drops' \subseteq drops
      /\ permits' \subseteq permits
      /\ UNCHANGED <<blocked, bookVars, trafficVars, validated, monitorVars, statsVars>>
  BY DEF SwitchFeatures, Connect, Register, tableVars
<1>2. TypeOK'
  BY <1>1 DEF TypeOK, MitigatorTypeOK, bookVars, trafficVars, monitorVars, statsVars
<1>3. BooksAgree' /\ Progress'
  BY <1>1, BooksFrame
<1>4. MeasurementsOnlyOfActive' /\ NoOrphanDrop' /\ Reachable' /\ ReleaseDeletes'
  BY <1>1 DEF MeasurementsOnlyOfActive, NoOrphanDrop, Reachable, ReleaseDeletes, bookVars,
              trafficVars, monitorVars
<1> QED
  BY <1>2, <1>3, <1>4

\* Only a flaky switch loses its channel, and some of its replies.
LEMMA LoseChannelStep ==
  ASSUME IInv, NEW s \in Switches, LoseChannel(s)
  PROVE  IInv'
<1> USE DEF IInv
<1>1. /\ s \in Flaky
      /\ connected' = connected \ {s}
      /\ awaiting' = [awaiting EXCEPT ![s] = 0]
      /\ UNCHANGED <<datapaths, blocked, tableVars, bookVars, trafficVars, validated,
                     monitorVars>>
  BY DEF LoseChannel, Disconnect, LoseStats
<1>2. PICK n \in 0 .. Len(replies[s]) : replies' = [replies EXCEPT ![s] = SubSeq(@, 1, n)]
  BY DEF LoseChannel, LoseStats
<1>3. \A t \in Switches : Len(replies[t]) \in Nat /\ replies[t] \in Seq(Reply)
  BY LenProperties DEF TypeOK
<1>4. n \in Nat /\ n <= Len(replies[s])
  BY <1>3
<1>5. \A i \in 1 .. n : replies[s][i] \in Reply
  BY <1>3, <1>4, ElementOfSeq
<1>6. SubSeq(replies[s], 1, n) \in Seq(Reply) /\ Len(SubSeq(replies[s], 1, n)) = n
  BY <1>4, <1>5, SubSeqProperties
<1>7. /\ replies' \in [Switches -> Seq(Reply)]
      /\ awaiting' \in [Switches -> 0 .. MaxAwaiting]
      /\ \A t \in Switches : awaiting'[t] + Len(replies'[t]) <= MaxAwaiting
  BY <1>1, <1>2, <1>3, <1>4, <1>6, OrchestrationAssumption DEF TypeOK
<1>8. TypeOK'
  BY <1>1, <1>7 DEF TypeOK, MitigatorTypeOK, tableVars, bookVars, trafficVars, monitorVars
<1>9. BooksAgree' /\ Progress'
  BY <1>1, BooksFrame
<1>10. MeasurementsOnlyOfActive' /\ NoOrphanDrop' /\ Reachable' /\ ReleaseDeletes'
  BY <1>1 DEF MeasurementsOnlyOfActive, NoOrphanDrop, Reachable, ReleaseDeletes, tableVars,
              bookVars, trafficVars, monitorVars
<1> QED
  BY <1>8, <1>9, <1>10

\* Traffic: counters grow, forwarding entries come and go.
LEMMA TrafficStep ==
  ASSUME IInv,
         \/ \E s \in Switches, pkt \in Packets : PacketIn(s, pkt)
         \/ \E e \in drops : Attack(e)
         \/ \E p \in permits : PermitTimeout(p)
  PROVE  IInv'
<1> USE DEF IInv
<1>1. UNCHANGED <<datapaths, blocked, connected, bookVars, trafficVars, validated,
                  monitorVars, statsVars>>
  BY DEF PacketIn, Attack, PermitTimeout
<1>2. BooksAgree' /\ Progress'
  BY <1>1, BooksFrame
<1>3. MeasurementsOnlyOfActive'
  BY <1>1 DEF MeasurementsOnlyOfActive, bookVars, trafficVars
<1>4. ASSUME NEW e \in drops, Attack(e)
      PROVE  /\ drops' \subseteq FlowEntry /\ permits' = permits
             /\ \A f \in drops' : \E g \in drops : f.dpid = g.dpid /\ f.match = g.match
  <2> DEFINE hit == [e EXCEPT !.packets = @ + 1]
  <2>1. drops' = (drops \ {e}) \cup {hit} /\ permits' = permits
    BY <1>4 DEF Attack, DropHit
  <2>2. e \in FlowEntry
    BY DEF TypeOK, MitigatorTypeOK
  <2>3. hit \in FlowEntry /\ hit.dpid = e.dpid /\ hit.match = e.match
    BY <2>2 DEF FlowEntry
  <2> QED BY <2>1, <2>3 DEF TypeOK, MitigatorTypeOK
<1>5. ASSUME NEW s \in Switches, NEW pkt \in Packets, PacketIn(s, pkt)
      PROVE  drops' = drops /\ permits' \subseteq Switches \X Packet
  BY <1>5, OrchestrationAssumption DEF PacketIn, TypeOK, MitigatorTypeOK
<1>6. ASSUME NEW p \in permits, PermitTimeout(p)
      PROVE  drops' = drops /\ permits' \subseteq Switches \X Packet
  BY <1>6 DEF PermitTimeout, Expire, TypeOK, MitigatorTypeOK
<1>7. /\ drops' \subseteq FlowEntry /\ permits' \subseteq Switches \X Packet
      /\ \A f \in drops' : \E g \in drops : f.dpid = g.dpid /\ f.match = g.match
  BY <1>4, <1>5, <1>6 DEF TypeOK, MitigatorTypeOK
<1>8. TypeOK'
  BY <1>1, <1>7 DEF TypeOK, MitigatorTypeOK, bookVars, trafficVars, monitorVars, statsVars
<1>9. NoOrphanDrop' /\ Reachable' /\ ReleaseDeletes'
  BY <1>1, <1>7 DEF NoOrphanDrop, Reachable, ReleaseDeletes, bookVars, monitorVars
<1> QED
  BY <1>2, <1>3, <1>8, <1>9

\* Nothing happens.
LEMMA StutterStep ==
  ASSUME IInv, UNCHANGED vars
  PROVE  IInv'
<1>1. TypeOK'
  BY DEF IInv, vars, mitigatorVars, bookVars, trafficVars, monitorVars, statsVars, TypeOK,
         MitigatorTypeOK
<1>2. BooksAgree' /\ Progress'
  BY BooksFrame DEF vars, mitigatorVars
<1>3. MeasurementsOnlyOfActive' /\ NoOrphanDrop' /\ Reachable' /\ ReleaseDeletes'
  BY DEF IInv, MeasurementsOnlyOfActive, NoOrphanDrop, Reachable, ReleaseDeletes, vars,
         mitigatorVars, bookVars, trafficVars, monitorVars
<1> QED
  BY <1>1, <1>2, <1>3 DEF IInv

LEMMA NextIInv == IInv /\ [Next]_vars => IInv'
<1> SUFFICES ASSUME IInv, [Next]_vars PROVE IInv'
  OBVIOUS
<1>1. CASE CheckUnblocks
  BY <1>1, ReviewStep, ConfirmStep, DeleteOnStep, ReleasedStep DEF CheckUnblocks
<1>2. CASE Process
  BY <1>2, GroupStep, DispatchStep, InstallOnStep, RestOfMonitorStep DEF Process
<1>3. CASE Environment
  BY <1>3, AnswerStep, StatsReplyStep, SwitchFeaturesStep, LoseChannelStep, TrafficStep
     DEF Environment
<1>4. CASE UNCHANGED vars
  BY <1>4, StutterStep
<1> QED
  BY <1>1, <1>2, <1>3, <1>4, StartCycleStep, DetectStep, LoopRaisesStep, RestOfMonitorStep
     DEF Next, Monitor

-----------------------------------------------------------------------------
(* The theorems *)

THEOREM Invariance == Spec => []IInv
BY InitIInv, NextIInv, PTL DEF Spec

\* Every variable keeps its type, the count of quiet cycles its range among them.
THEOREM TypeCorrect == Spec => []TypeOK
BY Invariance, PTL DEF IInv

\* check_unblocks never meets a key without a streak, and every block the mitigator
\* holds is one the orchestrator will come back to.  The books differ by one key at
\* most: the one a release has begun, for good where a newcomer breaks the release off.
THEOREM BooksCorrect == Spec => []BooksAgree
BY Invariance, PTL DEF IInv

\* A block that begins again starts without a rate and without a sample.
THEOREM MeasurementsCorrect == Spec => []MeasurementsOnlyOfActive
BY Invariance, PTL DEF IInv

\* On a switch that keeps its channel no drop rule outlives its block.
THEOREM NoOrphans == Spec => []NoOrphanDrop
BY Invariance, PTL DEF IInv

-----------------------------------------------------------------------------
(* The refinement *)

\* A decision on a group is its key's alarm, unless no source of it is located.
LEMMA GroupAlarms ==
  ASSUME IInv, NEW k \in work, Group(k)
  PROVE  /\ k \in Keys /\ UNCHANGED bookVars
         /\ AlarmedKey = {} /\ AlarmedKey' \in {{k}, {}}
<1>1. k \in Keys
  BY DEF IInv, TypeOK
<1>2. UNCHANGED bookVars /\ pc = "process"
  BY DEF Group, Dismiss, DecideSource, DecideLowSlow, DecideDistributed, Decide
<1>3. AlarmedKey = {}
  BY <1>2 DEF AlarmedKey
<1>4. CASE Dismiss(k)
  BY <1>1, <1>2, <1>3, <1>4 DEF Dismiss, AlarmedKey
<1>5. ASSUME NEW actions, Decide(k, actions)
      PROVE  AlarmedKey' \in {{k}, {}}
  BY <1>5 DEF Decide, AlarmedKey
<1>6. AlarmedKey' \in {{k}, {}}
  BY <1>4, <1>5 DEF Group, DecideSource, DecideLowSlow, DecideDistributed
<1> QED
  BY <1>1, <1>2, <1>3, <1>6

\* The answer to an alarm: its key's streak is 0 until the last rule is installed.
LEMMA AnswersAlarm ==
  ASSUME IInv,
         (\E a \in job.actions : Dispatch(a)) \/ (\E s \in Switches : InstallOn(s))
  PROVE  /\ job.key \in Keys
         /\ AlarmedKey = {job.key} /\ AlarmedKey' \in {{job.key}, {}}
         /\ activeBlocks' = activeBlocks \cup {job.key}
         /\ streak' = [streak EXCEPT ![job.key] = 0]
<1> USE DEF IInv
<1>1. job.key \in Keys /\ job \in [key : Keys \cup {None}, actions : SUBSET Action,
                                   fresh : SUBSET Hosts]
  BY DEF Dispatch, InstallOn, TypeOK
<1>2. ASSUME NEW a \in job.actions, Dispatch(a)
      PROVE  /\ AlarmedKey = {job.key} /\ AlarmedKey' \in {{job.key}, {}}
             /\ activeBlocks' = activeBlocks \cup {job.key}
             /\ streak' = [streak EXCEPT ![job.key] = 0]
  <2>1. job'.key = job.key
    BY <1>1, <1>2 DEF Dispatch
  <2> QED BY <1>2, <2>1 DEF Dispatch, RestartedStreak, AlarmedKey
<1>3. ASSUME NEW s \in Switches, InstallOn(s)
      PROVE  /\ AlarmedKey = {job.key} /\ AlarmedKey' \in {{job.key}, {}}
             /\ activeBlocks' = activeBlocks \cup {job.key}
             /\ streak' = [streak EXCEPT ![job.key] = 0]
  <2>1. job.key \in activeBlocks /\ streak[job.key] = 0
    BY <1>3 DEF InstallOn, Progress
  <2>2. UNCHANGED <<job, activeBlocks, streak>>
    BY <1>3 DEF InstallOn, bookVars
  <2>3. streak' = [streak EXCEPT ![job.key] = 0]
    BY <1>1, <2>1, <2>2 DEF TypeOK
  <2> QED BY <1>3, <2>1, <2>2, <2>3 DEF InstallOn, AlarmedKey
<1> QED
  BY <1>1, <1>2, <1>3

\* The steps that touch neither the books nor an alarm.
LEMMA BooksStand ==
  ASSUME \/ StartCycle
         \/ \E s \in Switches : DeleteOn(s) \/ ClearOn(s)
         \/ \E seen \in SUBSET Dsts, flagged \in SUBSET Keys : Detect(seen, flagged)
         \/ FinishGroup \/ ClearDone \/ LoopRaises \/ EndCycle
         \/ Environment
         \/ UNCHANGED vars
  PROVE  UNCHANGED <<AlarmedKey, activeBlocks, streak>>
<1>1. CASE Environment \/ UNCHANGED vars
  <2>1. UNCHANGED <<bookVars, monitorVars>>
    BY <1>1 DEF Environment, Answer, StatsReply, PacketIn, SwitchFeatures, LoseChannel,
                Attack, PermitTimeout, vars
  <2> QED BY <2>1 DEF bookVars, monitorVars, AlarmedKey
<1>2. CASE ~(Environment \/ UNCHANGED vars)
  <2>1. UNCHANGED bookVars
    BY <1>2 DEF StartCycle, DeleteOn, ClearOn, Detect, FinishGroup, ClearDone, LoopRaises,
                EndCycle
  <2>2. AlarmedKey = {} /\ AlarmedKey' = {}
    BY <1>2 DEF StartCycle, DeleteOn, ClearOn, Detect, FinishGroup, ClearDone, LoopRaises,
                EndCycle, AlarmedKey
  <2> QED BY <2>1, <2>2 DEF bookVars
<1> QED
  BY <1>1, <1>2

\* The review of one key counts, and neither answers nor lifts anything.
LEMMA ReviewCounts ==
  ASSUME IInv, NEW k \in work, Review(k) \/ Confirm(k)
  PROVE  /\ k \in Keys /\ k \in activeBlocks /\ streak[k] \in Nat
         /\ AlarmedKey = {} /\ AlarmedKey' = {}
         /\ activeBlocks' = activeBlocks
         /\ \E quiet \in BOOLEAN :
              streak' = [streak EXCEPT ![k] = IF quiet THEN @ + 1 ELSE 0]
<1> USE DEF IInv
<1>1. k \in Keys /\ k \in activeBlocks /\ streak[k] \in Nat
  BY StreakIsNumber, OrchestrationAssumption DEF Review, Confirm, Progress, HalfReleased, TypeOK
<1>2. activeBlocks' = activeBlocks /\ AlarmedKey = {} /\ AlarmedKey' = {}
  BY DEF Review, Confirm, AlarmedKey
<1>3. CASE Review(k)
  <2>1. streak' = [streak EXCEPT ![k] = IF ~Loud(k) THEN @ + 1 ELSE 0]
    BY <1>3 DEF Review
  <2>2. (~Loud(k)) \in BOOLEAN
    OBVIOUS
  <2> QED BY <1>1, <1>2, <2>1, <2>2
<1>4. CASE Confirm(k)
  <2>1. streak' = [streak EXCEPT ![k] = IF TRUE THEN @ + 1 ELSE 0]
    BY <1>4 DEF Confirm
  <2> QED BY <1>1, <1>2, <2>1
<1> QED
  BY <1>3, <1>4

\* A release ends with a key whose streak has reached its length.
LEMMA ReleaseLifts ==
  ASSUME IInv, Released
  PROVE  /\ loop.key \in Keys /\ loop.key \in activeBlocks
         /\ streak[loop.key] >= ConfirmCycles
         /\ AlarmedKey = {} /\ AlarmedKey' = {}
         /\ activeBlocks' = activeBlocks \ {loop.key}
         /\ streak' = [streak EXCEPT ![loop.key] = None]
BY DEF IInv, TypeOK, Progress, Released, AlarmedKey

\* Every step is a step of the policy on the books, or none.
LEMMA BooksStep ==
  ASSUME IInv, [Next]_vars
  PROVE  Books!Next \/ UNCHANGED <<AlarmedKey, activeBlocks, CalmIn(activeBlocks)>>
<1> DEFINE calm == CalmIn(activeBlocks)
<1>0. /\ activeBlocks \subseteq Keys /\ streak \in [Keys -> 0 .. ConfirmCycles \cup {None}]
  BY DEF IInv, TypeOK
<1>1. calm = [k \in Keys |-> IF k \in activeBlocks THEN streak[k] ELSE 0]
      /\ calm' = [k \in Keys |-> IF k \in activeBlocks' THEN streak'[k] ELSE 0]
  BY DEF CalmIn
<1>2. ASSUME NEW k \in work, Review(k) \/ Confirm(k)
      PROVE  Books!Next
  <2>1. /\ k \in Keys /\ k \in activeBlocks /\ AlarmedKey = {} /\ AlarmedKey' = {}
        /\ activeBlocks' = activeBlocks
    BY <1>2, ReviewCounts
  <2>2. PICK quiet \in BOOLEAN : streak' = [streak EXCEPT ![k] = IF quiet THEN @ + 1 ELSE 0]
    BY <1>2, ReviewCounts
  <2>3. calm' = [calm EXCEPT ![k] = IF quiet THEN @ + 1 ELSE 0]
    BY <1>0, <1>1, <2>1, <2>2
  <2>4. Books!Review(k, quiet)
    BY <2>1, <2>3 DEF Books!Review
  <2> QED BY <2>1, <2>4 DEF Books!Next
<1>3. ASSUME Released PROVE Books!Next
  <2>1. /\ loop.key \in Keys /\ loop.key \in activeBlocks
        /\ streak[loop.key] >= ConfirmCycles
        /\ AlarmedKey = {} /\ AlarmedKey' = {}
        /\ activeBlocks' = activeBlocks \ {loop.key}
        /\ streak' = [streak EXCEPT ![loop.key] = None]
    BY <1>3, ReleaseLifts
  <2>2. calm' = [calm EXCEPT ![loop.key] = 0] /\ calm[loop.key] >= ConfirmCycles
    BY <1>0, <1>1, <2>1
  <2>3. Books!Lift(loop.key)
    BY <2>1, <2>2 DEF Books!Lift
  <2> QED BY <2>1, <2>3 DEF Books!Next
<1>4. ASSUME (\E a \in job.actions : Dispatch(a)) \/ (\E s \in Switches : InstallOn(s))
      PROVE  Books!Next
  <2>1. /\ job.key \in Keys
        /\ AlarmedKey = {job.key} /\ AlarmedKey' \in {{job.key}, {}}
        /\ activeBlocks' = activeBlocks \cup {job.key}
        /\ streak' = [streak EXCEPT ![job.key] = 0]
    BY <1>4, AnswersAlarm
  <2>2. calm' = [calm EXCEPT ![job.key] = 0]
    BY <1>0, <1>1, <2>1
  <2>3. Books!Raise(job.key)
    BY <2>1, <2>2 DEF Books!Raise
  <2> QED BY <2>1, <2>3 DEF Books!Next
<1>5. ASSUME NEW k \in work, Group(k)
      PROVE  Books!Next \/ UNCHANGED <<AlarmedKey, activeBlocks, calm>>
  <2>1. k \in Keys /\ UNCHANGED bookVars /\ AlarmedKey = {} /\ AlarmedKey' \in {{k}, {}}
    BY <1>5, GroupAlarms
  <2>2. UNCHANGED <<activeBlocks, calm>>
    BY <2>1 DEF bookVars, CalmIn
  <2>3. CASE AlarmedKey' = {}
    BY <2>1, <2>2, <2>3
  <2>4. CASE AlarmedKey' = {k}
    BY <2>1, <2>2, <2>4 DEF Books!Alarm, Books!Next
  <2> QED BY <2>1, <2>3, <2>4
<1>6. ASSUME UNCHANGED <<AlarmedKey, activeBlocks, streak>>
      PROVE  UNCHANGED <<AlarmedKey, activeBlocks, calm>>
  BY <1>6 DEF CalmIn
<1> QED
  BY <1>2, <1>3, <1>4, <1>5, <1>6, BooksStand DEF Next, Monitor, CheckUnblocks, Process

\* A block ends only after ConfirmCycles quiet reviews in a row since its last alarm:
\* the orchestrator's books implement BlockPolicy.
THEOREM BooksRefinePolicy == Spec => BooksFollowPolicy
<1>1. Init => Books!Init
  BY DEF Init, Books!Init, CalmIn, AlarmedKey
<1>2. IInv /\ [Next]_vars => [Books!Next]_(Books!vars)
  BY BooksStep DEF Books!vars
<1> QED
  BY <1>1, <1>2, Invariance, PTL DEF Spec, BooksFollowPolicy, Books!Spec

-----------------------------------------------------------------------------
(* The loops over the datapaths and those who join them *)

\* The switches that are there from the start stay registered, and a loop knows them;
\* the monitor only dies of one that has joined since.
Registered ==
  /\ Switches \ Late \subseteq datapaths
  /\ pc \in {"release", "clear", "dead"} =>
       Switches \ Late \subseteq loop.known /\ loop.known \subseteq datapaths
  /\ pc = "dead" => loop.known # datapaths

LEMMA InitRegistered == Init => Registered
BY DEF Init, MitigatorInit, Registered

\* No step takes a switch out of the books: the application does not deregister one
\* whose channel goes.
LEMMA DatapathsGrow ==
  ASSUME [Next]_vars
  PROVE  datapaths \subseteq datapaths'
<1>1. CASE Monitor
  BY <1>1 DEF Monitor, StartCycle, CheckUnblocks, Review, Confirm, DeleteOn, Released,
              LoopRaises, Detect, Process, Group, Dismiss, DecideSource, DecideLowSlow,
              DecideDistributed, Decide, Dispatch, InstallOn, FinishGroup, ClearOn,
              ClearDone, EndCycle, mitigatorVars
<1>2. CASE Environment
  BY <1>2 DEF Environment, Answer, StatsReply, PacketIn, SwitchFeatures, Register,
              LoseChannel, Attack, PermitTimeout, mitigatorVars
<1>3. CASE UNCHANGED vars
  BY <1>3 DEF vars, mitigatorVars
<1> QED BY <1>1, <1>2, <1>3 DEF Next

LEMMA RegisteredStep ==
  ASSUME TypeOK, Registered, [Next]_vars
  PROVE  Registered'
<1>1. Switches \ Late \subseteq datapaths /\ datapaths \subseteq datapaths'
  BY DatapathsGrow DEF Registered
<1>2. CASE UNCHANGED <<pc, loop>>
  <2>1. pc = "dead" => loop.known # datapaths'
    BY <1>1 DEF Registered
  <2> QED BY <1>1, <1>2, <2>1 DEF Registered
<1>3. CASE pc' \notin {"release", "clear", "dead"}
  BY <1>1, <1>3 DEF Registered
<1>4. ASSUME pc' \in {"release", "clear"}, loop'.known = datapaths
      PROVE  Registered'
  BY <1>1, <1>4 DEF Registered
<1>5. CASE FinishGroup
  BY <1>3, <1>4, <1>5 DEF FinishGroup, NoLoop
<1>6. ASSUME NEW k \in work, Confirm(k) PROVE Registered'
  BY <1>4, <1>6 DEF Confirm, NoLoop
<1>7. CASE LoopRaises
  BY <1>7 DEF Registered, LoopRaises, mitigatorVars
<1>8. ASSUME NEW s \in Switches, DeleteOn(s) \/ ClearOn(s) PROVE Registered'
  <2>1. /\ pc' \in {"release", "clear"} /\ datapaths = loop.known
        /\ loop' = [loop EXCEPT !.left = @ \ {s}]
    BY <1>8 DEF DeleteOn, ClearOn
  <2>2. loop'.known = loop.known
    BY <2>1 DEF TypeOK
  <2> QED BY <1>4, <2>1, <2>2
<1>9. CASE Environment \/ UNCHANGED vars
  BY <1>2, <1>9 DEF Environment, Answer, StatsReply, PacketIn, SwitchFeatures,
                    LoseChannel, Attack, PermitTimeout, vars, monitorVars
<1>10. CASE \/ StartCycle \/ Released \/ ClearDone \/ EndCycle
            \/ \E k \in work : Review(k) \/ Group(k)
            \/ \E seen \in SUBSET Dsts, flagged \in SUBSET Keys : Detect(seen, flagged)
            \/ \E a \in job.actions : Dispatch(a)
            \/ \E s \in Switches : InstallOn(s)
  BY <1>3, <1>10
     DEF StartCycle, Released, ClearDone, EndCycle, Review, Group, Dismiss, DecideSource,
         DecideLowSlow, DecideDistributed, Decide, Detect, Dispatch, InstallOn
<1> QED
  BY <1>5, <1>6, <1>7, <1>8, <1>9, <1>10 DEF Next, Monitor, CheckUnblocks, Process

\* A switch that loses its channel and comes back, restarted or not, never ends the
\* monitor, whenever it does so: only a switch the controller had not met can.
THEOREM NewcomersOnly == Spec => []OnlyNewcomersEndMonitor
<1>1. TypeOK /\ Registered => OnlyNewcomersEndMonitor
  <2> SUFFICES ASSUME TypeOK, Registered, pc = "dead"
               PROVE  (datapaths \cap Late) \ loop.known # {}
    BY DEF OnlyNewcomersEndMonitor
  <2>1. PICK s \in datapaths : s \notin loop.known
    BY DEF Registered
  <2>2. s \in Late
    BY <2>1 DEF Registered, TypeOK, MitigatorTypeOK
  <2> QED BY <2>1, <2>2
<1>2. TypeOK /\ Registered /\ [Next]_vars => Registered'
  BY RegisteredStep
<1>3. Spec => []Registered
  BY <1>2, InitRegistered, TypeCorrect, PTL DEF Spec
<1> QED BY <1>1, <1>3, TypeCorrect, PTL

=============================================================================
