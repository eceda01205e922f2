---------------------------- MODULE Orchestration ----------------------------
(***************************************************************************)
(* orchestration/controller.py, over the mitigator and the switches, as    *)
(* controller/ryu_controller_2.py drives it.                               *)
(*                                                                         *)
(* Two greenthreads share this state.  The monitor runs the pipeline once  *)
(* per cycle: release, detect, validate, then one group of detections      *)
(* after another; it gives up control while it sleeps, before each message *)
(* it sends (send_msg waits when a datapath's queue is full) and between   *)
(* the switches of a clean-up (yield_fn).  The Ryu handlers run one at a   *)
(* time whenever the monitor is not running.                               *)
(*                                                                         *)
(* What telemetry and detection decide is chosen freely: which keys are    *)
(* flagged, which destinations were seen and where a source enters.        *)
(***************************************************************************)
EXTENDS OpenFlowMitigator, Sequences

CONSTANTS
  Locations,      \* the ports sources are found to enter on
  Packets,        \* the packets that may come up to the controller
  ConfirmCycles,  \* UNBLOCK_CONFIRM_CYCLES
  ReleaseRate,    \* key -> UNBLOCK_RATIO of its threshold, in packets a cycle
  MaxAwaiting     \* bound: flow-stats requests of a switch not yet handled

ASSUME OrchestrationAssumption ==
  /\ Locations \subseteq Location
  /\ Packets \subseteq Packet
  /\ ConfirmCycles \in Nat \ {0}
  /\ ReleaseRate \in [Keys -> Nat \ {0}]
  /\ MaxAwaiting \in Nat \ {0}

VARIABLES
  activeBlocks,  \* _active_blocks: the keys under a block
  streak,        \* _below_threshold_streak: None when the key is absent
  samples,       \* _block_traffic_samples: last packet count read, or None
  blockPps,      \* _block_pps: 0 when the key is absent, as get(key, 0.0) reads it
  validated,     \* _validated_destinations
  pc,            \* where the monitor is
  work,          \* keys still to review, then keys of the groups still to process
  job,           \* the group at hand: its actions and what it newly enforced
  loop,          \* the loop over the datapaths under way: of unblock(key), of
                 \* block(key) at loc, or of clear_forwarding_rules(key.dst, sources)
  awaiting,      \* flow-stats requests a switch has yet to answer
  replies        \* what its answers held, until their handler runs

bookVars == <<activeBlocks, streak>>
trafficVars == <<samples, blockPps>>
monitorVars == <<pc, work, job, loop>>
statsVars == <<awaiting, replies>>
vars == <<mitigatorVars, bookVars, trafficVars, validated, monitorVars, statsVars>>

AnyLocation == Locations \cup {Nowhere}
Action == [loc : AnyLocation, sources : SUBSET Hosts]
NoJob == [key |-> None, actions |-> {}, fresh |-> {}]
NoLoop == [key |-> None, loc |-> Nowhere, sources |-> {}, left |-> {}, known |-> {}]
Reply == [drops : SUBSET FlowEntry, pairs : SUBSET (Hosts \X Dsts)]

TypeOK ==
  /\ MitigatorTypeOK
  /\ activeBlocks \subseteq Keys
  /\ streak \in [Keys -> 0 .. ConfirmCycles \cup {None}]
  /\ samples \in [Keys \X Switches -> Nat \cup {None}]
  /\ blockPps \in [Keys -> Nat]
  /\ validated \subseteq Dsts
  /\ pc \in {"sleep", "review", "release", "process", "dispatch", "install", "clear", "dead"}
  /\ work \subseteq Keys
  /\ job \in [key : Keys \cup {None}, actions : SUBSET Action, fresh : SUBSET Hosts]
  /\ pc \in {"dispatch", "install"} => job.key \in Keys
  /\ loop \in [key : Keys \cup {None}, loc : AnyLocation, sources : SUBSET Hosts,
               left : SUBSET Switches, known : SUBSET Switches]
  /\ pc \in {"release", "install", "clear"} => loop.key \in Keys
  /\ awaiting \in [Switches -> 0 .. MaxAwaiting]
  /\ replies \in [Switches -> Seq(Reply)]
  /\ \A s \in Switches : awaiting[s] + Len(replies[s]) <= MaxAwaiting

Init ==
  /\ MitigatorInit
  /\ activeBlocks = {}
  /\ streak = [k \in Keys |-> None]
  /\ samples = [x \in Keys \X Switches |-> None]
  /\ blockPps = [k \in Keys |-> 0]
  /\ validated = {}
  /\ pc = "sleep" /\ work = {} /\ job = NoJob /\ loop = NoLoop
  /\ awaiting = [s \in Switches |-> 0]
  /\ replies = [s \in Switches |-> <<>>]

-----------------------------------------------------------------------------
(* The monitor: check_unblocks(), one key after another *)

StartCycle ==
  /\ pc = "sleep"
  /\ pc' = "review"
  /\ work' = activeBlocks
  /\ UNCHANGED <<mitigatorVars, bookVars, trafficVars, validated, job, loop, statsVars>>

Loud(k) == blockPps[k] >= ReleaseRate[k]

\* Mutants: a cycle late, and a cycle early.
ConfirmedLate(k) == streak[k] + 1 > ConfirmCycles
ConfirmedEarly(k) == streak[k] + 2 >= ConfirmCycles

Confirmed(k) == streak[k] + 1 >= ConfirmCycles

Review(k) ==
  /\ pc = "review" /\ k \in work
  /\ Loud(k) \/ ~Confirmed(k)
  /\ streak' = [streak EXCEPT ![k] = IF Loud(k) THEN 0 ELSE @ + 1]
  /\ work' = work \ {k}
  /\ UNCHANGED <<mitigatorVars, activeBlocks, trafficVars, validated, pc, job, loop, statsVars>>

\* The last quiet review calls unblock(), which forgets the key before its first send
\* and returns at once when it held no entry.
Confirm(k) ==
  /\ pc = "review" /\ k \in work
  /\ ~Loud(k) /\ Confirmed(k)
  /\ streak' = [streak EXCEPT ![k] = @ + 1]
  /\ work' = work \ {k}
  /\ ForgetBlock(k)
  /\ loop' = [NoLoop EXCEPT !.key = k, !.known = datapaths,
                            !.left = IF k \in BlockedKeys THEN datapaths ELSE {}]
  /\ pc' = "release"
  /\ UNCHANGED <<datapaths, connected, tableVars, activeBlocks, trafficVars, validated,
                 job, statsVars>>

DeleteOn(s) ==
  /\ pc = "release" /\ s \in loop.left /\ datapaths = loop.known
  /\ DeleteDropRule(s, loop.key)
  /\ loop' = [loop EXCEPT !.left = @ \ {s}]
  /\ UNCHANGED <<datapaths, blocked, connected, bookVars, trafficVars, validated,
                 pc, work, job, statsVars>>

\* A mutant: the samples stay.
ForgetRateOnly(k) ==
  /\ blockPps' = [blockPps EXCEPT ![k] = 0]
  /\ samples' = samples

ForgetBlockTraffic(k) ==
  /\ blockPps' = [blockPps EXCEPT ![k] = 0]
  /\ samples' = [x \in Keys \X Switches |-> IF x[1] = k THEN None ELSE samples[x]]

\* unblock() has returned: the orchestrator's own books follow.
Released ==
  /\ pc = "release" /\ loop.left = {} /\ datapaths = loop.known
  /\ activeBlocks' = activeBlocks \ {loop.key}
  /\ streak' = [streak EXCEPT ![loop.key] = None]
  /\ ForgetBlockTraffic(loop.key)
  /\ validated' = validated \ {loop.key.dst}
  /\ loop' = NoLoop
  /\ pc' = "review"
  /\ UNCHANGED <<mitigatorVars, work, job, statsVars>>

\* "dictionary changed size during iteration", in the loop of unblock() or of
\* clear_forwarding_rules(): nothing on the way up catches it, and the monitor's
\* greenthread ends.
LoopRaises ==
  /\ pc \in {"release", "clear"} /\ datapaths # loop.known
  /\ pc' = "dead"
  /\ UNCHANGED <<mitigatorVars, bookVars, trafficVars, validated, work, job, loop, statsVars>>

\* seen are the destinations with telemetry this cycle, flagged the identities of
\* the detections.  validate() follows, then process().
Detect(seen, flagged) ==
  /\ pc = "review" /\ work = {}
  /\ validated' = validated \cup (seen \ {k.dst : k \in flagged})
  /\ work' = flagged
  /\ pc' = "process"
  /\ UNCHANGED <<mitigatorVars, bookVars, trafficVars, job, loop, statsVars>>

-----------------------------------------------------------------------------
(* The monitor: process() *)

\* DecisionEngine.evaluate returned None.
Dismiss(k) ==
  /\ pc = "process" /\ k \in work
  /\ work' = work \ {k}
  /\ UNCHANGED <<mitigatorVars, bookVars, trafficVars, validated, pc, job, loop, statsVars>>

\* One action for each distinct location of the sources, none for a source with
\* no location.  entry is where each source of the detection enters.
ActionsOf(entry) ==
  {[loc |-> l, sources |-> {h \in DOMAIN entry : entry[h] = l}] :
     l \in {entry[h] : h \in DOMAIN entry} \ {Nowhere}}

Decide(k, actions) ==
  /\ pc = "process" /\ k \in work
  /\ work' = work \ {k}
  /\ job' = [key |-> k, actions |-> actions, fresh |-> {}]
  /\ pc' = "dispatch"
  /\ UNCHANGED <<mitigatorVars, bookVars, trafficVars, validated, loop, statsVars>>

\* One source: the host's ARP-learned location, if it has one.
DecideSource(k, loc) ==
  k.src # Any /\ Decide(k, {[loc |-> loc, sources |-> {}]})

\* LOW_SLOW counted over a destination: no source to locate, nor to clean up after.
DecideLowSlow(k) ==
  k.src = Any /\ k.proto = Any /\ Decide(k, {[loc |-> Nowhere, sources |-> {}]})

DecideDistributed(k, entry) == k.src = Any /\ Decide(k, ActionsOf(entry))

\* A mutant: only a new block starts counting from 0.
StreakOfNewOnly(k) == IF k \in activeBlocks THEN streak ELSE [streak EXCEPT ![k] = 0]

\* Every alarm starts the count again.
RestartedStreak(k) == [streak EXCEPT ![k] = 0]

\* _dispatch, down to block()'s first send: an action counts as newly enforced when
\* its key was not active yet.  The switches are a copy: no newcomer disturbs them.
Dispatch(a) ==
  LET k == job.key
      targets == BlockTargets(k, a.loc.dpid) IN
  /\ pc = "dispatch" /\ a \in job.actions
  /\ activeBlocks' = activeBlocks \cup {k}
  /\ streak' = RestartedStreak(k)
  /\ blocked' = blocked \cup {<<k, a.loc.dpid>>}
  /\ job' = [job EXCEPT !.actions = @ \ {a},
                        !.fresh = IF k \in activeBlocks THEN @ ELSE @ \cup a.sources]
  /\ IF targets = {}
     THEN UNCHANGED <<pc, loop>>
     ELSE /\ pc' = "install"
          /\ loop' = [NoLoop EXCEPT !.key = k, !.loc = a.loc, !.left = targets]
  /\ UNCHANGED <<datapaths, connected, tableVars, trafficVars, validated, work, statsVars>>

InstallOn(s) ==
  /\ pc = "install" /\ s \in loop.left
  /\ InstallDropRule(s, loop.key, loop.loc)
  /\ IF loop.left = {s}
     THEN pc' = "dispatch" /\ loop' = NoLoop
     ELSE loop' = [loop EXCEPT !.left = @ \ {s}] /\ UNCHANGED pc
  /\ UNCHANGED <<datapaths, blocked, connected, permits, bookVars, trafficVars, validated,
                 work, job, statsVars>>

\* Every action of the group is live: clean up after its newly enforced sources.
FinishGroup ==
  /\ pc = "dispatch" /\ job.actions = {}
  /\ IF job.fresh = {}
     THEN pc' = "process" /\ UNCHANGED loop
     ELSE /\ pc' = "clear"
          /\ loop' = [NoLoop EXCEPT !.key = job.key, !.sources = job.fresh,
                                    !.left = datapaths, !.known = datapaths]
  /\ job' = NoJob
  /\ UNCHANGED <<mitigatorVars, bookVars, trafficVars, validated, work, statsVars>>

ClearOn(s) ==
  /\ pc = "clear" /\ s \in loop.left /\ datapaths = loop.known
  /\ ClearForwarding(s, loop.key.dst, loop.sources)
  /\ loop' = [loop EXCEPT !.left = @ \ {s}]
  /\ UNCHANGED <<datapaths, blocked, connected, drops, bookVars, trafficVars,
                 validated, pc, work, job, statsVars>>

ClearDone ==
  /\ pc = "clear" /\ loop.left = {} /\ datapaths = loop.known
  /\ pc' = "process"
  /\ loop' = NoLoop
  /\ UNCHANGED <<mitigatorVars, bookVars, trafficVars, validated, work, job, statsVars>>

\* The next round of requests, then the sleep.
EndCycle ==
  /\ pc = "process" /\ work = {}
  /\ pc' = "sleep"
  /\ awaiting' = [s \in Switches |->
                    IF /\ s \in datapaths \cap connected
                       /\ awaiting[s] + Len(replies[s]) < MaxAwaiting
                    THEN awaiting[s] + 1 ELSE awaiting[s]]
  /\ UNCHANGED <<mitigatorVars, bookVars, trafficVars, validated, work, job, loop, replies>>

-----------------------------------------------------------------------------
(* The handlers *)

\* The pairs that have a forwarding entry in the table of s.
PairsOn(s) == {<<p[2].src, p[2].dst>> : p \in {q \in permits : q[1] = s}}

\* A switch answers with its table as it is now; the reply is handled later.
Answer(s) ==
  /\ s \in connected /\ awaiting[s] > 0
  /\ awaiting' = [awaiting EXCEPT ![s] = @ - 1]
  /\ replies' = [replies EXCEPT ![s] =
                    Append(@, [drops |-> {e \in drops : e.dpid = s},
                               pairs |-> PairsOn(s)])]
  /\ UNCHANGED <<mitigatorVars, bookVars, trafficVars, validated, monitorVars>>

\* sweep_blocked_forwarding: is the pair of a forwarding entry under a block?
UnderBlock(pair) ==
  \E k \in activeBlocks : k.dst = pair[2] /\ k.src \in {Any, pair[1]}

\* A mutant: a block on a whole destination sweeps nothing.
SweepBlockedPairs(pairs) ==
  permits' = {p \in permits :
                ~(/\ p[1] \in datapaths \cap connected
                  /\ \E q \in pairs, k \in activeBlocks :
                       q = <<p[2].src, p[2].dst>> /\ <<k.src, k.dst>> = q)}

\* The entries a reply shows under a block go from every switch.
SweepBlockedForwarding(pairs) ==
  permits' = {p \in permits :
                ~(/\ p[1] \in datapaths \cap connected
                  /\ <<p[2].src, p[2].dst>> \in {q \in pairs : UnderBlock(q)})}

\* The entries of a reply that a key matches are read in the table's order; all
\* but the first follow a sample taken at the same instant and give no rate.
Readings(entries) ==
  {r \in entries \X entries : r[1] = r[2] => entries = {r[1]}}

\* A mutant: a counter that stands still gives no rate.
HasMovingRate(prev, packets, timely) == timely /\ prev # None /\ packets > prev

\* Does a reading give a rate?
HasRate(prev, packets, timely) == timely /\ prev # None /\ packets >= prev

\* record_block_traffic.  timely: MIN_FLOW_RATE_DT has passed since the last sample.
RecordBlockTraffic(s, table, timely) ==
  LET entries == [k \in activeBlocks |-> {e \in table : StatMatchesBlock(e.match, k)}]
      measured == {k \in activeBlocks : entries[k] # {}}
  IN \E reading \in [measured -> UNION {Readings(entries[k]) : k \in measured}] :
       /\ \A k \in measured : reading[k] \in Readings(entries[k])
       /\ samples' = [x \in Keys \X Switches |->
                        IF x[1] \in measured /\ x[2] = s
                        THEN reading[x[1]][2].packets ELSE samples[x]]
       /\ blockPps' = [k \in Keys |->
                         IF /\ k \in measured
                            /\ HasRate(samples[<<k, s>>], reading[k][1].packets, timely)
                         THEN reading[k][1].packets - samples[<<k, s>>] ELSE blockPps[k]]

\* The sweep and the measurement see the table as it was when the switch answered.
StatsReply(s, timely) ==
  /\ replies[s] # <<>>
  /\ SweepBlockedForwarding(Head(replies[s]).pairs)
  /\ RecordBlockTraffic(s, Head(replies[s]).drops, timely)
  /\ replies' = [replies EXCEPT ![s] = Tail(@)]
  /\ UNCHANGED <<datapaths, blocked, connected, drops, bookVars, validated, monitorVars,
                 awaiting>>

\* A mutant: the blocks on a whole destination are forgotten.
IsBlockedExactly(pkt) ==
  [src |-> pkt.src, dst |-> pkt.dst, port |-> pkt.port, proto |-> pkt.proto] \in activeBlocks

\* is_blocked: the packet's own identity, or that of its destination.
IsBlocked(pkt) ==
  \E src \in {pkt.src, Any} :
    [src |-> src, dst |-> pkt.dst, port |-> pkt.port, proto |-> pkt.proto] \in activeBlocks

\* LearningSwitch caches a rule for a packet that is not under a block, once it
\* knows the way; a validated destination only gets a longer-lived one.  The packet
\* missed the table when it came, which need not be as it is now.
PacketIn(s, pkt) ==
  /\ s \in connected
  /\ ~IsBlocked(pkt)
  /\ permits' = permits \cup {<<s, pkt>>}
  /\ UNCHANGED <<datapaths, blocked, connected, drops, bookVars, trafficVars,
                 validated, monitorVars, statsVars>>

SwitchFeatures(s, restarted) ==
  /\ Connect(s, restarted)
  /\ restarted => s \in Flaky
  /\ Register(s)
  /\ UNCHANGED <<blocked, bookVars, trafficVars, validated, monitorVars, statsVars>>

\* The channel takes the requests with it, and the replies not yet received.
LoseStats(s) ==
  /\ awaiting' = [awaiting EXCEPT ![s] = 0]
  /\ \E n \in 0 .. Len(replies[s]) : replies' = [replies EXCEPT ![s] = SubSeq(@, 1, n)]

\* A mutant: the switch is deregistered when its channel goes.
LoseChannelDeregister(s) ==
  /\ Disconnect(s)
  /\ Deregister(s)
  /\ LoseStats(s)
  /\ UNCHANGED <<blocked, tableVars, bookVars, trafficVars, validated, monitorVars>>

\* The application does not hear of it: only the channel goes.
LoseChannel(s) ==
  /\ Disconnect(s)
  /\ LoseStats(s)
  /\ UNCHANGED <<datapaths, blocked, tableVars, bookVars, trafficVars, validated, monitorVars>>

Attack(e) ==
  /\ DropHit(e)
  /\ UNCHANGED <<datapaths, blocked, connected, permits, bookVars, trafficVars,
                 validated, monitorVars, statsVars>>

PermitTimeout(p) ==
  /\ Expire(p[1], p[2].src, p[2].dst)
  /\ UNCHANGED <<datapaths, blocked, connected, drops, bookVars, trafficVars,
                 validated, monitorVars, statsVars>>

-----------------------------------------------------------------------------
CheckUnblocks ==
  \/ \E k \in work : Review(k) \/ Confirm(k)
  \/ \E s \in Switches : DeleteOn(s)
  \/ Released

Group(k) ==
  \/ Dismiss(k)
  \/ \E loc \in AnyLocation : DecideSource(k, loc)
  \/ DecideLowSlow(k)
  \/ \E entry \in [Hosts -> AnyLocation] : DecideDistributed(k, entry)

Process ==
  \/ \E k \in work : Group(k)
  \/ \E a \in job.actions : Dispatch(a)
  \/ \E s \in Switches : InstallOn(s) \/ ClearOn(s)
  \/ FinishGroup
  \/ ClearDone

Monitor ==
  \/ StartCycle
  \/ CheckUnblocks
  \/ \E seen \in SUBSET Dsts, flagged \in SUBSET Keys : Detect(seen, flagged)
  \/ Process
  \/ LoopRaises
  \/ EndCycle

Environment ==
  \/ \E s \in Switches : Answer(s)
  \/ \E s \in Switches, timely \in BOOLEAN : StatsReply(s, timely)
  \/ \E s \in Switches, pkt \in Packets : PacketIn(s, pkt)
  \/ \E s \in Switches, restarted \in BOOLEAN : SwitchFeatures(s, restarted)
  \/ \E s \in Switches : LoseChannel(s)
  \/ \E e \in drops : Attack(e)
  \/ \E p \in permits : PermitTimeout(p)

Next == Monitor \/ Environment

Spec == Init /\ [][Next]_vars

\* The monitor is scheduled again whenever it has something to do; a switch that
\* keeps its channel answers, and COLLECT_INTERVAL keeps answers apart again and again.
Fairness ==
  /\ WF_vars(Monitor)
  /\ \A s \in Switches \ Flaky : WF_vars(Answer(s)) /\ SF_vars(StatsReply(s, TRUE))

FairSpec == Spec /\ Fairness

-----------------------------------------------------------------------------
(* Safety *)

\* The key a release under way, or broken off, has taken from the mitigator's book only.
HalfReleased ==
  IF pc = "release" \/ (pc = "dead" /\ loop.sources = {}) THEN {loop.key} ELSE {}

\* The three books agree: a key is active exactly when it has a streak and when
\* the mitigator holds an entry for it (a KeyError in check_unblocks otherwise,
\* or a block nothing will ever lift), but for the one key under release.
BooksAgree ==
  /\ activeBlocks = {k \in Keys : streak[k] # None}
  /\ BlockedKeys = activeBlocks \ HalfReleased

\* Only active blocks have measurements: a key blocked again starts from a fresh
\* sample, not from the counters of a rule deleted long ago.
MeasurementsOnlyOfActive ==
  /\ \A k \in Keys \ activeBlocks : blockPps[k] = 0
  /\ \A x \in Keys \X Switches : samples[x] # None => x[1] \in activeBlocks

\* On a switch that keeps its channel every drop rule belongs to an active block:
\* releasing a block leaves none of its rules behind, scoped or not.
NoOrphanDrop ==
  \A e \in drops :
    e.dpid \notin Flaky => \E k \in activeBlocks : StatMatchesBlock(e.match, k)

\* The switches block() has still to send the rules of b to.
Pending(b) == IF pc = "install" /\ b = <<loop.key, loop.loc.dpid>> THEN loop.left ELSE {}

\* A block the mitigator believes in is in the table of the switch it is scoped to,
\* or of every registered switch that was there from the start.
Enforced ==
  \A b \in blocked, s \in datapaths \ (Flaky \cup Late) :
    s \in ScopedTargets(b[2]) \ Pending(b) => DropsOf(b[1], s) # {}

\* A switch that comes back, with its table or without, never ends the monitor: only
\* one the controller has not met before can, by joining during one of its loops.
OnlyNewcomersEndMonitor ==
  pc = "dead" => (datapaths \cap Late) \ loop.known # {}

\* Behind the clean-up the sources it took out stay out: the blocks are live before
\* it starts, so no packet of the attack can cache its pair again on a switch that
\* has been done.  A packet the block's rule does not cover still can.
CleanedStaysClean ==
  pc = "clear" =>
    \A s \in loop.known \ (loop.left \cup Flaky), pkt \in Packets :
      /\ pkt.src \in loop.sources
      /\ Hits(DropMatch(loop.key, Any), pkt)
      => <<s, pkt>> \notin permits

-----------------------------------------------------------------------------
(* The promise *)

InTables == {k \in Keys : \E s \in Switches : DropsOf(k, s) # {}}
CalmIn(dropped) == [k \in Keys |-> IF k \in dropped THEN streak[k] ELSE 0]

\* The key whose alarm is being answered: an action or a rule of it is still to come.
AlarmedKey ==
  IF pc = "install" \/ (pc = "dispatch" /\ job.actions # {}) THEN {job.key} ELSE {}

Books == INSTANCE BlockPolicy
           WITH Flows <- Keys, alarmed <- AlarmedKey, dropped <- activeBlocks,
                calm <- CalmIn(activeBlocks)
Tables == INSTANCE BlockPolicy
            WITH Flows <- Keys, alarmed <- AlarmedKey, dropped <- InTables,
                 calm <- CalmIn(InTables)

\* What is_blocked answers follows the policy: a block ends only after ConfirmCycles
\* quiet reviews in a row since the last alarm.
BooksFollowPolicy == Books!Spec

\* And so does what the switches drop: a flow is in some table from the first rule of
\* its alarm's answer until the last delete of its release.
TablesFollowPolicy == Tables!Spec

(***************************************************************************)
(* Liveness                                                                *)
(***************************************************************************)

\* Once nothing is flagged any more every block is lifted in the end: its rule's
\* counter stands still, and check_unblocks gets to see that it does.
BlocksEnd ==
  <>[](pc \notin {"dispatch", "install", "clear"}) => <>[](activeBlocks = {})

\* A forwarding rule for a pair under a block, which the clean-up at block time may
\* have missed, is swept from every switch that keeps its channel, however long its
\* own timeout is, unless the block ends first.
SweptEventually ==
  \A s \in Switches \ Flaky, pair \in Hosts \X Dsts :
    LET stale == pair \in PairsOn(s) /\ UnderBlock(pair) IN stale ~> ~stale

=============================================================================
