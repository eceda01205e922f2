# A verification development for the multidomain DDoS controller

The repository is a Ryu application that detects denial-of-service traffic on
OpenFlow switches and installs drop rules against it. This directory holds TLA+
models of it, the TLC configurations that check them on small instances, and
TLAPS proofs of the main safety properties for every instance. Paths below are
relative to `src/`.

## 1. The system

### Components

| component | state | operations | talks to |
|---|---|---|---|
| `controller/ryu_controller_2.py` | `datapaths` | monitor loop and pipeline; handlers for switch features, packet-in, flow and port stats, topology events | everything below |
| `forwarding/learning_switch.py` | `mac_to_port`, `_ip_to_mac`, `_host_location`, `_router_ports` | `packet_in_handler`, `switch_features_handler`, `get_host_location`, `is_host_port`, `get_known_hosts` | asks the orchestrator (callbacks) before it caches a rule |
| `telemetry/openflow_adapter.py` | `_pending`, `_flow_meta`, `_low_volume_flow_counts` | `on_packet_in`, `on_flow_stats`, `collect`, `get_source_ingress`, ... | the two collectors; `is_host_port` |
| `collectors/flow_collector.py` | `prev_flows` | `process_stats`, `count_low_volume_flows` | - |
| `collectors/ddos_collector.py` | `stats`, `_connection_ports` | `process_packet`, `get_connection_port_counts` | - |
| `correlation/correlator.py` | `_buckets` | `ingest`, `correlate` | - |
| `detection/engine.py` | none | `analyze`, `analyze_low_slow`, `analyze_low_slow_single_source` | - |
| `decision/engine.py` | none | `evaluate` | - |
| `orchestration/controller.py` | `_active_blocks`, `_below_threshold_streak`, `_block_pps`, `_block_traffic_samples`, `_validated_destinations`, `_interswitch_ports` | `process`, `check_unblocks`, `validate`, `is_blocked`, `sweep_blocked_forwarding`, `record_block_traffic` | mitigator, decision engine, location callbacks |
| `mitigation/openflow_mitigator.py` | `_blocked`, `_datapaths` | `register`, `deregister`, `block`, `unblock`, `clear_forwarding_rules` | the switches |
| stub adapters, legacy controller/detectors/mitigator, `core/`, `web/`, `deploy/`, `topologies/` | | | see section 8 |

One cycle of the monitor: ask every switch for statistics, sleep 5 s, update the
topology, then collect, correlate, **release** (`check_unblocks`), detect, validate,
and process: decide for each group of detections, build one action for each place
traffic enters, install its drop rule, and clean up the forwarding rules of the
sources.

### What makes it hard

- *Interleaving.* Ryu runs the handlers of an application one after another on one
  greenthread, but the monitor is a second one. They share the orchestrator, the
  mitigator and the topology data, and switch wherever a call may give up control:
  `sleep`, `yield_fn`, `send_msg` when a queue is full, `emit_update`, a topology query.
- *Three books for one block.* `_active_blocks`, `_below_threshold_streak` and
  `_blocked` are updated in different methods, and the tables of the switches are a
  fourth record that no code reads back to reconcile.
- *Failure.* A switch may lose its channel (messages to it are lost), keep its table
  or come back empty, or join late. Nothing reinstalls rules.
- *A closed loop.* A blocked flow vanishes from telemetry, so release is decided from
  the counters of its drop rule, from samples that may be late, missing or mixed up.
- *Learnt facts that were wrong when learnt.* Where a source enters is recorded with
  what was known of the topology then.
- *Rules that know less than the code that makes them.* A forwarding rule matches
  addresses only. It cannot tell the protocols of a pair apart, so telemetry puts
  remembered labels on its counters; and it cannot tell a packet on its way to the
  router from the same packet on its way back.
- *Counters that start again.* A rule that comes back after it was gone has the key of
  the old one and a counter at 0, and replies may come late or close together.

### What makes each part correct

- orchestrator: the books agree; a block ends only after `UNBLOCK_CONFIRM_CYCLES` quiet
  cycles since the last alarm, and does end when the attack is over; measurements
  belong to the present block of a key;
- mitigator: a release leaves no rule behind and takes no other block's rule; what the
  clean-up removed stays out;
- location tracking: a host's port is never disowned; links settle on the discovered
  ones; wrong places heal;
- forwarding: a rule for a pair leads to the router at its source and to its destination
  at its end, whatever raced while it was made;
- telemetry: no packet is reported that was not forwarded, none of a rule that lives is
  missed, everything reported is collected once, and no label outlives its packets;
- detection and decision: every flood that is confirmed on its own gets blocked,
  whatever else runs; no attack competes with itself for a decision.

The hazards behind these are listed with their lines in `PROJECT.json`.

## 2. The modules

| module | models | kind |
|---|---|---|
| `OpenFlowTable` | matches, what an OpenFlow switch does with them, `_stat_matches_block` | operators |
| `OpenFlowMitigator` | the mitigator over channels and flow tables | state and operators |
| `Orchestration` | orchestrator + monitor + handlers, composed with the mitigator | specification |
| `BlockPolicy` | what is promised of a block | abstract specification |
| `OrchestrationClaims` | promises of docstrings that the code breaks | properties |
| `OrchestrationProofs` | theorems about `Orchestration`: the books | proofs |
| `EnforcementProofs` | theorems about `Orchestration`: tables, clean-ups, the monitor | proofs |
| `IngressTracking` | locations, router ports, `_flow_meta`, inter-switch ports | specification |
| `IngressProofs` | theorems about `IngressTracking` | proofs |
| `Forwarding` | `mac_to_port`, rules and packet-outs over the switches of the ring | specification |
| `ForwardingProofs` | theorems about `Forwarding` on every tree | proofs |
| `FlowCollector` | `process_stats` over flow tables and their replies | state and actions |
| `DDoSCollector` | the windows of `process_packet` | state and actions |
| `OpenFlowAdapter` | the adapter, composed with both collectors | specification |
| `OpenFlowAdapterProofs` | theorems about what is reported | proofs |
| `TelemetryProofs` | theorems about what is collected, and under which label | proofs |
| `SumProofs` | lemmas about sums over finite sets | proofs |
| `Detection` | detection and decision as operators over sets of events | operators |
| `FloodControl` | senders, telemetry, pipeline, rules, release: the closed loop | specification |
| `FloodControlProofs` | theorems about `FloodControl` and `Detection` | proofs |
| `MCOrchestration`, `MCIngressTracking`, `MCForwarding`, `MCOpenFlowAdapter`, `MCFloodControl` | small instances | model checking |

No module that a proof uses has a RECURSIVE operator; the one recursion (the digits of
a logarithm in `Detection`) is a recursive function.

### Orchestration: correspondence

`activeBlocks`, `streak`, `samples`, `blockPps`, `validated`, `blocked`, `datapaths` are
the dictionaries of the same names; a missing key is `None` (0 for `blockPps`, as
`get(key, 0.0)` reads it). `connected`, `drops` and `permits` are the switches: channels,
priority-100 and priority-10 entries. `pc`, `work`, `job` and `loop` say where the monitor
is: the keys or groups it has still to take, the actions of the group at hand, and the
loop over switches it is in. `awaiting` and `replies` are flow-stats requests not yet
answered and answers not yet handled.

| action | code |
|---|---|
| `StartCycle`, `Review` | `check_unblocks`, one key after another |
| `Confirm`, `DeleteOn`, `Released` | its last quiet review: `unblock` forgets the key and deletes switch by switch, then the orchestrator's own books follow |
| `Detect` | `analyze` with the LOW_SLOW analyses, and `validate` |
| `Dismiss`, `DecideSource`, `DecideLowSlow`, `DecideDistributed` | a group's turn in `process`: no decision, or the actions of `_build_actions` |
| `Dispatch`, `InstallOn` | `_dispatch`, and the flow-mods of `block` switch by switch |
| `FinishGroup`, `ClearOn`, `ClearDone` | the clean-up of a group, a switch at a time |
| `LoopRaises` | the dict of datapaths changed under the loop of `unblock` or of the clean-up |
| `EndCycle` | the next requests and the sleep |
| `Answer`, `StatsReply` | a switch answers with its table of that moment; `flow_stats_reply_handler` later: sweep, then measurement |
| `PacketIn`, `SwitchFeatures` | the handlers |
| `LoseChannel`, `Attack`, `PermitTimeout` | the environment: channels, dropped packets, timeouts |

What telemetry and detection produce is chosen freely: any set of keys may be flagged in
any cycle, any destination seen, any source found at any location or nowhere.

Between the switches of a loop any handler may run, since `send_msg` waits when a queue is
full. `block` iterates a copy of its targets and so does not notice a newcomer; `unblock`
and the clean-up iterate the live dict and do. LOW_SLOW has no sources, so no clean-up
follows it (`DecideLowSlow`).

Abstractions: a handler is one step, the deletes of the sweep included (a newcomer cannot
register within one, for the handlers share a greenthread). Rates are packets between two
samples, `timely` stands for `MIN_FLOW_RATE_DT`. Two samples of one key in one reply are
read in either order. The lifetime of a forwarding rule (provisional or validated) is not
told apart: it may time out at any moment. A packet may always be one whose way is known
(`mac_to_port` is `Forwarding`'s). A forwarding rule matches a pair of addresses; the
packet it was made for is kept beside it, for the properties.

### IngressTracking: correspondence

`discovered` is what LLDP discovery holds; `snapshot[c]` the links that a running
`_update_topology` of caller `c` has read and not yet written; `interswitch` is
`_interswitch_ports`; `arped`, `location`, `routerPorts` are `_ip_to_mac`,
`_host_location`, `_router_ports`; `meta` is `_flow_meta` with `fresh` for its TTL.
`HandlerReads`/`MonitorReads`, `WritePorts`, `UpdateFails` are the parts of
`_update_topology` around the calls that give up control. `Arp`, `IpPacket`,
`OtherFrame` are the packet-in handler on the three kinds of frames it tells apart.
Assumed of the network: a node is plugged into one port, that port is no link, and
because RSTP breaks the ring a frame does not come back to the switch its sender is on
(`topologies/ring_topology.py`).

### Forwarding: correspondence

`macToPort` is `mac_to_port`; `ipRules` and `macRules` are the entries of priority 10 and
1; `wires` are frames on links and `packetIns` what a switch has sent up and the
controller has not handled. `PacketIn` is `packet_in_handler` without the locations:
`Learn` (191-193), `OutPort` (195-198), the veto of a blocked packet (`blocked`, chosen
freely), `AddRule` (274-335) and `Forward`, the packet-out (337-350). `Arrive` is the
switch: an entry forwards, never out of the port a frame came in by, or the table-miss
entry sends it up. `Send` is a host or the router, `IpRuleGoes` and `MacRuleGoes` are
timeouts, the clean-up and the sweep.

The network is that of `topologies/ring_topology.py` after RSTP has cut the ring: a tree
of switches, on each a host and the router's interface for that host's subnet. A packet
between hosts of two switches travels in two frames, host to router and router to host;
the router may send its frame at any time, for a packet of its past or of a made-up
source. Frames stay in order on a link and packet-ins on a channel; nothing else is
ordered. A flow-mod takes effect when it is sent; that it may be lost or late is an
entry that is not there yet.

### FlowCollector, DDoSCollector and OpenFlowAdapter: correspondence

`table` is a switch's flow table with packet counters, `replies` the snapshots on their
way, `prevFlows` is `prev_flows`. `spaced` says that `MIN_FLOW_RATE_DT` has passed since a
sample (`Space`). `ProcessStats` is `process_stats` on the oldest reply: which entries it
looks at (`IsMeasured`), when it keeps its sample (`KeepsSample`), when a difference is
traffic (`IsReported`). `Install` is an `OFPFC_ADD` for an entry that is not there, whose
counter starts at 0 (one that is there keeps its counter, so adding it again changes
nothing: the flags have no `OFPFF_RESET_COUNTS`); `Expire` is a timeout or a delete. Rates are followed as packets: an
event's pps times the time it was measured over.

`srcPackets` and `age` are the windows of `stats` in the `DDoSCollector`: the first
packet after a window's second closes it and is counted in it. `meta` is `_flow_meta`
without the place, `pending` is `_pending`, by pair and label. `OnPacketIn`,
`OnFlowStats` and `Collect` are the methods of the adapter; each runs to its end without
giving up control, so they are one step each. `passed`, `reported`, `cameUp`,
`collected`, `sighted` and a sample's `base` and `before` are history variables: no
action's guard reads them but the bound `Sent`.

### Detection and FloodControl: correspondence

`Detection` translates `_classify`, `_build_result`, `_classify_distributed`,
`_normalized_entropy`, `analyze_low_slow`, `analyze_low_slow_single_source` and
`evaluate` with the score `process` gives it. Rates are integers; scores, confidences and entropies are in
thousandths, logarithms in 1/1024. Where the code takes the first maximum of a list the
operators return every candidate, and any event may be the only one that carries a port.

`FloodControl` closes the loop. A flood is a record: where it enters, its sources, its
target and its rates. The floods of one (source, destination) pair (`SamePair`) share a
counter and a label, because forwarding rules match addresses only.

| action | code |
|---|---|
| `Start`, `Stop` | senders |
| `PacketIn` | `on_packet_in`: the pair takes the packet's label, a host port its place, the collector its source port; a window that closes reports the flood under its own protocol |
| `FlowStats` | `on_flow_stats`: all of the pair's traffic under the label of its last packet-in |
| `ForgetLabel`, `ForgetPorts` | `_FLOW_META_TTL` and `LOW_SLOW_PORT_IDLE_TTL` |
| `Cycle` | a run of the pipeline: detection, decision and blocks, computed with `Detection` |
| `Measure` | `record_block_traffic`: what the drop rules of a key counted at one place; `latest` is the place `_block_pps` is from, which the next answer overwrites |
| `Release` | `check_unblocks`: the last of `UNBLOCK_CONFIRM_CYCLES` quiet reviews of a key no cycle has raised again |

A release weighs the rate that was last measured, and 0 when there is none, as the code
does: a flood that pauses or goes unmeasured is let through while it runs, and is found
again. Abstractions: the earlier quiet reviews are `Orchestration`'s; a reading stands for
the rate between two samples, with every flood of the pair in it that runs. A label is
given up only when the pair is silent: a rule in the table lives for
`VALIDATED_FLOW_HARD_TIMEOUT`, which is `_FLOW_META_TTL` too, so a counter that moves has a
label. The counts of stalled flows that `analyze_low_slow` is given are chosen freely from
`Stalled`; a pair's connection count names the port and protocol of whichever of its
floods was seen last (`LastSeen`).

## 3. The plan

The order in which the modules were written, most important first:

1. `OpenFlowTable`, `OpenFlowMitigator`, `Orchestration` with `BlockPolicy` and its
   proofs, because a block's life is what everything else serves;
2. `IngressTracking` and its proofs: where a block goes;
3. `Detection`, `FloodControl` and its proofs: the loop closed over both;
4. `FlowCollector`, `DDoSCollector`, `OpenFlowAdapter` and their proofs: what the loop
   is fed with;
5. `Forwarding`: the rules telemetry is counted in.

Open, in the order of their worth: the two lifetimes of a forwarding rule, which the
validation hazards need; a controller that restarts while frames are under way.

Statements of the repository that the models contradict and that have no run of their own:

- `is_blocked` covers LOW_SLOW's destination-wide blocks (`orchestration/controller.py:428-440`;
  it looks up the packet's own protocol and port, and such a block has `"IP"` and 0, so every
  TCP or UDP packet its rule drops passes the veto and gets a forwarding rule);
- a sample is one "of the matching drop rule's counters" (`orchestration/controller.py:107`;
  a reply that waited over a release and a new block of the key, in one run of the pipeline,
  still shows the old rule, and its count becomes the new rule's sample);
- `_block_pps` is "summed across all switches" (`orchestration/controller.py:116`; each
  answer overwrites it, so a block that drops 125 pps on each of two switches is weighed as
  125 and released under a limit of 150);
- a block is released below `UNBLOCK_RATIO` "of the triggering threshold"
  (`orchestration/controller.py:636`; a distributed SYN flood of 100 pps, ten times its
  threshold, is weighed against `DIST_PPS_THRESHOLD` and released while it runs);
- flow-stats volume is "tagged correctly" by a pair's label
  (`telemetry/openflow_adapter.py:174`; 900 SYN/s go as TCP, for which there is no threshold,
  when another TCP packet of the pair came up last);
- "a block must never be scoped to the router's port" (`forwarding/learning_switch.py:66`;
  until the router's ARP is seen it may be);
- the place of a pair is recorded "only ever once" (`telemetry/openflow_adapter.py:178`; it is
  overwritten by each sighting on a host port);
- the "number of currently active flows" (`collectors/flow_collector.py:112`; added up over
  switches and replies).

## 4. The runs that pass

| run | instance | shows |
|---|---|---|
| `orch_core` | a block on a whole destination, network-wide or scoped to a port; a switch that loses its channel and restarts, one that joins late; 2 confirm cycles; 736,452 states | `TypeOK`, `BooksAgree`, `MeasurementsOnlyOfActive`, `OnlyNewcomersEndMonitor`, `NoOrphanDrop` on the switch that keeps its channel |
| `orch_apart` | a distributed TCP and a single-source UDP key, a switch, 2 confirm cycles; 260,705 states | `NoOrphanDrop`, `Enforced`; refinement of `BlockPolicy` by the books and by the tables |
| `orch_live` | a distributed key at one of two switches, a packet it covers and one it does not, fair; 33,792 states | `CleanedStaysClean`, `BlocksEnd`, `SweptEventually` |
| `ingress` | a host, the router's interface, one link between two switches, a made-up address, fair | `HostPortsAreKept`, `RightPlacesStay`, `InterswitchSettles`, `IngressHeals`, `LocationHeals` |
| `forwarding` | three switches in a line, a host at each end, a router interface on each, one pair, 2 frames or packet-ins under way | `RulesLead`, `HomeKnowsFirst` |
| `telemetry` | a pair with two labels and a drop rule on a switch, 3 packets, 2 replies under way | `NeverOvercounts`, `NothingSkipped`, `TelemetryAddsUp`, `NoStaleLabel` |
| `floods` | a SYN flood from one source and a UDP flood of five made-up sources at another switch, on one destination; the values of `config/settings.py`; fair; 17,920 states | `TypeOK`, `FloodsEnd`, `CountedFloodsStayDropped` |
| `floods_paired` | that SYN flood and a slow attacker with the same addresses and port, so one label and one counter; stalled flows to a second destination; fair; 56,560 states | `OneDetectionPerGroup`, `FloodsEnd`, `NoLoudFloodPassedOver` |

`BooksAgree` excepts the one key under release, whose two books are updated on either side
of the deletes, also when a newcomer breaks the release off there and the monitor is dead.
`CleanedStaysClean` speaks of packets the block's rule covers; any other packet of the pair
may have its rule cached again, which `orch_live` includes.
`CountedFloodsStayDropped` is about what `check_unblocks` can know: a flood that the rate
it weighs counts.

### Bounds and why they suffice

`MaxPackets` (1) of `Orchestration` saturates the counter of a drop rule: the code looks
at differences between two samples only, and two values give a rise, a standstill and,
after a reinstallation, a fall. `ReleaseRate` 1 makes one packet between samples loud and
none quiet. `ConfirmCycles` 2 has a first and a last quiet cycle.
`MaxAwaiting` 1: a switch owes at most one reply, which may be under way over any number of
cycles, releases and new blocks; replies that come close together are `timely = FALSE`.
Two switches are enough for a scoped and an unscoped rule and for one that is cleaned and
one still to be. The ingress instance has one port of each kind (host, router, link) on the two ends of a
link; nodes do not interact, so more of them multiply states and add none of interest.
In `forwarding` the line has every kind of switch a path can have (source, middle,
destination), and two things under way are a race: a frame to the router flooded to the
other end against the router's own frame, or either against a packet-in. One pair is
enough because rules of different pairs never meet; one interface answers one host's ARP
request directly, so that a mac can be learnt without a flood. (With two switches, three
frames under way were checked too.)
In `telemetry` three packets are one for each of two samples of an entry and one of a
later entry under the same key; two replies under way are one that is older than another
and one that comes too soon. One switch, since nothing of one switch's flows is looked up
for another's. The two labels are one to be replaced and one that replaces it.
The floods have the three kinds of decision (single source, LOW_SLOW, distributed), two at a
time on one destination, which is the unit everything is grouped by: once with addresses of
their own, and once with shared ones, which is the unit of labels and counters.

`orch_core` switches deadlock checking off: when every counter is at its bound and the
monitor has died of a late switch (`claim_monitor`), nothing is left to happen.

### Fairness

- `Orchestration`: weak fairness of the monitor (a greenthread that is ready runs) and of
  the answers of switches that keep their channel, and strong fairness of handling them in
  time for a rate: requests go out every 5 s and `MIN_FLOW_RATE_DT` is 0.5 s. No fairness of
  attacks, packets, timeouts or channels.
- `IngressTracking`: weak fairness of reading the links; strong fairness of writing them
  (the dashboard's part does not fail for ever); strong fairness of sightings at a
  sender's own port, since forwarding rules have a hard timeout of 30 s and a sender
  that goes on comes up again. (One
  that stops is no concern of `IngressHeals`: its entry is past its TTL soon after.)
- `FloodControl`: weak fairness of the pipeline; of a packet of the pair coming up at its
  host port while one of its floods is not dropped, since forwarding rules have a hard
  timeout of 30 s; and of each such flood being reported, by the pair's counter or by a
  window of its own. `Measure` and `Release` are not fair: nothing relies on them.

`BlocksEnd` presumes that from some time on no group is dispatched. `FloodsEnd` presumes
that floods stop starting and stopping, and that from some time on blocks are released on a
measurement only: the code releases an unmeasured block as quiet
(`orchestration/controller.py:647`), and would do so again and again if no reply came in time.

## 5. The runs that show a disagreement

| run | what the counterexample does |
|---|---|
| `claim_own_rules` | Two overlapping blocks, one is released: the non-strict delete takes the rule of the other too. |
| `claim_monitor` | A switch registers while `clear_forwarding_rules` or `unblock` iterates the dict of datapaths: the monitor's greenthread ends. |
| `claim_ends` | A single source is blocked network-wide first and at its own port later. Both rules feed one sample, and the block is never lifted. |
| `claim_mixed` | 20 SYN/s are detected, never decided on, and hide 700 ICMP/s on the same destination for good. |

They also bound what the passing runs may assume: `orch_apart` has no overlapping keys,
`orch_live` no key with two rules on a switch, the floods of `floods` are each decided on
alone, and of the monitor `orch_core` only claims that nobody but a newcomer ends it.

## 6. What is proved

Every theorem is for all values of the constants that satisfy the modules' assumptions:
any switches, hosts, keys, flows, floods, networks and bounds. What a theorem assumes
beyond them is a condition on the instance without which the property
fails on some; each condition and its reason are below.

| theorem | property | assumed besides |
|---|---|---|
| `TypeCorrect`, `BooksCorrect`, `MeasurementsCorrect`, `NoOrphans` | `TypeOK`, `BooksAgree`, `MeasurementsOnlyOfActive`, `NoOrphanDrop` | - |
| `BooksRefinePolicy` | `BooksFollowPolicy` | - |
| `NewcomersOnly` | `OnlyNewcomersEndMonitor` | - |
| `MonitorSurvives` | `MonitorLives` | no switch joins late |
| `BlocksAreEnforced` | `Enforced` | `KeysApart` |
| `TablesRefinePolicy` | `TablesFollowPolicy` | `KeysApart`, `SteadyChannels` |
| `ReleasesOwnRules` | `ReleaseRemovesOwnRules` | `KeysApart`, no flaky switch |
| `CleanUpsLast` | `CleanedStaysClean` | `WholeIdentity` |
| `IngressTypeCorrect`, `HostPortsKept`, `RightPlacesKept` | `TypeOK`, `HostPortsAreKept`, `RightPlacesStay` | - |
| `ForwardingTypeCorrect`, `RulesAlwaysLead`, `HomeFirst` | `TypeOK`, `RulesLead`, `HomeKnowsFirst` | - |
| `NeverOvercounted`, `NothingIsSkipped` | `NeverOvercounts`, `NothingSkipped` | - |
| `TelemetryTypeCorrect`, `NothingLostOrDoubled`, `LabelsAreRecent` | `TypeOK`, `TelemetryAddsUp`, `NoStaleLabel` | - |
| `FloodTypeCorrect`, `OneDetection`, `LoudFloodsDetected` | `TypeOK`, `OneDetectionPerGroup`, `NoLoudFloodPassedOver` | - |

### The books (`OrchestrationProofs`)

The inductive invariant `IInv` is the conjunction of the four invariants with `Reachable`,
`ReleaseDeletes` and `Progress`. They need each other. A release is a loop with handlers in
between: `Progress` says which key it is about, that the key is still active while the
mitigator has forgotten it, and that no other review or alarm comes meanwhile;
`ReleaseDeletes` says that the switches the loop has passed hold no rule of the key any
more, and `Reachable` that a rule's switch is registered and, unless flaky, connected, so
that the loop's end finds none anywhere. A rule of the key on some port is covered by the
delete because the delete's match leaves the port out (`DeleteCoversBlock`), which is also
why it covers too much (`claim_own_rules`). A newcomer can break the loop off; then the
monitor is dead, and the disagreement that `BooksAgree` excepts stays. The refinement maps a
review to a review, the end of a release to `Lift`, the decision on a group to an alarm and
each of its dispatches to an answer (`BooksStep`). The alarm is part of the abstract state, so
that an answer which does not start the count again is no step of `BlockPolicy`.

`NewcomersOnly` has an invariant of its own, `Registered`: the switches of the start stay
registered because the application never deregisters one, so each loop knows them all,
and a dict that has changed by the time it is iterated can only have grown by another.

### The tables, clean-ups and the monitor (`EnforcementProofs`)

Each of these is a property that some instance breaks, and the hypothesis draws the line:

- *`KeysApart`*: no key's delete covers another key's rule. With a `"*"` key and a
  single-source key on one destination, port and protocol a release takes both
  (`claim_own_rules`). With it a delete spares the rules of every other key
  (`DeleteSpares`), and the invariant of `BlocksAreEnforced` is `IInv` with `Enforced`,
  `Registered` and `Connected`, the last because a block sent to a closed channel
  installs nothing and is believed all the same. `Enforced` excepts the switches `block`
  has still to send to, which by `Progress` are registered and get their rule.
- *`SteadyChannels`*: nothing is flaky, and some switch is there from the start; else
  the books hold a key that no table does, for nothing reinstalls. Tables follow the books
  with a delay: a key comes to a table with the first rule of its answer, and may leave the
  last one before its release is through. `TablesAndBooks` says how far the two may differ
  and `TablesStep` maps the steps in between, so that the dropping, and not only the
  bookkeeping, starts with an alarm and ends after the quiet reviews. A key need not be on
  every switch, since a late one never gets its rules: `Somewhere` asks for one table.
- *`WholeIdentity`*: a `"*"` block whose rule drops a packet has that packet's port and
  protocol, which is what `is_blocked` compares. It holds for the blocks of the distributed
  attacks on a protocol's port; for LOW_SLOW's, with `"IP"` and no port, it does not, and
  their clean-ups do not exist (`orchestration/controller.py:203-206`). It says nothing of the
  packets a rule does not drop: they may cache the pair again, and do in `orch_live`.
  The invariant adds that what is about to be cleaned belongs to an active `"*"` block
  (`JobFits`, `CleaningFits`): the block precedes its clean-up.
- *no late switch* for `MonitorSurvives`: `claim_monitor`.

### Forwarding on every tree (`ForwardingProofs`)

`TreeAssumption` says of the network what RSTP makes of it: seen from any switch, every
other has one link towards it. The inductive invariant `FInv` is why an address-only rule
can tell a packet's way to the router from its way back. A frame's source and destination
are nodes of one switch, its home, and rules keep it there, so all that is ever on a link
is a flooded frame, and flooded frames go away from home (`Directed`). A switch that has
heard of a node has it from its neighbour towards it (`Learnt`, `UpFirst`), in order of
arrival; and wherever a flooded frame is or will come up, nobody has heard yet of the node
it is for (`UnheardOnWires`, `UnheardQueued`): it would not have been flooded past the
switch that had. So away from home the output port is unknown and no rule is made
(`OnlyHomeKnows`). The order of frames on a link and of packet-ins on a channel is used,
nothing about the order between them.

### Locations (`IngressProofs`)

For any network that satisfies `NetworkAssumption`, every port taken for a router's is a
link port or a gateway's own; since `interswitch` never holds more than link ports, a
host's port is neither (`HostPortsKept`). Once all links and gateways are known the ports
that pass for a host's are those a host is plugged into, and a frame is seen on one only
when its sender is that host (`SeenAtHome`): so no sighting makes a right place wrong
(`RightPlacesKept`), whatever is read or written late. The converse, that wrong places heal,
is liveness.

### Telemetry (`OpenFlowAdapterProofs`, `TelemetryProofs`, `SumProofs`)

A report is a difference between a sample and a later snapshot, so the invariant of
`NeverOvercounted` and `NothingIsSkipped` says that they are in order: the last sample of
a flow, the snapshots on their way and the entry itself form a chain of `Follows`, each of
the same life of the entry with no smaller counter, or of a later life that began no
earlier than the other ended (`InOrder`). That bounds a difference across two lives too,
by the packets between them, which is why a counter that was reset and has overtaken the
old sample (`collectors/flow_collector.py:79`) leads to too few packets and never to too
many.

`TelemetryAddsUp` is an equation between sums over labels, switches and windows, kept by
each step: a packet moves from one addend to another (`PacketInAddsUp`,
`FlowStatsAddsUp`, `CollectAddsUp`). What is needed of a sum is that it is a number, that
it changes by as much as its function does at one point, and that it is 0 where its
function is (`SumType`, `SumChange`, `SumZero`). The library defines it by a recursion
that takes one element after another out of the set; `SumIsTabled` says that it equals
what any table of sums over all subsets has for the whole set, and each lemma is proved
of such a table by looking at the smallest subset it is wrong about (`SmallestSubset`,
by well-founded minimality, `WFMin`). So sums need no induction theorem with an operator
for its parameter.

`LabelsAreRecent` has the invariant `LabelIsLast`: a fresh entry of `_flow_meta` carries
the label of the pair's last packet. It is stronger than what it is for: any label of a
packet within the TTL would do.

### Detections (`FloodControlProofs`)

For `OneDetection` nothing is used of the arithmetic of `Detection`: `ClassifyTakesEvents` shows that a
detection repeats what some event says, whichever branch made it, `FromLabel` that an event
says what the label of some flood of its pair does, and `CycleDetections` that the three
kinds exclude each other, whatever the labels. Volumetric detections differ by destination,
those of `analyze_low_slow` by destination too and from the first by `flagged_dsts`, those
of the pairs by pair, from the first by `flagged_pairs` and from the second because no
address is `"*"`.

`LoudFloodsDetected` does use it. A flood reported under its own label puts its rate into
the telemetry of its protocol once for each source (`FloodCounts`), so its protocol's sum is over the threshold whatever else is in it
(`SumAtLeast`); then some protocol is the first one over its own (`ClassifyGives`), and
`_build_result` has a result in both of its branches: there are finitely many sources, so
one has the most (`SomeDominant`). What stands in the way of an alarm on a loud
flood's destination is therefore never other traffic, though it may be its label: the
readings that `on_flow_stats` puts under another flood's are in the telemetry too, and the
theorem promises nothing of them. That the detection may be
a weaker flood's, and too weak for a decision, is `claim_mixed`. The entropy and its
logarithm are left unexpanded: the theorem holds whatever they say.

## 7. What is only model-checked

Liveness (`BlocksEnd`, `SweptEventually`, `InterswitchSettles`, `IngressHeals`,
`LocationHeals`, `FloodsEnd`) is out of the prover's reach, as everything under fairness
is. `CountedFloodsStayDropped` is the one safety property without a theorem. It fails for
some rates, such as those of a distributed SYN flood or a slow attacker under half of the
threshold their block is weighed against; for a flood that several switches drop parts of,
when the one that answers last has the least (`orchestration/controller.py:592`); and for a
flood dropped by a rule of which a wider one takes the last away. It holds on instances that
have none of these, such as that of `floods`, and no condition simpler than that list is in
sight. Every other
invariant and action property of the passing runs is proved. The invariants of section 6
were put to TLC on the runs' instances before they were proved.

## 8. What is not modelled

- The stub adapters (mobile, broadband, enterprise, BGP): they collect nothing, and the
  pipeline does not poll them, so multidomain confidence and dispatch to them never run.
- `controller/ryu_controller.py`, `detectors/`, `mitigation/mitigator.py`: the previous
  application, which the running one does not use.
- `core/event_bus.py`, `core/registry.py`: used by nothing. `core/models.py`: records.
- `web/`, `deploy/`: reporting and installation. The dashboard matters in that its calls may
  fail or give up control inside `_update_topology`. `emit_update` is also called, outside any
  `try`, at the end of the handler that registers a switch and at the end of a run of the
  pipeline (`controller/ryu_controller_2.py:209`, `:349`): all state is written by then, so that
  it yields there changes nothing; that it might raise in the pipeline, which would end the
  monitor, is not in the models.
- The contents of `count_low_volume_flows` (ages and byte counts of rules): `FloodControl`
  is given its results. Byte rates: they grow with the packets and decide nothing.
- Port statistics (`port_stats_reply_handler`) and `get_known_hosts`: dashboard only.
- A restart of the controller: nothing is persisted, so it is `Init` with tables that are
  not empty. The models start with empty tables; `Forwarding`'s `RulesLead` would not
  survive a start with frames on the links.
- A router that answers a gateway's ARP on every interface. `ForwardingAssumption` lets it answer
  on one; a Linux router as `topologies/ring_topology.py:84-86` sets it up may answer on all four,
  and a host may then send to another interface of it than its own switch's.
- That telemetry counts a flow once for each switch on its path: the rates of
  `FloodControl` are those of its detections.
- Python threads: the web server's thread only reads the dashboard's own state.

## 9. Running

    tlc -workers 2 -config orch_core.cfg MCOrchestration    (likewise orch_apart, orch_live)
    tlc -workers 2 -config ingress.cfg MCIngressTracking
    tlc -workers 2 -config forwarding.cfg MCForwarding
    tlc -workers 2 -config telemetry.cfg MCOpenFlowAdapter
    tlc -workers 2 -config floods.cfg MCFloodControl        (likewise floods_paired)
    tlc -workers 2 -config claim_ends.cfg MCOrchestration   (likewise the other claims)
    tlapm OrchestrationProofs.tla
    tlapm EnforcementProofs.tla
    tlapm IngressProofs.tla
    tlapm ForwardingProofs.tla
    tlapm OpenFlowAdapterProofs.tla
    tlapm SumProofs.tla
    tlapm TelemetryProofs.tla
    tlapm FloodControlProofs.tla
