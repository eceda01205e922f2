--------------------------- MODULE EnforcementProofs ---------------------------
(***************************************************************************)
(* What Orchestration does to the switches, for every set of switches,     *)
(* hosts and keys: that a block is in the tables it belongs in, that what  *)
(* the tables drop follows BlockPolicy, and that a clean-up stays done.    *)
(*                                                                         *)
(* Each of these fails on some instances, for reasons in the code.  The    *)
(* hypotheses of the theorems are the boundaries, defined here by name.    *)
(***************************************************************************)
EXTENDS OrchestrationProofs, OrchestrationClaims

\* No key is wider than another: the delete of a block covers its own rules only.
KeysApart ==
  \A j, k \in Keys, p \in Ports \cup {Any} :
    Subsumes(DropMatch(j, Any), DropMatch(k, p)) => j = k

\* A registered switch has its channel, but for the flaky ones.
Connected == datapaths \ Flaky \subseteq connected

-----------------------------------------------------------------------------
(* Operators *)

\* After its message a switch that has its channel has a rule of the block.
LEMMA InstallPuts ==
  ASSUME NEW k \in Keys, NEW loc \in AnyLocation, NEW s \in Switches, s \in connected,
         InstallDropRule(s, k, loc)
  PROVE  DropsOf(k, s)' # {}
<1> DEFINE p == IF s = loc.dpid THEN loc.inPort ELSE Any
           match == DropMatch(k, p)
           entry == [dpid |-> s, match |-> match, packets |-> 0]
           isNew == \A e \in drops : e.dpid # s \/ e.match # match
<1>1. p \in Ports \cup {Any}
  BY OrchestrationAssumption DEF AnyLocation, Location, Nowhere
<1>2. StatMatchesBlock(match, k)
  BY <1>1 DEF StatMatchesBlock
<1>3. drops' = drops \cup {e \in {entry} : s \in connected /\ isNew}
  BY DEF InstallDropRule
<1>4. CASE isNew
  <2>1. entry \in drops'
    BY <1>3, <1>4
  <2> QED BY <1>2, <2>1 DEF DropsOf
<1>5. CASE ~isNew
  BY <1>2, <1>3, <1>5 DEF DropsOf
<1> QED BY <1>4, <1>5

\* Where no key is wider than another, a delete leaves the rules of the other keys.
LEMMA DeleteSpares ==
  ASSUME KeysApart, NEW j \in Keys, NEW s, DeleteDropRule(s, j),
         NEW k \in Keys \ {j}, NEW t, DropsOf(k, t) # {}
  PROVE  DropsOf(k, t)' # {}
<1>1. PICK e \in drops : e.dpid = t /\ StatMatchesBlock(e.match, k)
  BY DEF DropsOf
<1>2. PICK p \in Ports \cup {Any} : e.match = DropMatch(k, p)
  BY <1>1 DEF StatMatchesBlock
<1>3. ~Covers(j, e.match)
  BY <1>2 DEF KeysApart, Covers
<1>4. e \in drops'
  BY <1>3 DEF DeleteDropRule
<1> QED BY <1>1, <1>4 DEF DropsOf

-----------------------------------------------------------------------------
(* Channels, and what most steps leave alone *)

\* A switch that is registered in a step has a channel by then; only a flaky one
\* loses it.
LEMMA ConnectedStep ==
  ASSUME Connected, [Next]_vars
  PROVE  Connected'
<1>1. CASE Monitor
  BY <1>1 DEF Connected, Monitor, StartCycle, CheckUnblocks, Review, Confirm, DeleteOn,
              Released, LoopRaises, Detect, Process, Group, Dismiss, DecideSource,
              DecideLowSlow, DecideDistributed, Decide, Dispatch, InstallOn, FinishGroup,
              ClearOn, ClearDone, EndCycle, mitigatorVars
<1>2. CASE Environment
  BY <1>2 DEF Connected, Environment, Answer, StatsReply, PacketIn, SwitchFeatures, Connect,
              Register, LoseChannel, Disconnect, Attack, PermitTimeout, mitigatorVars
<1>3. CASE UNCHANGED vars
  BY <1>3 DEF Connected, vars, mitigatorVars
<1> QED BY <1>1, <1>2, <1>3 DEF Next

\* The rules of switches that are not flaky, counters apart.
RulesStay ==
  \A e \in drops : e.dpid \notin Flaky =>
    \E f \in drops' : f.dpid = e.dpid /\ f.match = e.match

NoNewRules ==
  \A f \in drops' : \E e \in drops : f.dpid = e.dpid /\ f.match = e.match

\* Rules come with an install and go with a delete.
LEMMA OtherSteps ==
  ASSUME TypeOK, [Next]_vars, ~\E s \in Switches : InstallOn(s) \/ DeleteOn(s)
  PROVE  RulesStay /\ NoNewRules
<1>1. CASE Monitor
  <2>1. drops' = drops
    BY <1>1 DEF Monitor, StartCycle, CheckUnblocks, Review, Confirm, Released, LoopRaises,
                Detect, Process, Group, Dismiss, DecideSource, DecideLowSlow,
                DecideDistributed, Decide, Dispatch, FinishGroup, ClearOn, ClearDone,
                EndCycle, mitigatorVars, tableVars
  <2> QED BY <2>1 DEF RulesStay, NoNewRules
<1>2. ASSUME NEW s \in Switches, NEW restarted \in BOOLEAN, SwitchFeatures(s, restarted)
      PROVE  RulesStay /\ NoNewRules
  BY <1>2 DEF SwitchFeatures, Connect, tableVars, RulesStay, NoNewRules
<1>3. ASSUME NEW e \in drops, Attack(e)
      PROVE  RulesStay /\ NoNewRules
  <2> DEFINE hit == [e EXCEPT !.packets = @ + 1]
  <2>1. e \in FlowEntry
    BY DEF TypeOK, MitigatorTypeOK
  <2>2. hit.dpid = e.dpid /\ hit.match = e.match
    BY <2>1 DEF FlowEntry
  <2>3. drops' = (drops \ {e}) \cup {hit}
    BY <1>3 DEF Attack, DropHit
  <2> QED BY <2>2, <2>3 DEF RulesStay, NoNewRules
<1>4. CASE \/ \E s \in Switches : Answer(s)
           \/ \E s \in Switches, timely \in BOOLEAN : StatsReply(s, timely)
           \/ \E s \in Switches, pkt \in Packets : PacketIn(s, pkt)
           \/ \E s \in Switches : LoseChannel(s)
           \/ \E p \in permits : PermitTimeout(p)
  <2>1. drops' = drops
    BY <1>4 DEF Answer, StatsReply, PacketIn, LoseChannel, PermitTimeout, mitigatorVars,
                tableVars
  <2> QED BY <2>1 DEF RulesStay, NoNewRules
<1>5. CASE UNCHANGED vars
  BY <1>5 DEF vars, mitigatorVars, RulesStay, NoNewRules
<1> QED BY <1>1, <1>2, <1>3, <1>4, <1>5 DEF Next, Environment

\* Entries of the mitigator come with a dispatch, and a loop of block() that is not at
\* work is not taken up by another step.
LEMMA EntriesStay ==
  ASSUME [Next]_vars,
         ~\E a \in job.actions : Dispatch(a), ~\E s \in Switches : InstallOn(s)
  PROVE  /\ blocked' \subseteq blocked
         /\ pc # "install" \/ UNCHANGED <<pc, loop>>
<1>1. CASE Monitor
  BY <1>1 DEF Monitor, StartCycle, CheckUnblocks, Review, Confirm, ForgetBlock, DeleteOn,
              Released, LoopRaises, Detect, Process, Group, Dismiss, DecideSource,
              DecideLowSlow, DecideDistributed, Decide, FinishGroup, ClearOn, ClearDone,
              EndCycle, mitigatorVars
<1>2. CASE Environment
  BY <1>2 DEF Environment, Answer, StatsReply, PacketIn, SwitchFeatures, LoseChannel,
              Attack, PermitTimeout, mitigatorVars, monitorVars
<1>3. CASE UNCHANGED vars
  BY <1>3 DEF vars, mitigatorVars, monitorVars
<1> QED BY <1>1, <1>2, <1>3 DEF Next

\* A rule that stays goes on being its key's.
LEMMA RulesOfKeyStay ==
  ASSUME RulesStay, NEW k, NEW s, s \notin Flaky, DropsOf(k, s) # {}
  PROVE  DropsOf(k, s)' # {}
BY DEF RulesStay, DropsOf

\* What one step of a release may not touch: the entries the mitigator still holds.
LEMMA ReleasingIsForgotten ==
  ASSUME IInv, NEW s \in Switches, DeleteOn(s)
  PROVE  /\ loop.key \in Keys /\ loop.key \notin BlockedKeys
         /\ DeleteDropRule(s, loop.key) /\ UNCHANGED <<datapaths, blocked>>
         /\ pc = "release" /\ pc' = "release"
BY DEF IInv, TypeOK, BooksAgree, HalfReleased, DeleteOn

-----------------------------------------------------------------------------
(* A block is in the tables it belongs in *)

EnforcedInv == IInv /\ Registered /\ Connected /\ Enforced

\* What a block is scoped to among the switches of the start does not change.
LEMMA TargetsStay ==
  ASSUME IInv, Registered, IInv', datapaths \subseteq datapaths',
         NEW d, NEW s \in datapaths' \ Late, s \in ScopedTargets(d)'
  PROVE  s \in datapaths /\ s \in ScopedTargets(d)
BY DEF IInv, TypeOK, MitigatorTypeOK, Registered, ScopedTargets

LEMMA EnforcedStep ==
  ASSUME KeysApart, EnforcedInv, [Next]_vars
  PROVE  EnforcedInv'
<1> USE DEF EnforcedInv
<1>1. IInv' /\ Registered' /\ Connected' /\ datapaths \subseteq datapaths'
  BY NextIInv, RegisteredStep, ConnectedStep, DatapathsGrow DEF IInv
<1>2. SUFFICES ASSUME NEW b \in blocked', NEW s \in datapaths' \ (Flaky \cup Late),
                      s \in ScopedTargets(b[2])', s \notin Pending(b)'
               PROVE  DropsOf(b[1], s)' # {}
  BY <1>1 DEF Enforced
<1>3. s \in datapaths /\ s \in ScopedTargets(b[2]) /\ s \in connected /\ s \notin Flaky
      /\ s \in Switches
  BY <1>1, <1>2, TargetsStay DEF Connected, IInv, TypeOK, MitigatorTypeOK
<1>4. b \in blocked /\ s \notin Pending(b) => DropsOf(b[1], s) # {}
  BY <1>3 DEF Enforced
<1>5. b \in Keys \X (Switches \cup {None})
  BY <1>1 DEF IInv, TypeOK, MitigatorTypeOK
<1>6. ASSUME NEW t \in Switches, DeleteOn(t)
      PROVE  DropsOf(b[1], s)' # {}
  <2>1. /\ loop.key \in Keys /\ loop.key \notin BlockedKeys
        /\ DeleteDropRule(t, loop.key) /\ blocked' = blocked /\ pc = "release"
    BY <1>6, ReleasingIsForgotten
  <2>2. b \in blocked /\ b[1] # loop.key /\ s \notin Pending(b)
    BY <2>1 DEF BlockedKeys, Pending
  <2> QED BY <1>4, <1>5, <2>1, <2>2, DeleteSpares
<1>7. ASSUME NEW a \in job.actions, Dispatch(a)
      PROVE  DropsOf(b[1], s)' # {}
  <2>1. /\ pc = "dispatch" /\ UNCHANGED <<drops, datapaths>>
        /\ blocked' = blocked \cup {<<job.key, a.loc.dpid>>}
    BY <1>7 DEF Dispatch, tableVars
  <2>2. CASE b \in blocked
    BY <1>4, <2>1, <2>2 DEF Pending, DropsOf
  <2>3. CASE b \notin blocked
    <3>1. b = <<job.key, a.loc.dpid>> /\ b[2] = a.loc.dpid
      BY <2>1, <2>3
    <3>2. s \in BlockTargets(job.key, a.loc.dpid)
      BY <1>3, <2>3, <3>1 DEF BlockTargets
    <3>3. /\ pc' = "install" /\ loop'.key = job.key /\ loop'.loc = a.loc
          /\ loop'.left = BlockTargets(job.key, a.loc.dpid)
      BY <1>7, <3>2 DEF Dispatch, NoLoop
    <3>4. s \in Pending(b)'
      BY <3>1, <3>2, <3>3 DEF Pending
    <3> QED BY <1>2, <3>4
  <2> QED BY <2>2, <2>3
<1>8. ASSUME NEW t \in Switches, InstallOn(t)
      PROVE  DropsOf(b[1], s)' # {}
  <2>1. /\ loop.key \in Keys /\ loop.loc \in AnyLocation
        /\ InstallDropRule(t, loop.key, loop.loc) /\ blocked' = blocked
        /\ pc = "install"
    BY <1>8 DEF InstallOn, IInv, TypeOK
  <2>2. CASE s \in Pending(b)
    <3>1. b = <<loop.key, loop.loc.dpid>> /\ b[1] = loop.key /\ s \in loop.left
      BY <2>1, <2>2 DEF Pending
    <3>2. s = t
      <4>1. CASE loop.left = {t}
        BY <3>1, <4>1
      <4>2. CASE loop.left # {t}
        <5>1. pc' = "install" /\ loop' = [loop EXCEPT !.left = @ \ {t}]
          BY <1>8, <2>1, <4>2 DEF InstallOn
        <5>2. loop'.key = loop.key /\ loop'.loc = loop.loc /\ loop'.left = loop.left \ {t}
          BY <5>1 DEF IInv, TypeOK
        <5> QED BY <1>2, <3>1, <5>1, <5>2 DEF Pending
      <4> QED BY <4>1, <4>2
    <3> QED BY <1>3, <2>1, <3>1, <3>2, InstallPuts
  <2>3. CASE s \notin Pending(b)
    <3>1. drops \subseteq drops'
      BY <2>1, InstallProperties
    <3> QED BY <1>4, <2>1, <2>3, <3>1 DEF DropsOf
  <2> QED BY <2>2, <2>3
<1>9. CASE /\ ~\E t \in Switches : InstallOn(t) \/ DeleteOn(t)
           /\ ~\E a \in job.actions : Dispatch(a)
  <2>1. /\ blocked' \subseteq blocked /\ RulesStay
        /\ pc # "install" \/ UNCHANGED <<pc, loop>>
    BY <1>9, OtherSteps, EntriesStay DEF IInv
  <2>2. s \notin Pending(b)
    BY <1>2, <2>1 DEF Pending
  <2> QED BY <1>3, <1>4, <2>1, <2>2, RulesOfKeyStay
<1> QED BY <1>6, <1>7, <1>8, <1>9

\* As long as no block is wider than another, every block the mitigator believes in is
\* in the tables, once its loop has been there: of the switch it is scoped to, or of all
\* that were there from the start.  Overlapping keys break it, because a delete takes the
\* narrower rules along.
THEOREM BlocksAreEnforced ==
  ASSUME KeysApart
  PROVE  Spec => []Enforced
<1>1. Init => EnforcedInv
  <2>1. Init => Connected /\ Enforced
    BY DEF Init, MitigatorInit, Connected, Enforced
  <2> QED BY <2>1, InitIInv, InitRegistered DEF EnforcedInv
<1>2. EnforcedInv /\ [Next]_vars => EnforcedInv'
  BY EnforcedStep
<1>3. EnforcedInv => Enforced
  BY DEF EnforcedInv
<1> QED BY <1>1, <1>2, <1>3, PTL DEF Spec

\* Where no key is wider than another and channels do not fail, a rule leaves a table
\* only while its own block is being released, as the docstring of unblock says.
THEOREM ReleasesOwnRules ==
  ASSUME KeysApart, Flaky = {}
  PROVE  Spec => ReleaseRemovesOwnRules
<1> DEFINE Own == \A e \in drops :
                    Gone(e) => \E k \in Releasing : StatMatchesBlock(e.match, k)
<1>1. ASSUME IInv, [Next]_vars, NEW e \in drops, Gone(e)
      PROVE  \E k \in Releasing : StatMatchesBlock(e.match, k)
  <2>1. ASSUME NEW s \in Switches, InstallOn(s) PROVE FALSE
    <3>1. /\ loop.key \in Keys /\ loop.loc \in AnyLocation
          /\ InstallDropRule(s, loop.key, loop.loc)
      BY <1>1, <2>1 DEF InstallOn, IInv, TypeOK
    <3>2. drops \subseteq drops'
      BY <3>1, InstallProperties
    <3> QED BY <1>1, <3>2 DEF Gone
  <2>2. ASSUME NEW s \in Switches, DeleteOn(s)
        PROVE  \E k \in Releasing : StatMatchesBlock(e.match, k)
    <3>1. loop.key \in Keys /\ DeleteDropRule(s, loop.key) /\ pc = "release"
      BY <1>1, <2>2, ReleasingIsForgotten
    <3>2. Covers(loop.key, e.match)
      BY <1>1, <3>1 DEF Gone, DeleteDropRule
    <3>3. PICK j \in activeBlocks : StatMatchesBlock(e.match, j)
      BY <1>1 DEF IInv, NoOrphanDrop
    <3>4. j = loop.key
      BY <1>1, <3>1, <3>2, <3>3 DEF KeysApart, StatMatchesBlock, Covers, IInv, TypeOK
    <3> QED BY <3>1, <3>3, <3>4 DEF Releasing
  <2>3. CASE ~\E s \in Switches : InstallOn(s) \/ DeleteOn(s)
    <3>1. RulesStay
      BY <1>1, <2>3, OtherSteps DEF IInv
    <3> QED BY <1>1, <3>1 DEF RulesStay, Gone
  <2> QED BY <2>1, <2>2, <2>3
<1>2. IInv /\ [Next]_vars => [Own]_vars
  BY <1>1
<1> QED BY <1>2, Invariance, PTL DEF Spec, ReleaseRemovesOwnRules

-----------------------------------------------------------------------------
(* What the tables drop *)

SteadyChannels == Flaky = {} /\ Switches \ Late # {}

Installing == IF pc = "install" THEN {loop.key} ELSE {}

\* A block has a rule on some switch, a late one or not, from its first install on.
Somewhere == BlockedKeys \subseteq InTables \cup Installing

TablesInv == IInv /\ Registered /\ Connected /\ Somewhere

\* Rules that stay where they are stay in InTables, and none come.
LEMMA InTablesFrame ==
  ASSUME Flaky = {}, RulesStay
  PROVE  InTables \subseteq InTables' /\ (NoNewRules => InTables' = InTables)
<1>1. ASSUME NEW k \in InTables PROVE k \in InTables'
  BY <1>1, RulesOfKeyStay DEF InTables
<1>2. ASSUME NoNewRules, NEW k \in InTables' PROVE k \in InTables
  BY <1>2 DEF NoNewRules, InTables, DropsOf
<1> QED BY <1>1, <1>2

\* A delete of a release takes one key at most out of the tables.
LEMMA InTablesDelete ==
  ASSUME KeysApart, IInv, NEW s \in Switches, DeleteOn(s)
  PROVE  InTables' \in {InTables, InTables \ {loop.key}}
<1>1. loop.key \in Keys /\ DeleteDropRule(s, loop.key)
  BY ReleasingIsForgotten
<1>2. ASSUME NEW k \in InTables, k # loop.key PROVE k \in InTables'
  BY <1>1, <1>2, DeleteSpares DEF InTables
<1>3. drops' \subseteq drops
  BY <1>1 DEF DeleteDropRule
<1>4. InTables' \subseteq InTables
  BY <1>3 DEF InTables, DropsOf
<1> QED BY <1>2, <1>4

\* An install puts its key there.
LEMMA InTablesInstall ==
  ASSUME IInv, Connected, Flaky = {}, NEW s \in Switches, InstallOn(s)
  PROVE  /\ loop.key \in Keys /\ loop.key = job.key
         /\ InTables' = InTables \cup {loop.key}
<1>1. /\ loop.key \in Keys /\ loop.key = job.key /\ loop.loc \in AnyLocation
      /\ InstallDropRule(s, loop.key, loop.loc)
      /\ s \in connected
  BY DEF InstallOn, IInv, TypeOK, Progress, Connected
<1>2. loop.key \in InTables'
  BY <1>1, InstallPuts DEF InTables
<1>3. drops \subseteq drops' /\ \A e \in drops' \ drops : StatMatchesBlock(e.match, loop.key)
  BY <1>1, InstallProperties
<1>4. InTables \subseteq InTables'
  BY <1>3 DEF InTables, DropsOf
<1>5. ASSUME NEW k \in InTables' PROVE k \in InTables \cup {loop.key}
  <2>1. k \in Keys
    BY DEF InTables
  <2>2. PICK t \in Switches : DropsOf(k, t)' # {}
    BY DEF InTables
  <2>3. PICK e \in drops' : e.dpid = t /\ StatMatchesBlock(e.match, k)
    BY <2>2 DEF DropsOf
  <2>4. CASE e \in drops
    BY <2>1, <2>3, <2>4 DEF InTables, DropsOf
  <2>5. CASE e \notin drops
    BY <1>1, <1>3, <2>1, <2>3, <2>5, RuleOfOneKey
  <2> QED BY <2>4, <2>5
<1> QED BY <1>1, <1>2, <1>4, <1>5

\* A dispatch finds its key in the tables, or goes on to install it.
LEMMA InTablesDispatch ==
  ASSUME SteadyChannels, TablesInv, NEW a \in job.actions, Dispatch(a)
  PROVE  /\ InTables' = InTables
         /\ BlockedKeys' = BlockedKeys \cup {job.key}
         /\ job.key \in InTables \cup Installing'
<1> USE DEF TablesInv
<1>1. pc = "dispatch" /\ drops' = drops /\ blocked' = blocked \cup {<<job.key, a.loc.dpid>>}
  BY DEF Dispatch, tableVars
<1>2. InTables' = InTables
  BY <1>1 DEF InTables, DropsOf
<1>3. CASE <<job.key, a.loc.dpid>> \in blocked
  <2>1. <<job.key, a.loc.dpid>>[1] = job.key
    OBVIOUS
  <2>2. job.key \in BlockedKeys
    BY <1>3, <2>1 DEF BlockedKeys
  <2> QED BY <1>1, <1>2, <2>2, BlockedKeysGrow DEF Somewhere, Installing
<1>4. CASE <<job.key, a.loc.dpid>> \notin blocked
  <2>1. datapaths # {}
    BY DEF Registered, SteadyChannels
  <2>2. BlockTargets(job.key, a.loc.dpid) # {}
    BY <1>4, <2>1 DEF BlockTargets, ScopedTargets
  <2>3. pc' = "install" /\ loop'.key = job.key
    BY <2>2 DEF Dispatch, NoLoop
  <2> QED BY <1>1, <1>2, <2>3, BlockedKeysGrow DEF Installing
<1> QED BY <1>3, <1>4

LEMMA SomewhereStep ==
  ASSUME KeysApart, SteadyChannels, TablesInv, [Next]_vars
  PROVE  TablesInv'
<1> USE DEF TablesInv, SteadyChannels
<1>1. IInv' /\ Registered' /\ Connected'
  BY NextIInv, RegisteredStep, ConnectedStep DEF IInv
<1>2. ASSUME NEW s \in Switches, DeleteOn(s) PROVE Somewhere'
  <2>1. BlockedKeys' = BlockedKeys /\ loop.key \notin BlockedKeys /\ Installing = {}
    BY <1>2, ReleasingIsForgotten DEF BlockedKeys, Installing
  <2>2. InTables' \in {InTables, InTables \ {loop.key}}
    BY <1>2, InTablesDelete
  <2> QED BY <2>1, <2>2 DEF Somewhere
<1>3. ASSUME NEW s \in Switches, InstallOn(s) PROVE Somewhere'
  <2>1. InTables' = InTables \cup {loop.key}
    BY <1>3, InTablesInstall
  <2>2. BlockedKeys' = BlockedKeys
    BY <1>3 DEF InstallOn, BlockedKeys
  <2> QED BY <2>1, <2>2 DEF Somewhere, Installing
<1>4. ASSUME NEW a \in job.actions, Dispatch(a) PROVE Somewhere'
  <2>1. Installing = {}
    BY <1>4 DEF Dispatch, Installing
  <2> QED BY <1>4, <2>1, InTablesDispatch DEF Somewhere
<1>5. ASSUME ~\E s \in Switches : InstallOn(s) \/ DeleteOn(s),
             ~\E a \in job.actions : Dispatch(a)
      PROVE  Somewhere'
  <2>1. /\ blocked' \subseteq blocked /\ RulesStay
        /\ pc # "install" \/ UNCHANGED <<pc, loop>>
    BY <1>5, OtherSteps, EntriesStay DEF IInv
  <2>2. BlockedKeys' \subseteq BlockedKeys /\ Installing \subseteq Installing'
    BY <2>1 DEF BlockedKeys, Installing
  <2>3. InTables \subseteq InTables'
    BY <2>1, InTablesFrame
  <2> QED BY <2>2, <2>3 DEF Somewhere
<1>6. Somewhere'
  BY <1>2, <1>3, <1>4, <1>5
<1> QED BY <1>1, <1>6

\* The tables hold rules of active keys only, and of all of them outside a release and
\* an answer.
LEMMA TablesAndBooks ==
  ASSUME SteadyChannels, TablesInv
  PROVE  /\ InTables \subseteq activeBlocks
         /\ activeBlocks \ HalfReleased \subseteq InTables \cup Installing
<1> USE DEF TablesInv, IInv, SteadyChannels
<1>1. ASSUME NEW k \in InTables
      PROVE  k \in activeBlocks
  <2>1. PICK s \in Switches : DropsOf(k, s) # {}
    BY DEF InTables
  <2>2. PICK e \in drops : StatMatchesBlock(e.match, k)
    BY <2>1 DEF DropsOf
  <2>3. PICK j \in activeBlocks : StatMatchesBlock(e.match, j)
    BY DEF NoOrphanDrop
  <2>4. j \in Keys /\ k \in Keys
    BY DEF TypeOK, InTables
  <2> QED BY <2>2, <2>3, <2>4, RuleOfOneKey
<1>2. activeBlocks \ HalfReleased \subseteq InTables \cup Installing
  BY DEF BooksAgree, Somewhere
<1> QED BY <1>1, <1>2

\* Every step is a step of the policy on the tables, or none.
LEMMA TablesStep ==
  ASSUME KeysApart, SteadyChannels, TablesInv, [Next]_vars
  PROVE  Tables!Next \/ UNCHANGED <<AlarmedKey, InTables, CalmIn(InTables)>>
<1> DEFINE calm == CalmIn(InTables)
<1>0. /\ IInv /\ InTables \subseteq Keys /\ Flaky = {}
      /\ streak \in [Keys -> 0 .. ConfirmCycles \cup {None}]
  BY DEF TablesInv, IInv, TypeOK, InTables, SteadyChannels
<1>1. calm = [k \in Keys |-> IF k \in InTables THEN streak[k] ELSE 0]
      /\ calm' = [k \in Keys |-> IF k \in InTables' THEN streak'[k] ELSE 0]
  BY DEF CalmIn
<1>2. ASSUME NEW k \in work, Review(k) \/ Confirm(k)
      PROVE  Tables!Next
  <2>1. /\ k \in Keys /\ k \in activeBlocks /\ AlarmedKey = {} /\ AlarmedKey' = {}
    BY <1>0, <1>2, ReviewCounts
  <2>2. PICK quiet \in BOOLEAN : streak' = [streak EXCEPT ![k] = IF quiet THEN @ + 1 ELSE 0]
    BY <1>0, <1>2, ReviewCounts
  <2>3. pc = "review" /\ drops' = drops
    BY <1>2 DEF Review, Confirm, mitigatorVars, tableVars
  <2>4. k \in InTables /\ InTables' = InTables
    BY <2>1, <2>3, TablesAndBooks DEF HalfReleased, Installing, InTables, DropsOf
  <2>5. calm' = [calm EXCEPT ![k] = IF quiet THEN @ + 1 ELSE 0]
    BY <1>0, <1>1, <2>1, <2>2, <2>4
  <2>6. Tables!Review(k, quiet)
    BY <2>1, <2>4, <2>5 DEF Tables!Review
  <2> QED BY <2>1, <2>6 DEF Tables!Next
<1>3. ASSUME NEW s \in Switches, DeleteOn(s)
      PROVE  Tables!Next \/ UNCHANGED <<AlarmedKey, InTables, calm>>
  <2>1. /\ loop.key \in Keys /\ streak[loop.key] >= ConfirmCycles
    BY <1>0, <1>3 DEF DeleteOn, IInv, TypeOK, Progress
  <2>2. AlarmedKey = {} /\ AlarmedKey' = {} /\ streak' = streak
    BY <1>3 DEF DeleteOn, AlarmedKey, bookVars
  <2>3. CASE InTables' = InTables
    BY <1>1, <2>2, <2>3
  <2>4. CASE InTables' # InTables
    <3>1. InTables' = InTables \ {loop.key} /\ loop.key \in InTables
      BY <1>0, <1>3, <2>4, InTablesDelete
    <3>2. calm' = [calm EXCEPT ![loop.key] = 0] /\ calm[loop.key] >= ConfirmCycles
      BY <1>0, <1>1, <2>1, <2>2, <3>1
    <3>3. Tables!Lift(loop.key)
      BY <2>2, <3>1, <3>2 DEF Tables!Lift
    <3> QED BY <2>1, <3>3 DEF Tables!Next
  <2> QED BY <2>3, <2>4
<1>4. ASSUME Released
      PROVE  UNCHANGED <<AlarmedKey, InTables, calm>>
  <2>1. /\ loop.key \in Keys /\ AlarmedKey = {} /\ AlarmedKey' = {}
        /\ streak' = [streak EXCEPT ![loop.key] = None]
    BY <1>0, <1>4, ReleaseLifts
  <2>2. /\ drops' = drops /\ pc = "release" /\ loop.left = {} /\ loop.known = datapaths
    BY <1>4 DEF Released, mitigatorVars
  <2>3. InTables' = InTables
    BY <2>2 DEF InTables, DropsOf
  <2>4. loop.key \notin InTables
    BY <1>0, <2>2 DEF IInv, ReleaseDeletes, Reachable, InTables, DropsOf
  <2> QED BY <1>0, <1>1, <2>1, <2>3, <2>4
<1>5. ASSUME NEW a \in job.actions, Dispatch(a)
      PROVE  Tables!Next \/ UNCHANGED <<AlarmedKey, InTables, calm>>
  <2>1. /\ job.key \in Keys
        /\ AlarmedKey = {job.key} /\ AlarmedKey' \in {{job.key}, {}}
        /\ streak' = [streak EXCEPT ![job.key] = 0]
    BY <1>0, <1>5, AnswersAlarm
  <2>2. InTables' = InTables /\ job.key \in InTables \cup Installing'
    BY <1>5, InTablesDispatch
  <2>3. CASE job.key \in InTables
    <3>1. calm' = [calm EXCEPT ![job.key] = 0]
      BY <1>0, <1>1, <2>1, <2>2, <2>3
    <3>2. InTables' = InTables \cup {job.key}
      BY <2>2, <2>3
    <3>3. Tables!Raise(job.key)
      BY <2>1, <3>1, <3>2 DEF Tables!Raise
    <3> QED BY <2>1, <3>3 DEF Tables!Next
  <2>4. CASE job.key \notin InTables
    <3>1. calm' = calm
      BY <1>0, <1>1, <2>1, <2>2, <2>4
    <3>2. pc' = "install" /\ job'.key = job.key
      BY <1>0, <1>5, <2>2, <2>4 DEF Installing, Dispatch, IInv, TypeOK
    <3> QED BY <2>1, <2>2, <3>1, <3>2 DEF AlarmedKey
  <2> QED BY <2>3, <2>4
<1>6. ASSUME NEW s \in Switches, InstallOn(s)
      PROVE  Tables!Next
  <2>1. /\ job.key \in Keys
        /\ AlarmedKey = {job.key} /\ AlarmedKey' \in {{job.key}, {}}
        /\ streak' = [streak EXCEPT ![job.key] = 0]
    BY <1>0, <1>6, AnswersAlarm
  <2>2. InTables' = InTables \cup {job.key}
    BY <1>0, <1>6, InTablesInstall DEF TablesInv
  <2>3. calm' = [calm EXCEPT ![job.key] = 0]
    BY <1>0, <1>1, <2>1, <2>2
  <2>4. Tables!Raise(job.key)
    BY <2>1, <2>2, <2>3 DEF Tables!Raise
  <2> QED BY <2>1, <2>4 DEF Tables!Next
<1>7. ASSUME ~\E s \in Switches : InstallOn(s) \/ DeleteOn(s), UNCHANGED streak
      PROVE  UNCHANGED <<InTables, calm>>
  <2>1. InTables' = InTables
    BY <1>0, <1>7, OtherSteps, InTablesFrame DEF IInv
  <2> QED BY <1>1, <1>7, <2>1
<1>8. ASSUME NEW k \in work, Group(k)
      PROVE  Tables!Next \/ UNCHANGED <<AlarmedKey, InTables, calm>>
  <2>1. k \in Keys /\ UNCHANGED bookVars /\ AlarmedKey = {} /\ AlarmedKey' \in {{k}, {}}
    BY <1>0, <1>8, GroupAlarms
  <2>2. ~\E s \in Switches : InstallOn(s) \/ DeleteOn(s)
    BY <1>8 DEF Group, Dismiss, DecideSource, DecideLowSlow, DecideDistributed, Decide,
                InstallOn, DeleteOn
  <2>3. UNCHANGED <<InTables, calm>>
    BY <1>7, <2>1, <2>2 DEF bookVars
  <2>4. CASE AlarmedKey' = {}
    BY <2>1, <2>3, <2>4
  <2>5. CASE AlarmedKey' = {k}
    BY <2>1, <2>3, <2>5 DEF Tables!Alarm, Tables!Next
  <2> QED BY <2>1, <2>4, <2>5
<1>9. CASE /\ ~\E s \in Switches : InstallOn(s) \/ DeleteOn(s)
           /\ \/ StartCycle
              \/ \E s \in Switches : ClearOn(s)
              \/ \E seen \in SUBSET Dsts, flagged \in SUBSET Keys : Detect(seen, flagged)
              \/ FinishGroup \/ ClearDone \/ LoopRaises \/ EndCycle
              \/ Environment
              \/ UNCHANGED vars
  <2>1. UNCHANGED <<AlarmedKey, streak>>
    BY <1>9, BooksStand
  <2> QED BY <1>7, <1>9, <2>1
<1> QED
  BY <1>2, <1>3, <1>4, <1>5, <1>6, <1>8, <1>9
     DEF Next, Monitor, CheckUnblocks, Process

\* Where channels do not fail and no key is wider than another, not only the books but
\* what the switches drop implements BlockPolicy: a key's first rule appears in answer to
\* its alarm, and its last one goes in a release that ConfirmCycles quiet reviews earned.
THEOREM TablesRefinePolicy ==
  ASSUME KeysApart, SteadyChannels
  PROVE  Spec => TablesFollowPolicy
<1>1. Init => TablesInv
  <2>1. Init => Connected /\ Somewhere
    BY DEF Init, MitigatorInit, Connected, Somewhere, BlockedKeys
  <2> QED BY <2>1, InitIInv, InitRegistered DEF TablesInv
<1>2. TablesInv /\ [Next]_vars => TablesInv'
  BY SomewhereStep
<1>3. Init => Tables!Init
  BY DEF Init, MitigatorInit, Tables!Init, CalmIn, AlarmedKey, InTables, DropsOf
<1>4. TablesInv /\ [Next]_vars => [Tables!Next]_(Tables!vars)
  BY TablesStep DEF Tables!vars
<1> QED
  BY <1>1, <1>2, <1>3, <1>4, PTL DEF Spec, TablesFollowPolicy, Tables!Spec

\* Where no switch joins late the monitor's greenthread never ends.
THEOREM MonitorSurvives ==
  ASSUME Late = {}
  PROVE  Spec => []MonitorLives
<1>1. OnlyNewcomersEndMonitor => MonitorLives
  BY DEF OnlyNewcomersEndMonitor, MonitorLives
<1> QED BY <1>1, NewcomersOnly, PTL

-----------------------------------------------------------------------------
(* What a clean-up took out stays out *)

\* What the rule of a distributed block drops has the block's whole identity: the block
\* leaves out neither a protocol nor a port that a packet under it has.
WholeIdentity ==
  \A pkt \in Packets, k \in Keys :
    k.src = Any /\ Hits(DropMatch(k, Any), pkt) => k.port = pkt.port /\ k.proto = pkt.proto

\* Only the actions of a distributed detection have sources, and they are newly
\* enforced by a block that is active.
JobFits ==
  pc \in {"dispatch", "install"} =>
    /\ job.fresh # {} => job.key \in activeBlocks /\ job.key.src = Any
    /\ \A a \in job.actions : a.sources # {} => job.key.src = Any

\* A clean-up runs under its own block.
CleaningFits ==
  pc = "clear" => loop.key \in activeBlocks /\ loop.key.src = Any

CleanInv ==
  IInv /\ Registered /\ Connected /\ JobFits /\ CleaningFits /\ CleanedStaysClean

\* A group is taken up with nothing enforced yet.
LEMMA DecidedFits ==
  ASSUME NEW k, Group(k)
  PROVE  JobFits' /\ pc' # "clear"
<1>1. CASE Dismiss(k)
  BY <1>1 DEF Dismiss, JobFits
<1>2. ASSUME NEW loc, DecideSource(k, loc) PROVE JobFits' /\ pc' # "clear"
  BY <1>2 DEF DecideSource, Decide, JobFits
<1>3. CASE DecideLowSlow(k)
  BY <1>3 DEF DecideLowSlow, Decide, JobFits
<1>4. ASSUME NEW entry, DecideDistributed(k, entry) PROVE JobFits' /\ pc' # "clear"
  BY <1>4 DEF DecideDistributed, Decide, JobFits
<1> QED BY <1>1, <1>2, <1>3, <1>4 DEF Group

\* What a dispatch enforces belongs to a block that is active by then.
LEMMA DispatchedFits ==
  ASSUME TypeOK, JobFits, NEW a \in job.actions, Dispatch(a)
  PROVE  JobFits' /\ pc' # "clear"
<1>1. /\ job'.key = job.key /\ job'.actions = job.actions \ {a}
      /\ job'.fresh \in {job.fresh, job.fresh \cup a.sources}
  BY DEF Dispatch, TypeOK
<1>2. job.key \in activeBlocks' /\ pc = "dispatch" /\ pc' \in {"dispatch", "install"}
  BY DEF Dispatch
<1>3. job'.fresh # {} => job.key.src = Any
  BY <1>1, <1>2 DEF JobFits
<1> QED BY <1>1, <1>2, <1>3 DEF JobFits

\* The handlers leave the books and the monitor alone, and the only entries they make
\* are those of packets that no block covers.
LEMMA HandlersAllow ==
  ASSUME Environment
  PROVE  /\ UNCHANGED <<activeBlocks, monitorVars>>
         /\ \/ permits' \subseteq permits
            \/ \E s \in Switches, pkt \in Packets :
                 permits' = permits \cup {<<s, pkt>>} /\ ~IsBlocked(pkt)
<1>1. ASSUME NEW s \in Switches, NEW timely \in BOOLEAN, StatsReply(s, timely)
      PROVE  permits' \subseteq permits /\ UNCHANGED <<bookVars, monitorVars>>
  BY <1>1 DEF StatsReply, SweepBlockedForwarding
<1>2. ASSUME NEW s \in Switches, NEW pkt \in Packets, PacketIn(s, pkt)
      PROVE  /\ UNCHANGED <<bookVars, monitorVars>>
             /\ permits' = permits \cup {<<s, pkt>>} /\ ~IsBlocked(pkt)
  BY <1>2 DEF PacketIn
<1>3. ASSUME NEW s \in Switches, NEW restarted \in BOOLEAN, SwitchFeatures(s, restarted)
      PROVE  permits' \subseteq permits /\ UNCHANGED <<bookVars, monitorVars>>
  BY <1>3 DEF SwitchFeatures, Connect, tableVars
<1>4. CASE \/ \E s \in Switches : Answer(s) \/ LoseChannel(s)
           \/ \E e \in drops : Attack(e)
           \/ \E p \in permits : PermitTimeout(p)
  <2>1. permits' \subseteq permits /\ UNCHANGED <<bookVars, monitorVars>>
    BY <1>4 DEF Answer, LoseChannel, Attack, PermitTimeout, Expire, mitigatorVars, tableVars
  <2> QED BY <2>1 DEF bookVars
<1> QED BY <1>1, <1>2, <1>3, <1>4 DEF Environment, bookVars

\* A packet under the block that is being cleaned up after is one is_blocked knows.
LEMMA CleaningIsBlocked ==
  ASSUME WholeIdentity, TypeOK, CleaningFits, pc = "clear",
         NEW pkt \in Packets, Hits(DropMatch(loop.key, Any), pkt)
  PROVE  IsBlocked(pkt)
<1> DEFINE k == loop.key
<1>1. k \in activeBlocks /\ k.src = Any /\ k \in Keys
  BY DEF CleaningFits, TypeOK
<1>2. k.port = pkt.port /\ k.proto = pkt.proto
  BY <1>1 DEF WholeIdentity
<1>3. k.dst = pkt.dst
  BY DEF Hits, Subsumes, DropMatch
<1>4. k = [src |-> Any, dst |-> pkt.dst, port |-> pkt.port, proto |-> pkt.proto]
  BY <1>1, <1>2, <1>3, KeysAssumption DEF BlockKey
<1> QED BY <1>1, <1>4 DEF IsBlocked

LEMMA CleanStep ==
  ASSUME WholeIdentity, CleanInv, [Next]_vars
  PROVE  CleanInv'
<1> USE DEF CleanInv
<1>1. IInv' /\ Registered' /\ Connected'
  BY NextIInv, RegisteredStep, ConnectedStep DEF IInv
<1>2. SUFFICES JobFits' /\ CleaningFits' /\ CleanedStaysClean'
  BY <1>1
<1>3. ASSUME JobFits', pc' # "clear"
      PROVE  JobFits' /\ CleaningFits' /\ CleanedStaysClean'
  BY <1>3 DEF CleaningFits, CleanedStaysClean
<1>4. ASSUME permits' \subseteq permits, UNCHANGED <<activeBlocks, monitorVars>>
      PROVE  JobFits' /\ CleaningFits' /\ CleanedStaysClean'
  BY <1>4 DEF JobFits, CleaningFits, CleanedStaysClean, monitorVars
<1>5. CASE \/ StartCycle \/ CheckUnblocks \/ LoopRaises \/ ClearDone \/ EndCycle
           \/ \E seen \in SUBSET Dsts, flagged \in SUBSET Keys : Detect(seen, flagged)
  <2>1. pc' \notin {"dispatch", "install", "clear"}
    BY <1>5 DEF StartCycle, CheckUnblocks, Review, Confirm, DeleteOn, Released, LoopRaises,
                ClearDone, EndCycle, Detect
  <2> QED BY <1>3, <2>1 DEF JobFits
<1>6. CASE FinishGroup
  <2>1. /\ pc = "dispatch" /\ activeBlocks' = activeBlocks
        /\ pc' \notin {"dispatch", "install"}
    BY <1>6 DEF FinishGroup, bookVars
  <2>2. JobFits'
    BY <2>1 DEF JobFits
  <2>3. CASE job.fresh = {}
    BY <1>3, <1>6, <2>2, <2>3 DEF FinishGroup
  <2>4. CASE job.fresh # {}
    <3>1. /\ loop'.key = job.key /\ loop'.left = datapaths /\ loop'.known = datapaths
      BY <1>6, <2>4 DEF FinishGroup, NoLoop
    <3>2. CleanedStaysClean'
      BY <3>1 DEF CleanedStaysClean
    <3>3. CleaningFits'
      BY <2>1, <2>4, <3>1 DEF CleaningFits, JobFits
    <3> QED BY <2>2, <3>2, <3>3
  <2> QED BY <2>3, <2>4
<1>7. ASSUME NEW s \in Switches, ClearOn(s)
      PROVE  JobFits' /\ CleaningFits' /\ CleanedStaysClean'
  <2>1. /\ pc = "clear" /\ pc' = "clear" /\ datapaths = loop.known
        /\ UNCHANGED <<activeBlocks, job>>
        /\ loop' = [loop EXCEPT !.left = @ \ {s}]
        /\ ClearForwarding(s, loop.key.dst, loop.sources)
    BY <1>7 DEF ClearOn, bookVars
  <2>2. /\ loop'.key = loop.key /\ loop'.sources = loop.sources
        /\ loop'.known = loop.known /\ loop'.left = loop.left \ {s}
    BY <2>1 DEF IInv, TypeOK
  <2>3. permits' = {p \in permits : ~(/\ p[1] = s /\ s \in connected
                                      /\ p[2].src \in loop.sources
                                      /\ p[2].dst = loop.key.dst)}
    BY <2>1 DEF ClearForwarding
  <2>4. ASSUME NEW t \in loop.known \ (loop'.left \cup Flaky), NEW pkt \in Packets,
               pkt.src \in loop.sources, Hits(DropMatch(loop.key, Any), pkt)
        PROVE  <<t, pkt>> \notin permits'
    <3>1. CASE t = s
      <4>1. t \in connected
        BY <2>1, <2>4 DEF Connected
      <4>2. pkt.dst = loop.key.dst
        BY <2>4 DEF Hits, Subsumes, DropMatch
      <4>3. <<t, pkt>>[1] = s /\ <<t, pkt>>[2] = pkt
        BY <3>1
      <4> QED BY <2>3, <2>4, <3>1, <4>1, <4>2, <4>3
    <3>2. CASE t # s
      BY <2>1, <2>2, <2>3, <2>4, <3>2 DEF CleanedStaysClean
    <3> QED BY <3>1, <3>2
  <2>5. CleanedStaysClean'
    BY <2>2, <2>4 DEF CleanedStaysClean
  <2> QED BY <2>1, <2>2, <2>5 DEF JobFits, CleaningFits
<1>8. ASSUME NEW s \in Switches, InstallOn(s)
      PROVE  JobFits' /\ pc' # "clear"
  BY <1>8 DEF InstallOn, JobFits, bookVars
<1>9. CASE Environment
  <2>1. UNCHANGED <<activeBlocks, monitorVars>>
    BY <1>9, HandlersAllow
  <2>2. CASE permits' \subseteq permits
    BY <1>4, <2>1, <2>2
  <2>3. ASSUME NEW s \in Switches, NEW pkt \in Packets, ~IsBlocked(pkt),
               permits' = permits \cup {<<s, pkt>>}
        PROVE  JobFits' /\ CleaningFits' /\ CleanedStaysClean'
    <3>1. pc = "clear" => ~Hits(DropMatch(loop.key, Any), pkt)
      BY <2>3, CleaningIsBlocked DEF IInv
    <3>2. UNCHANGED <<pc, loop, job>>
      BY <2>1 DEF monitorVars
    <3>3. CleanedStaysClean'
      BY <2>3, <3>1, <3>2 DEF CleanedStaysClean
    <3> QED BY <2>1, <3>2, <3>3 DEF JobFits, CleaningFits
  <2> QED BY <1>9, <2>2, <2>3, HandlersAllow
<1>10. CASE UNCHANGED vars
  BY <1>4, <1>10 DEF vars, bookVars, mitigatorVars
<1> QED
  BY <1>3, <1>5, <1>6, <1>7, <1>8, <1>9, <1>10, DecidedFits, DispatchedFits
     DEF Next, Monitor, Process, IInv

\* Where a distributed block's rule drops only what has the block's port and protocol,
\* no attack packet of the sources it newly took out caches its pair again on a switch the
\* clean-up is through with, whatever the handlers do between two switches and whatever
\* else those sources send.  A block that leaves the port or the protocol out is another
\* matter: is_blocked lets it through (controller.py:441).
THEOREM CleanUpsLast ==
  ASSUME WholeIdentity
  PROVE  Spec => []CleanedStaysClean
<1>1. Init => CleanInv
  <2>1. Init => Connected /\ JobFits /\ CleaningFits /\ CleanedStaysClean
    BY DEF Init, MitigatorInit, Connected, JobFits, CleaningFits, CleanedStaysClean
  <2> QED BY <2>1, InitIInv, InitRegistered DEF CleanInv
<1>2. CleanInv /\ [Next]_vars => CleanInv'
  BY CleanStep
<1>3. CleanInv => CleanedStaysClean
  BY DEF CleanInv
<1> QED BY <1>1, <1>2, <1>3, PTL DEF Spec

=============================================================================
