-------------------------- MODULE OpenFlowMitigator --------------------------
(***************************************************************************)
(* mitigation/openflow_mitigator.py over the switches it programs.         *)
(*                                                                         *)
(* The mitigator's state is datapaths (_datapaths) and blocked (_blocked). *)
(* The rest are the switches: whether the control channel is up and what   *)
(* each flow table holds, known from what the code sends and reads back.   *)
(* A table outlives its channel; a message to a closed channel is lost.    *)
(* A forwarding entry is for a pair of addresses; which packet had it made *)
(* is kept beside it, for the properties only.                             *)
(*                                                                         *)
(* The operators below are the mitigator's methods and what can happen to  *)
(* a switch: each says how it changes its part of the state.  The actions  *)
(* of Orchestration are written with them.                                 *)
(***************************************************************************)
EXTENDS OpenFlowTable

CONSTANTS
  Keys,       \* the blocks that may be asked for
  Flaky,      \* switches that may lose their control channel or restart
  Late,       \* switches that join after the start
  MaxPackets  \* bound: the counter of a drop rule stops here

ASSUME KeysAssumption == Keys \subseteq BlockKey
ASSUME EnvironmentAssumption ==
  Flaky \subseteq Switches /\ Late \subseteq Switches /\ MaxPackets \in Nat

VARIABLES
  datapaths,  \* registered switches
  blocked,    \* <<key, dpid>>, dpid = None for a network-wide block
  connected,  \* switches whose control channel is up
  drops,      \* priority-100 entries of every table: [dpid, match, packets]
  permits     \* priority-10 entries of every table: <<dpid, packet>>

tableVars == <<drops, permits>>
mitigatorVars == <<datapaths, blocked, connected, drops, permits>>

Location == [dpid : Switches, inPort : Ports]
Nowhere == [dpid |-> None, inPort |-> Any]
FlowEntry == [dpid : Switches, match : Rule, packets : Nat]

MitigatorTypeOK ==
  /\ datapaths \subseteq Switches
  /\ blocked \subseteq Keys \X (Switches \cup {None})
  /\ connected \subseteq Switches
  /\ drops \subseteq FlowEntry
  /\ permits \subseteq Switches \X Packet

BlockedKeys == {b[1] : b \in blocked}
DropsOf(k, s) == {e \in drops : e.dpid = s /\ StatMatchesBlock(e.match, k)}

MitigatorInit ==
  /\ datapaths = Switches \ Late
  /\ connected = Switches \ Late
  /\ blocked = {}
  /\ drops = {}
  /\ permits = {}

-----------------------------------------------------------------------------
(* The methods *)

Register(s) == datapaths' = datapaths \cup {s}

\* The application never calls it (see LoseChannel of Orchestration).
Deregister(s) == datapaths' = datapaths \ {s}

\* The registered switch a block is scoped to, and every switch when there is none.
ScopedTargets(d) == IF d \in datapaths THEN {d} ELSE datapaths

\* The switches a block is installed on; none when it is in place already.
BlockTargets(k, d) == IF <<k, d>> \in blocked THEN {} ELSE ScopedTargets(d)

\* _install_drop_rule.  in_port is matched on the scoped switch only; an add whose
\* match the table holds already leaves the entry and its counters.
InstallDropRule(s, k, loc) ==
  LET match == DropMatch(k, IF s = loc.dpid THEN loc.inPort ELSE Any)
      isNew == s \in connected /\ \A e \in drops : e.dpid # s \/ e.match # match
  IN drops' = drops \cup {e \in {[dpid |-> s, match |-> match, packets |-> 0]} : isNew}

\* A mutant: only the network-wide entry is forgotten.
ForgetUnscoped(k) == blocked' = blocked \ {<<k, None>>}

\* unblock() begins: every entry of the flow goes, whatever switch it names.
ForgetBlock(k) == blocked' = {b \in blocked : b[1] # k}

\* Mutants: the delete is strict, and the delete names the destination only.
CoversStrictly(k, match) == match = DropMatch(k, Any)
CoversDestination(k, match) == match.dst = k.dst

\* Does the delete that unblock(k) sends cover an entry's match?
Covers(k, match) == Subsumes(DropMatch(k, Any), match)

\* _delete_drop_rule: what the delete takes from the table of s, whatever the priority.
DeleteDropRule(s, k) ==
  /\ drops' = {e \in drops : ~(e.dpid = s /\ s \in connected /\ Covers(k, e.match))}
  /\ permits' = {p \in permits : ~(/\ p[1] = s /\ s \in connected
                                   /\ Covers(k, ForwardMatch(p[2].src, p[2].dst)))}

\* clear_forwarding_rules(dst, sources) on switch s.
ClearForwarding(s, dst, sources) ==
  permits' = {p \in permits :
                ~(/\ p[1] = s /\ s \in connected
                  /\ p[2].src \in sources /\ p[2].dst = dst)}

-----------------------------------------------------------------------------
(* The switches *)

\* A channel comes up; a switch that restarted has lost its table.
Connect(s, restarted) ==
  /\ s \notin connected
  /\ connected' = connected \cup {s}
  /\ IF restarted
     THEN /\ drops' = {e \in drops : e.dpid # s}
          /\ permits' = {p \in permits : p[1] # s}
     ELSE UNCHANGED tableVars

Disconnect(s) ==
  /\ s \in connected \cap Flaky
  /\ connected' = connected \ {s}

\* Traffic counted, and dropped, by entry e.
DropHit(e) ==
  /\ e.packets < MaxPackets
  /\ drops' = (drops \ {e}) \cup {[e EXCEPT !.packets = @ + 1]}

\* A forwarding rule's idle or hard timeout.
Expire(s, src, dst) ==
  permits' = {p \in permits : ~(p[1] = s /\ p[2].src = src /\ p[2].dst = dst)}

=============================================================================
