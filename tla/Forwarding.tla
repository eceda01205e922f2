----------------------------- MODULE Forwarding -----------------------------
(***************************************************************************)
(* forwarding/learning_switch.py over the ring of topologies/              *)
(* ring_topology.py: every switch has a host and the interface of the      *)
(* router for that host's subnet, and RSTP leaves a tree of the links      *)
(* between them.                                                           *)
(*                                                                         *)
(* A packet from one subnet to another travels twice: in a frame from its  *)
(* sender to the router, and in a frame from the router to its             *)
(* destination.  The switches learn ports by mac, but forward IP by rules  *)
(* that match addresses only and so cannot tell the two frames apart.      *)
(*                                                                         *)
(* Frames on a link and the packet-ins of a switch stay in order; nothing  *)
(* orders one link, or one switch, with another.  A flow-mod takes effect  *)
(* when it is sent: a later effect is a rule that is not there yet.        *)
(***************************************************************************)
EXTENDS Naturals, FiniteSets, SequencesExt

CONSTANTS
  Switches,
  Links,        \* the links of the tree, each the set of its two switches
  Hosts, Routers, \* end hosts, and the router's interfaces
  HomeOf,       \* host or interface -> its switch
  IpPairs,      \* <<source, destination>> hosts whose packets are followed
  Answers,      \* <<from, to>> nodes of a switch: who answers whose ARP request
  Broadcast, None,
  MaxInFlight   \* bound: frames on links and packet-ins on their way

Nodes == Hosts \cup Routers
GatewayAt(s) == CHOOSE r \in Routers : HomeOf[r] = s
Neighbours(s) == {t \in Switches : {s, t} \in Links}

\* Ports are named for what is behind them: a node of the switch, or a neighbour.
NodesAt(s) == {n \in Nodes : HomeOf[n] = s}
PortsOf(s) == Neighbours(s) \cup NodesAt(s)
Ports == Switches \cup Nodes

\* In a tree every switch but h has one link that leads to h: to up[s].
LeadsTo(up, h) ==
  /\ \A s \in Switches \ {h} : {s, up[s]} \in Links
  /\ \A s, t \in Switches :
       {s, t} \in Links => (s # h /\ up[s] = t <=> ~(t # h /\ up[t] = s))

ASSUME TreeAssumption ==
  \A h \in Switches : \E up \in [Switches -> Switches] : LeadsTo(up, h)

ASSUME ForwardingAssumption ==
  /\ Hosts \cap Routers = {}
  /\ HomeOf \in [Nodes -> Switches]
  /\ \A s \in Switches : \E r \in Routers : NodesAt(s) \cap Routers = {r}
  /\ \A pr \in IpPairs : pr[1] \in Hosts /\ pr[2] \in Hosts /\ HomeOf[pr[1]] # HomeOf[pr[2]]
  /\ \A a \in Answers : {a[1], a[2]} \subseteq Nodes /\ HomeOf[a[1]] = HomeOf[a[2]]
  /\ \A a \in Answers : a[1] # a[2]
  /\ Switches \cap Nodes = {}
  /\ None \notin Ports \cup IpPairs /\ Broadcast \notin Nodes

\* What a node says about itself, to all or to one; and the two frames of a packet.
Arp(n, to) == [src |-> n, dst |-> to, pair |-> None]
ToRouter(pr) == [src |-> pr[1], dst |-> GatewayAt(HomeOf[pr[1]]), pair |-> pr]
FromRouter(pr) == [src |-> GatewayAt(HomeOf[pr[2]]), dst |-> pr[2], pair |-> pr]

FramesOf(n) ==
  {Arp(n, to) : to \in {Broadcast} \cup {a[2] : a \in {b \in Answers : b[1] = n}}}
    \cup {f \in {ToRouter(pr) : pr \in IpPairs} \cup {FromRouter(pr) : pr \in IpPairs} :
            f.src = n}
Frames == UNION {FramesOf(n) : n \in Nodes}

VARIABLES
  macToPort,  \* mac_to_port: switch -> node -> port, None when not learnt
  ipRules,    \* <<switch, pair, out port>>: the priority-10 rules
  macRules,   \* <<switch, in port, src, dst, out port>>: the priority-1 rules
  wires,      \* <<from, to>> switches of a link -> frames on it
  packetIns   \* switch -> packet-ins on their way: [frame, port]

vars == <<macToPort, ipRules, macRules, wires, packetIns>>

Wires == {w \in Switches \X Switches : {w[1], w[2]} \in Links}

TypeOK ==
  /\ macToPort \in [Switches -> [Nodes -> Ports \cup {None}]]
  /\ ipRules \subseteq Switches \X IpPairs \X Ports
  /\ macRules \subseteq Switches \X Ports \X Nodes \X Nodes \X Ports
  /\ wires \in [Wires -> Seq(Frames)]
  /\ packetIns \in [Switches -> Seq([frame : Frames, port : Ports])]
  \* A rule replaces the one with the same match.
  /\ \A r, q \in ipRules : r[1] = q[1] /\ r[2] = q[2] => r = q
  /\ \A r, q \in macRules : (\A i \in 1 .. 4 : r[i] = q[i]) => r = q

Init ==
  /\ macToPort = [s \in Switches |-> [n \in Nodes |-> None]]
  /\ ipRules = {} /\ macRules = {}
  /\ wires = [w \in Wires |-> <<>>]
  /\ packetIns = [s \in Switches |-> <<>>]

-----------------------------------------------------------------------------
(* The switches *)

InFlight ==
  FoldSet(LAMBDA w, n : n + Len(wires[w]), 0, Wires)
    + FoldSet(LAMBDA s, n : n + Len(packetIns[s]), 0, Switches)

\* The ports a rule of switch s sends a frame to; IP rules come first.
RuledPorts(s, frame, port) ==
  LET ip == {r[3] : r \in {q \in ipRules : q[1] = s /\ q[2] = frame.pair}}
      mac == {r[5] : r \in {q \in macRules : /\ q[1] = s /\ q[2] = port /\ frame.pair = None
                                             /\ q[3] = frame.src /\ q[4] = frame.dst}}
  IN IF ip # {} THEN ip ELSE mac

\* queues with the frame on the link to each of the switches in to.
Sent(queues, s, frame, to) ==
  [w \in Wires |-> IF w[1] = s /\ w[2] \in to THEN Append(queues[w], frame) ELSE queues[w]]

\* A frame on a port of switch s: a rule forwards it, never back where it came from,
\* or it comes up.  queues are the frames on links without it.
Arrive(s, frame, port, queues) ==
  LET out == RuledPorts(s, frame, port) IN
  IF out # {}
  THEN wires' = Sent(queues, s, frame, out \ {port}) /\ UNCHANGED packetIns
  ELSE /\ wires' = queues
       /\ packetIns' = [packetIns EXCEPT ![s] = Append(@, [frame |-> frame, port |-> port])]

Send(n, frame) ==
  /\ InFlight < MaxInFlight
  /\ Arrive(HomeOf[n], frame, n, wires)
  /\ UNCHANGED <<macToPort, ipRules, macRules>>

Cross(w) ==
  /\ wires[w] # <<>>
  /\ Arrive(w[2], Head(wires[w]), w[1], [wires EXCEPT ![w] = Tail(@)])
  /\ UNCHANGED <<macToPort, ipRules, macRules>>

\* Idle and hard timeouts, the clean-up and the sweep of the orchestrator.
IpRuleGoes(r) == ipRules' = ipRules \ {r} /\ UNCHANGED <<macToPort, macRules, wires, packetIns>>
MacRuleGoes(r) == macRules' = macRules \ {r} /\ UNCHANGED <<macToPort, ipRules, wires, packetIns>>

-----------------------------------------------------------------------------
(* packet_in_handler *)

\* A mutant: one table for all switches.
LearnEverywhere(s, n, port) == macToPort' = [t \in Switches |-> [macToPort[t] EXCEPT ![n] = port]]

Learn(s, n, port) == macToPort' = [macToPort EXCEPT ![s][n] = port]

\* Where the frame goes: None when its destination has not been learnt, or is all.
OutPort(s, frame) == IF frame.dst = Broadcast THEN None ELSE macToPort'[s][frame.dst]

\* A mutant: the flood port is a port like any other.
AddRuleAlways(s, frame, port) ==
  LET out == OutPort(s, frame) IN
  /\ ipRules' = IF frame.pair = None THEN ipRules
                ELSE {r \in ipRules : r[1] # s \/ r[2] # frame.pair}
                       \cup {<<s, frame.pair, out>>}
  /\ UNCHANGED macRules

\* A rule for addresses, or for the macs of anything but IP; none when it floods.
AddRule(s, frame, port) ==
  LET out == OutPort(s, frame) IN
  /\ ipRules' = IF out = None \/ frame.pair = None THEN ipRules
                ELSE {r \in ipRules : r[1] # s \/ r[2] # frame.pair}
                       \cup {<<s, frame.pair, out>>}
  /\ macRules' = IF out = None \/ frame.pair # None THEN macRules
                 ELSE {r \in macRules : ~(/\ r[1] = s /\ r[2] = port
                                          /\ r[3] = frame.src /\ r[4] = frame.dst)}
                        \cup {<<s, port, frame.src, frame.dst, out>>}

\* The packet-out.
Forward(s, frame, port) ==
  LET out == OutPort(s, frame) IN
  wires' = Sent(wires, s, frame, (IF out = None THEN PortsOf(s) ELSE {out}) \ {port})

\* blocked: an IP packet under a block is learnt from, and goes nowhere.
PacketIn(s, blocked) ==
  LET frame == Head(packetIns[s]).frame
      port == Head(packetIns[s]).port
  IN /\ packetIns[s] # <<>>
     /\ packetIns' = [packetIns EXCEPT ![s] = Tail(@)]
     /\ Learn(s, frame.src, port)
     /\ IF blocked /\ frame.pair # None
        THEN UNCHANGED <<ipRules, macRules, wires>>
        ELSE AddRule(s, frame, port) /\ Forward(s, frame, port)

-----------------------------------------------------------------------------
Next ==
  \/ \E n \in Nodes : \E frame \in FramesOf(n) : Send(n, frame)
  \/ \E w \in Wires : Cross(w)
  \/ \E r \in ipRules : IpRuleGoes(r)
  \/ \E r \in macRules : MacRuleGoes(r)
  \/ \E s \in Switches, blocked \in BOOLEAN : PacketIn(s, blocked)

Spec == Init /\ [][Next]_vars

-----------------------------------------------------------------------------
\* Although they cannot tell a packet on its way to the router from the same packet on
\* its way from it, the rules for a pair lead where it has to go: to the router at its
\* source, to its destination there, and there are none elsewhere, where only flooded
\* frames pass.  A rule made at the destination for a flooded frame to the router would
\* send the router's frames away again.
RulesLead ==
  \A r \in ipRules :
    LET pr == r[2] IN
    \/ r[1] = HomeOf[pr[1]] /\ r[3] = GatewayAt(r[1])
    \/ r[1] = HomeOf[pr[2]] /\ r[3] = pr[2]

\* A switch knows its own nodes before any other does, and by their own ports.
HomeKnowsFirst ==
  \A s \in Switches, n \in Nodes :
    macToPort[s][n] # None => macToPort[HomeOf[n]][n] = n

=============================================================================
