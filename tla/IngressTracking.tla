--------------------------- MODULE IngressTracking ---------------------------
(***************************************************************************)
(* Where does traffic enter?  What forwarding/learning_switch.py and       *)
(* telemetry/openflow_adapter.py learn from packet-ins, with the           *)
(* inter-switch ports that _update_topology of ryu_controller_2.py feeds   *)
(* them.  The answers scope the blocks of the orchestrator.                *)
(*                                                                         *)
(* A packet with no entry comes up from every switch on its path, so a     *)
(* frame is seen on the port its sender is attached to and on links of the *)
(* other switches.  A routed packet travels on under the mac of the        *)
(* gateway that forwarded it.  Ports are pairs <<dpid, port>>; a node      *)
(* stands for its mac and for its own IP address.                          *)
(*                                                                         *)
(* Two callers run _update_topology: the topology events' handler and the  *)
(* monitor.  Each reads the links, and gives up control before it writes.  *)
(***************************************************************************)
EXTENDS Naturals

CONSTANTS
  Hosts, Gateways,  \* end hosts, and the router's interfaces (the x.x.x.1 nodes)
  Attached,         \* node -> the port it is plugged into
  Links,            \* switch-switch links, each the set of its two ports
  Pairs,            \* (source, destination) addresses of the traffic followed
  Senders,          \* pair -> the hosts that send it (a source may be made up)
  NoPort            \* Python's None

Nodes == Hosts \cup Gateways
LinkPorts == UNION Links
HostPorts == {Attached[h] : h \in Hosts}
PortsInUse == LinkPorts \cup {Attached[n] : n \in Nodes}

ASSUME NetworkAssumption ==
  /\ Hosts \cap Gateways = {}
  /\ \A m, n \in Nodes : Attached[m] = Attached[n] => m = n
  /\ \A n \in Nodes : Attached[n] \notin LinkPorts
  /\ NoPort \notin PortsInUse
  /\ \A pr \in Pairs : Senders[pr] \subseteq Hosts

Callers == {"handler", "monitor"}
Idle == [reading |-> FALSE, links |-> {}]
Unseen == [at |-> NoPort, fresh |-> FALSE]

VARIABLES
  discovered,   \* the links LLDP discovery holds
  notified,     \* a topology event waits for its handler
  snapshot,     \* caller -> the links its _update_topology has read, if it is in one
  interswitch,  \* _interswitch_ports of the orchestrator
  arped,        \* _ip_to_mac: the nodes whose address ARP has shown
  location,     \* _host_location: mac -> port
  routerPorts,  \* _router_ports
  meta          \* _flow_meta: pair -> where it enters, younger than its TTL or not

topologyVars == <<discovered, notified, snapshot, interswitch>>
learntVars == <<arped, location, routerPorts>>
vars == <<topologyVars, learntVars, meta>>

TypeOK ==
  /\ discovered \subseteq Links
  /\ notified \in BOOLEAN
  /\ snapshot \in [Callers -> [reading : BOOLEAN, links : SUBSET Links]]
  /\ interswitch \subseteq LinkPorts
  /\ arped \subseteq Nodes
  /\ location \in [Nodes -> PortsInUse \cup {NoPort}]
  /\ routerPorts \subseteq PortsInUse
  /\ meta \in [Pairs -> [at : PortsInUse \cup {NoPort}, fresh : BOOLEAN]]

Init ==
  /\ discovered = {}
  /\ notified = FALSE
  /\ snapshot = [c \in Callers |-> Idle]
  /\ interswitch = {}
  /\ arped = {}
  /\ location = [n \in Nodes |-> NoPort]
  /\ routerPorts = {}
  /\ meta = [pr \in Pairs |-> Unseen]

-----------------------------------------------------------------------------
(* Topology *)

\* EventLinkAdd, and EventLinkDelete when LLDP has been missed for too long.
LinkChanges(l) ==
  /\ discovered' = IF l \in discovered THEN discovered \ {l} ELSE discovered \cup {l}
  /\ notified' = TRUE
  /\ UNCHANGED <<snapshot, interswitch, learntVars, meta>>

\* get_link(): the reply holds the links of that moment.
ReadLinks(c) ==
  /\ ~snapshot[c].reading
  /\ snapshot' = [snapshot EXCEPT ![c] = [reading |-> TRUE, links |-> discovered]]
  /\ UNCHANGED <<discovered, interswitch, learntVars, meta>>

HandlerReads == notified /\ notified' = FALSE /\ ReadLinks("handler")
MonitorReads == ReadLinks("monitor") /\ UNCHANGED notified

\* Mutants: every used port of a linked switch is written; ports are never taken back.
WriteWholeSwitches(c) ==
  /\ snapshot[c].reading
  /\ interswitch' = {p \in PortsInUse : \E q \in UNION snapshot[c].links : q[1] = p[1]}
  /\ snapshot' = [snapshot EXCEPT ![c] = Idle]
  /\ UNCHANGED <<discovered, notified, learntVars, meta>>

WriteMorePorts(c) ==
  /\ snapshot[c].reading
  /\ interswitch' = interswitch \cup UNION snapshot[c].links
  /\ snapshot' = [snapshot EXCEPT ![c] = Idle]
  /\ UNCHANGED <<discovered, notified, learntVars, meta>>

\* update_interswitch_ports: the whole set is replaced.
WritePorts(c) ==
  /\ snapshot[c].reading
  /\ interswitch' = UNION snapshot[c].links
  /\ snapshot' = [snapshot EXCEPT ![c] = Idle]
  /\ UNCHANGED <<discovered, notified, learntVars, meta>>

\* The dashboard's part of _update_topology raised: the ports are not written.
UpdateFails(c) ==
  /\ snapshot[c].reading
  /\ snapshot' = [snapshot EXCEPT ![c] = Idle]
  /\ UNCHANGED <<discovered, notified, interswitch, learntVars, meta>>

-----------------------------------------------------------------------------
(* Packet-in *)

IsInterswitch(p) == p \in interswitch

\* A mutant: the router's ports count as well.
IsEdgePort(p) == ~IsInterswitch(p)

IsHostPort(p) == ~IsInterswitch(p) /\ p \notin routerPorts

\* A mutant: the first location stays.
LearnLocationOnce(n, p) ==
  location' = IF IsInterswitch(p) \/ location[n] # NoPort
              THEN location ELSE [location EXCEPT ![n] = p]

LearnLocation(n, p) ==
  location' = IF IsInterswitch(p) THEN location ELSE [location EXCEPT ![n] = p]

\* A mutant: any address marks a router.
LearnAnyRouterPort(n, p) ==
  routerPorts' = IF ~IsInterswitch(p) THEN routerPorts \cup {p} ELSE routerPorts

LearnRouterPort(n, p) ==
  routerPorts' = IF ~IsInterswitch(p) /\ n \in Gateways
                 THEN routerPorts \cup {p} ELSE routerPorts

\* A mutant: what the docstring says, a location is set only ever once.
RememberOnce(pr, p) ==
  meta' = [meta EXCEPT ![pr] =
             [at |-> IF IsHostPort(p) /\ @.at = NoPort THEN p ELSE @.at, fresh |-> TRUE]]

\* _remember_flow_meta: every sighting refreshes, one on a host port relocates.
RememberFlowMeta(pr, p) ==
  meta' = [meta EXCEPT ![pr] =
             [at |-> IF IsHostPort(p) THEN p ELSE @.at, fresh |-> TRUE]]

\* Where a frame of node n can come up: on its own port, and behind links on the other
\* switches.  RSTP breaks the ring, so it never comes back to its own switch.
SeenOn(n) == {Attached[n]} \cup {p \in LinkPorts : p[1] # Attached[n][1]}

Arp(n, p) ==
  /\ p \in SeenOn(n)
  /\ arped' = arped \cup {n}
  /\ LearnLocation(n, p)
  /\ LearnRouterPort(n, p)
  /\ UNCHANGED <<topologyVars, meta>>

\* An IP packet of pair pr in a frame of node n.
IpPacket(pr, n, p) ==
  /\ n \in Senders[pr] \cup Gateways
  /\ p \in SeenOn(n)
  /\ RememberFlowMeta(pr, p)
  /\ LearnLocation(n, p)
  /\ UNCHANGED <<topologyVars, arped, routerPorts>>

\* A TCP reset, or neither ARP nor IP: the adapter does not look at it.
OtherFrame(n, p) ==
  /\ p \in SeenOn(n)
  /\ LearnLocation(n, p)
  /\ UNCHANGED <<topologyVars, arped, routerPorts, meta>>

\* _FLOW_META_TTL has passed without a sighting.
MetaExpires(pr) ==
  /\ meta' = [meta EXCEPT ![pr].fresh = FALSE]
  /\ UNCHANGED <<topologyVars, learntVars>>

-----------------------------------------------------------------------------
(* What the orchestrator asks *)

GetHostLocation(n) == IF n \in arped THEN location[n] ELSE NoPort
GetSourceIngress(pr) == IF meta[pr].fresh THEN meta[pr].at ELSE NoPort

-----------------------------------------------------------------------------
UpdateTopology ==
  \/ HandlerReads
  \/ MonitorReads
  \/ \E c \in Callers : WritePorts(c) \/ UpdateFails(c)

PacketIn ==
  \/ \E n \in Nodes, p \in PortsInUse : Arp(n, p) \/ OtherFrame(n, p)
  \/ \E pr \in Pairs, n \in Nodes, p \in PortsInUse : IpPacket(pr, n, p)

Next ==
  \/ \E l \in Links : LinkChanges(l)
  \/ UpdateTopology
  \/ PacketIn
  \/ \E pr \in Pairs : MetaExpires(pr)

Spec == Init /\ [][Next]_vars

\* The monitor and the handlers are scheduled; the dashboard does not fail for ever.
\* A sender keeps coming up at its own switch: its rule expires (hard_timeout) while
\* it sends, and so does the router's.
Fairness ==
  /\ WF_vars(HandlerReads)
  /\ WF_vars(MonitorReads)
  /\ \A c \in Callers : SF_vars(WritePorts(c))
  /\ \A pr \in Pairs, h \in Hosts : SF_vars(IpPacket(pr, h, Attached[h]))
  /\ \A n \in Nodes : SF_vars(OtherFrame(n, Attached[n]))

FairSpec == Spec /\ Fairness

-----------------------------------------------------------------------------
\* A port a host is plugged into always counts as one, whatever discovery and the
\* router have shown so far: is_host_port never disowns a real host port, and so no
\* source is ever impossible to locate.
HostPortsAreKept == \A h \in Hosts : IsHostPort(Attached[h])

\* However the two callers of _update_topology interleave, and whatever stale links
\* one of them writes last, the ports settle on those of the links once they are stable.
InterswitchSettles ==
  \A ls \in SUBSET Links :
    <>[](discovered = ls) => <>[](interswitch = UNION ls)

Known == interswitch = LinkPorts /\ {Attached[g] : g \in Gateways} \subseteq routerPorts

\* Where a pair really enters, if anything is known of it.
EntersAt(pr) == {NoPort} \cup {Attached[h] : h \in Senders[pr]}

\* Once the network is known, nothing that is seen puts a node or a pair whose place
\* is right anywhere else: no frame behind a link, and none the router sends on.
RightPlacesStay ==
  [][Known => /\ \A n \in Nodes :
                   location[n] \in {NoPort, Attached[n]} => location'[n] \in {NoPort, Attached[n]}
              /\ \A pr \in Pairs : meta[pr].at \in EntersAt(pr) => meta'[pr].at \in EntersAt(pr)]_vars

\* Sightings made before discovery put hosts and pairs on links and on the router's
\* port.  Once the network is known they heal: a source is found where one of the
\* hosts that send it is plugged in.
IngressHeals ==
  \A pr \in Pairs :
    <>[]Known => <>[](GetSourceIngress(pr) \in EntersAt(pr))

\* And a node is located at its own port.
LocationHeals ==
  \A n \in Nodes : <>[]Known => <>[](GetHostLocation(n) \in {NoPort, Attached[n]})

=============================================================================
