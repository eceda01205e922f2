---------------------------- MODULE IngressProofs ----------------------------
(***************************************************************************)
(* Proofs about IngressTracking, for every network: the type invariant,    *)
(* that no port a host is plugged into is ever disowned, and that a right  *)
(* place is never lost once the network is known.                          *)
(***************************************************************************)
EXTENDS IngressTracking, TLAPS

\* What is_host_port rests on: only link ports count as such, and only links and the
\* gateways' own ports have been taken for the router's.
Inv ==
  /\ TypeOK
  /\ routerPorts \subseteq LinkPorts \cup {Attached[g] : g \in Gateways}

LEMMA InitInv == Init => Inv
<1> SUFFICES ASSUME Init PROVE Inv
  OBVIOUS
<1>1. snapshot \in [Callers -> [reading : BOOLEAN, links : SUBSET Links]]
  BY DEF Init, Idle
<1>2. location \in [Nodes -> PortsInUse \cup {NoPort}]
  BY DEF Init
<1>3. meta \in [Pairs -> [at : PortsInUse \cup {NoPort}, fresh : BOOLEAN]]
  BY DEF Init, Unseen
<1> QED BY <1>1, <1>2, <1>3 DEF Init, Inv, TypeOK

\* What a sighting learns, whatever the frame.
LEMMA LearntLocation ==
  ASSUME Inv, NEW n \in Nodes, NEW p \in SeenOn(n), LearnLocation(n, p)
  PROVE  location' \in [Nodes -> PortsInUse \cup {NoPort}]
BY DEF Inv, TypeOK, LearnLocation, SeenOn, PortsInUse

LEMMA LearntRouterPort ==
  ASSUME Inv, NEW n \in Nodes, NEW p \in SeenOn(n), LearnRouterPort(n, p)
  PROVE  /\ routerPorts' \subseteq PortsInUse
         /\ routerPorts' \subseteq LinkPorts \cup {Attached[g] : g \in Gateways}
BY DEF Inv, TypeOK, LearnRouterPort, SeenOn, PortsInUse, Nodes, LinkPorts

LEMMA NextInv == Inv /\ [Next]_vars => Inv'
<1> SUFFICES ASSUME Inv, [Next]_vars PROVE Inv'
  OBVIOUS
<1> USE DEF Inv, TypeOK, vars, topologyVars, learntVars
<1>1. ASSUME NEW l \in Links, LinkChanges(l) PROVE Inv'
  BY <1>1 DEF LinkChanges
<1>2. CASE HandlerReads
  BY <1>2 DEF HandlerReads, ReadLinks, Callers
<1>3. CASE MonitorReads
  BY <1>3 DEF MonitorReads, ReadLinks, Callers
<1>4. ASSUME NEW c \in Callers, WritePorts(c) PROVE Inv'
  <2>1. interswitch' \subseteq LinkPorts
    BY <1>4 DEF WritePorts, LinkPorts
  <2>2. snapshot' \in [Callers -> [reading : BOOLEAN, links : SUBSET Links]]
    BY <1>4 DEF WritePorts, Idle
  <2> QED BY <1>4, <2>1, <2>2 DEF WritePorts
<1>5. ASSUME NEW c \in Callers, UpdateFails(c) PROVE Inv'
  BY <1>5 DEF UpdateFails, Idle
<1>6. ASSUME NEW n \in Nodes, NEW p \in PortsInUse, Arp(n, p) PROVE Inv'
  <2>1. p \in SeenOn(n) /\ LearnLocation(n, p) /\ LearnRouterPort(n, p)
    BY <1>6 DEF Arp
  <2> QED BY <1>6, <2>1, LearntLocation, LearntRouterPort DEF Arp
<1>7. ASSUME NEW n \in Nodes, NEW p \in PortsInUse, OtherFrame(n, p) PROVE Inv'
  <2>1. p \in SeenOn(n) /\ LearnLocation(n, p)
    BY <1>7 DEF OtherFrame
  <2> QED BY <1>7, <2>1, LearntLocation DEF OtherFrame
<1>8. ASSUME NEW pr \in Pairs, NEW n \in Nodes, NEW p \in PortsInUse, IpPacket(pr, n, p)
      PROVE Inv'
  <2>1. p \in SeenOn(n) /\ LearnLocation(n, p)
    BY <1>8 DEF IpPacket
  <2>2. meta' \in [Pairs -> [at : PortsInUse \cup {NoPort}, fresh : BOOLEAN]]
    BY <1>8 DEF IpPacket, RememberFlowMeta
  <2> QED BY <1>8, <2>1, <2>2, LearntLocation DEF IpPacket
<1>9. ASSUME NEW pr \in Pairs, MetaExpires(pr) PROVE Inv'
  BY <1>9 DEF MetaExpires
<1>10. CASE UNCHANGED vars
  BY <1>10
<1> QED
  BY <1>1, <1>2, <1>3, <1>4, <1>5, <1>6, <1>7, <1>8, <1>9, <1>10
  DEF Next, UpdateTopology, PacketIn

LEMMA AlwaysInv == Spec => []Inv
BY InitInv, NextInv, PTL DEF Spec

\* Every variable keeps its type: among others, only the ports of links are ever
\* taken for inter-switch ports.
THEOREM IngressTypeCorrect == Spec => []TypeOK
<1>1. Inv => TypeOK
  BY DEF Inv
<1> QED BY <1>1, AlwaysInv, PTL

\* is_host_port never disowns a port a host is plugged into.
THEOREM HostPortsKept == Spec => []HostPortsAreKept
<1>1. Inv => HostPortsAreKept
  <2> SUFFICES ASSUME Inv, NEW h \in Hosts PROVE IsHostPort(Attached[h])
    BY DEF HostPortsAreKept
  <2>1. Attached[h] \notin LinkPorts
    BY NetworkAssumption DEF Nodes
  <2>2. \A g \in Gateways : Attached[h] # Attached[g]
    BY NetworkAssumption DEF Nodes
  <2> QED BY <2>1, <2>2 DEF Inv, TypeOK, IsHostPort, IsInterswitch
<1> QED BY <1>1, AlwaysInv, PTL

-----------------------------------------------------------------------------
(* Right places *)

\* Where the network is known, a frame on a port that is no link is on its sender's.
LEMMA SeenAtHome ==
  ASSUME Known, NEW n \in Nodes, NEW p \in SeenOn(n), ~IsInterswitch(p)
  PROVE  p = Attached[n]
BY DEF Known, SeenOn, IsInterswitch

LEMMA LocationStaysRight ==
  ASSUME Inv, Known, NEW n \in Nodes, NEW p \in SeenOn(n), LearnLocation(n, p),
         NEW m \in Nodes, location[m] \in {NoPort, Attached[m]}
  PROVE  location'[m] \in {NoPort, Attached[m]}
<1>1. CASE IsInterswitch(p)
  BY <1>1 DEF LearnLocation
<1>2. CASE ~IsInterswitch(p)
  <2>1. p = Attached[n]
    BY <1>2, SeenAtHome
  <2>2. location' = [location EXCEPT ![n] = Attached[n]]
    BY <1>2, <2>1 DEF LearnLocation
  <2> QED BY <2>2 DEF Inv, TypeOK
<1> QED BY <1>1, <1>2

\* A packet on a host port has not come from the router, so a host that sends the pair
\* is plugged in there.
LEMMA EntryStaysRight ==
  ASSUME Inv, Known, NEW pr \in Pairs, NEW n \in Senders[pr] \cup Gateways, n \in Nodes,
         NEW p \in SeenOn(n), RememberFlowMeta(pr, p),
         NEW q \in Pairs, meta[q].at \in EntersAt(q)
  PROVE  meta'[q].at \in EntersAt(q)
<1>1. meta' = [meta EXCEPT ![pr] = [at |-> IF IsHostPort(p) THEN p ELSE meta[pr].at,
                                    fresh |-> TRUE]]
  BY DEF RememberFlowMeta
<1>2. CASE q # pr
  BY <1>1, <1>2 DEF Inv, TypeOK
<1>3. CASE q = pr /\ ~IsHostPort(p)
  BY <1>1, <1>3 DEF Inv, TypeOK
<1>4. CASE q = pr /\ IsHostPort(p)
  <2>1. meta'[q].at = p
    BY <1>1, <1>4 DEF Inv, TypeOK
  <2>2. p = Attached[n]
    BY <1>4, SeenAtHome DEF IsHostPort
  <2>3. n \notin Gateways
    BY <1>4, <2>2 DEF IsHostPort, Known
  <2> QED BY <1>4, <2>1, <2>2, <2>3 DEF EntersAt
<1> QED BY <1>2, <1>3, <1>4

\* In every network: once links and router are known, a right place stays right
\* (learn_location in forwarding/learning_switch.py, _remember_flow_meta in
\* telemetry/openflow_adapter.py).
THEOREM RightPlacesKept == Spec => RightPlacesStay
<1> DEFINE Hosted == \A n \in Nodes :
                       location[n] \in {NoPort, Attached[n]} => location'[n] \in {NoPort, Attached[n]}
           Entered == \A pr \in Pairs :
                        meta[pr].at \in EntersAt(pr) => meta'[pr].at \in EntersAt(pr)
<1>1. ASSUME Inv, Known, [Next]_vars PROVE Hosted /\ Entered
  <2>1. CASE location' = location /\ meta' = meta
    BY <2>1
  <2>2. ASSUME NEW n \in Nodes, NEW p \in PortsInUse, Arp(n, p) \/ OtherFrame(n, p)
        PROVE  Hosted /\ Entered
    <3>1. p \in SeenOn(n) /\ LearnLocation(n, p) /\ meta' = meta
      BY <2>2 DEF Arp, OtherFrame
    <3> QED BY <1>1, <3>1, LocationStaysRight
  <2>3. ASSUME NEW pr \in Pairs, NEW n \in Nodes, NEW p \in PortsInUse, IpPacket(pr, n, p)
        PROVE  Hosted /\ Entered
    <3>1. /\ p \in SeenOn(n) /\ LearnLocation(n, p) /\ RememberFlowMeta(pr, p)
          /\ n \in Senders[pr] \cup Gateways
      BY <2>3 DEF IpPacket
    <3>2. Hosted
      BY <1>1, <3>1, LocationStaysRight
    <3>3. Entered
      BY <1>1, <3>1, EntryStaysRight
    <3> QED BY <3>2, <3>3
  <2>4. ASSUME NEW pr \in Pairs, MetaExpires(pr) PROVE Hosted /\ Entered
    <3>1. \A q \in Pairs : meta'[q].at = meta[q].at
      BY <1>1, <2>4 DEF MetaExpires, Inv, TypeOK
    <3>2. location' = location
      BY <2>4 DEF MetaExpires, learntVars
    <3> QED BY <3>1, <3>2
  <2> QED
    BY <1>1, <2>1, <2>2, <2>3, <2>4
    DEF Next, UpdateTopology, PacketIn, LinkChanges, HandlerReads, MonitorReads, ReadLinks,
        WritePorts, UpdateFails, vars, learntVars
<1>2. Inv /\ [Next]_vars => [Known => Hosted /\ Entered]_vars
  BY <1>1
<1> QED BY <1>2, AlwaysInv, PTL DEF Spec, RightPlacesStay

=============================================================================
