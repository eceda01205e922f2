-------------------------- MODULE ForwardingProofs --------------------------
(***************************************************************************)
(* Safety of Forwarding for every tree of switches, and any hosts, pairs   *)
(* and number of frames on their way.                                      *)
(*                                                                         *)
(* Both ends of a frame are at one switch, its home, and the rules there   *)
(* keep it there; so only flooded frames are on the links.  These go away  *)
(* from home (Directed).  A switch that has heard of a node has it from a  *)
(* neighbour that knows it (UpFirst), and a frame for a node runs ahead of *)
(* everything from that node: where it comes to, nobody has heard of its   *)
(* destination (Unheard).  So no rule is made away from home.              *)
(***************************************************************************)
EXTENDS Forwarding, TLAPS, SequenceTheorems

\* For each switch its neighbour towards h.
Up(h) == CHOOSE up \in [Switches -> Switches] : LeadsTo(up, h)

\* The port of switch s that is on the way to node n.
Toward(s, n) == IF s = HomeOf[n] THEN n ELSE Up(HomeOf[n])[s]

Known(s, n) == macToPort[s][n] # None
Queued(s, n) == \E i \in 1 .. Len(packetIns[s]) : packetIns[s][i].frame.src = n
OnWire(w, n) == \E i \in 1 .. Len(wires[w]) : wires[w][i].src = n

\* What switch s knows of node n, or is about to.
Heard(s, n) == Known(s, n) \/ Queued(s, n) \/ \E w \in Wires : w[2] = s /\ OnWire(w, n)

Directed ==
  /\ \A w \in Wires : \A i \in 1 .. Len(wires[w]) :
       /\ w[2] # HomeOf[wires[w][i].src]
       /\ w[1] = Toward(w[2], wires[w][i].src)
  /\ \A s \in Switches : \A i \in 1 .. Len(packetIns[s]) :
       packetIns[s][i].port = Toward(s, packetIns[s][i].frame.src)

Learnt == \A s \in Switches, n \in Nodes : macToPort[s][n] \in {None, Toward(s, n)}

UpFirst ==
  \A s \in Switches, n \in Nodes :
    s # HomeOf[n] /\ Heard(s, n) => Known(HomeOf[n], n) /\ Known(Toward(s, n), n)

\* Nothing from node n is ahead of the i-th frame of wire w, or packet-in of switch s.
FirstOnWire(w, i, n) == \A j \in 1 .. i - 1 : wires[w][j].src # n
FirstQueued(s, i, n) == \A j \in 1 .. i - 1 : packetIns[s][j].frame.src # n

UnheardOnWires ==
  \A w \in Wires : \A i \in 1 .. Len(wires[w]) :
    LET d == wires[w][i].dst IN
    d # Broadcast => ~Known(w[2], d) /\ ~Queued(w[2], d) /\ FirstOnWire(w, i, d)

UnheardQueued ==
  \A s \in Switches : \A i \in 1 .. Len(packetIns[s]) :
    LET d == packetIns[s][i].frame.dst IN
    d # Broadcast /\ s # HomeOf[d] => ~Known(s, d) /\ FirstQueued(s, i, d)

MacRulesLead == \A r \in macRules : r[1] = HomeOf[r[4]] /\ r[5] = r[4]

FInv ==
  /\ TypeOK /\ RulesLead /\ MacRulesLead
  /\ Directed /\ Learnt /\ UpFirst /\ UnheardOnWires /\ UnheardQueued

-----------------------------------------------------------------------------
(* The network *)

LEMMA UpType ==
  ASSUME NEW h \in Switches
  PROVE  Up(h) \in [Switches -> Switches] /\ LeadsTo(Up(h), h)
BY TreeAssumption DEF Up

LEMMA TowardType ==
  ASSUME NEW s \in Switches, NEW n \in Nodes
  PROVE  /\ HomeOf[n] \in Switches
         /\ Toward(s, n) \in Ports
         /\ s # HomeOf[n] => Toward(s, n) \in Switches
         /\ Toward(HomeOf[n], n) = n
<1>1. HomeOf[n] \in Switches
  BY ForwardingAssumption
<1>2. s # HomeOf[n] => Toward(s, n) \in Switches
  BY <1>1, UpType DEF Toward
<1> QED BY <1>1, <1>2 DEF Toward, Ports

\* A neighbour that is not on the way to node n is farther away from it.
LEMMA FartherAway ==
  ASSUME NEW w \in Wires, NEW n \in Nodes, w[2] # Toward(w[1], n)
  PROVE  w[2] # HomeOf[n] /\ Toward(w[2], n) = w[1]
<1>1. w[1] \in Switches /\ w[2] \in Switches /\ {w[1], w[2]} \in Links
  BY DEF Wires
<1>2. HomeOf[n] \in Switches
  BY ForwardingAssumption
<1>3. LeadsTo(Up(HomeOf[n]), HomeOf[n])
  BY <1>2, UpType
<1> QED BY <1>1, <1>3 DEF LeadsTo, Toward

LEMMA GatewayType ==
  ASSUME NEW s \in Switches
  PROVE  GatewayAt(s) \in Routers /\ GatewayAt(s) \in Nodes /\ HomeOf[GatewayAt(s)] = s
<1>1. PICK r \in Routers : NodesAt(s) \cap Routers = {r}
  BY ForwardingAssumption
<1>2. r \in Routers /\ HomeOf[r] = s
  BY <1>1 DEF NodesAt
<1> QED BY <1>2 DEF GatewayAt, Nodes

\* Both ends of a frame are at one switch; a packet's frame is one of the two.
LEMMA FrameFacts ==
  ASSUME NEW n \in Nodes, NEW f \in FramesOf(n)
  PROVE  /\ f \in Frames /\ f.src = n
         /\ f.dst # Broadcast => f.dst \in Nodes /\ HomeOf[f.dst] = HomeOf[n] /\ f.dst # n
         /\ f.pair # None => /\ f.pair \in IpPairs
                             /\ f \in {ToRouter(f.pair), FromRouter(f.pair)}
<1>1. f \in Frames
  BY DEF Frames
<1>2. CASE \E to \in {Broadcast} \cup {a[2] : a \in {b \in Answers : b[1] = n}} : f = Arp(n, to)
  BY <1>1, <1>2, ForwardingAssumption DEF Arp
<1>3. ASSUME NEW pr \in IpPairs, f = ToRouter(pr), f.src = n
      PROVE  /\ f.dst \in Nodes /\ HomeOf[f.dst] = HomeOf[n] /\ f.dst # n
             /\ f.pair = pr
  <2>1. n = pr[1] /\ n \in Hosts /\ HomeOf[n] \in Switches
    BY <1>3, ForwardingAssumption DEF ToRouter
  <2> QED BY <1>3, <2>1, GatewayType, ForwardingAssumption DEF ToRouter
<1>4. ASSUME NEW pr \in IpPairs, f = FromRouter(pr), f.src = n
      PROVE  /\ f.dst \in Nodes /\ HomeOf[f.dst] = HomeOf[n] /\ f.dst # n
             /\ f.pair = pr
  <2>1. f.dst = pr[2] /\ pr[2] \in Hosts /\ pr[2] \in Nodes /\ HomeOf[pr[2]] \in Switches
    BY <1>4, ForwardingAssumption DEF FromRouter, Nodes
  <2> QED BY <1>4, <2>1, GatewayType, ForwardingAssumption DEF FromRouter
<1> QED BY <1>1, <1>2, <1>3, <1>4 DEF FramesOf

LEMMA AnyFrame ==
  ASSUME NEW f \in Frames
  PROVE  /\ f.src \in Nodes
         /\ f.dst # Broadcast =>
              f.dst \in Nodes /\ HomeOf[f.dst] = HomeOf[f.src] /\ f.dst # f.src
         /\ f.pair # None => /\ f.pair \in IpPairs
                             /\ f \in {ToRouter(f.pair), FromRouter(f.pair)}
<1>1. PICK n \in Nodes : f \in FramesOf(n)
  BY DEF Frames
<1> QED BY <1>1, FrameFacts

-----------------------------------------------------------------------------
(* Queues *)

LEMMA TailProperties ==
  ASSUME NEW S, NEW q \in Seq(S), q # <<>>
  PROVE  /\ Tail(q) \in Seq(S) /\ Head(q) = q[1] /\ 1 \in 1 .. Len(q)
         /\ Len(q) \in Nat /\ Len(Tail(q)) = Len(q) - 1
         /\ \A i \in 1 .. Len(Tail(q)) : i + 1 \in 1 .. Len(q) /\ Tail(q)[i] = q[i + 1]
<1>1. Len(q) \in Nat \ {0}
  BY EmptySeq, LenProperties
<1> QED BY <1>1, HeadTailProperties

LEMMA AppendToQueue ==
  ASSUME NEW S, NEW q \in Seq(S), NEW e \in S, NEW new, new = Append(q, e)
  PROVE  /\ new \in Seq(S) /\ Len(q) \in Nat /\ Len(new) = Len(q) + 1
         /\ \A i \in 1 .. Len(new) : new[i] = IF i = Len(q) + 1 THEN e ELSE q[i]
<1>1. Len(q) \in Nat
  BY LenProperties
<1> QED BY <1>1, AppendProperties

\* What queues hold.
LEMMA QueueTypes ==
  ASSUME TypeOK
  PROVE  /\ \A w \in Wires : /\ w[1] \in Switches /\ w[2] \in Switches
                             /\ wires[w] \in Seq(Frames) /\ Len(wires[w]) \in Nat
                             /\ \A i \in 1 .. Len(wires[w]) : wires[w][i] \in Frames
         /\ \A s \in Switches :
              /\ packetIns[s] \in Seq([frame : Frames, port : Ports])
              /\ Len(packetIns[s]) \in Nat
              /\ \A i \in 1 .. Len(packetIns[s]) :
                   /\ packetIns[s][i] \in [frame : Frames, port : Ports]
                   /\ packetIns[s][i].frame \in Frames
<1>1. ASSUME NEW w \in Wires
      PROVE  /\ w[1] \in Switches /\ w[2] \in Switches
             /\ wires[w] \in Seq(Frames) /\ Len(wires[w]) \in Nat
             /\ \A i \in 1 .. Len(wires[w]) : wires[w][i] \in Frames
  BY ElementOfSeq, LenProperties DEF TypeOK, Wires
<1>2. ASSUME NEW s \in Switches
      PROVE  /\ packetIns[s] \in Seq([frame : Frames, port : Ports])
             /\ Len(packetIns[s]) \in Nat
  BY LenProperties DEF TypeOK
<1>3. ASSUME NEW s \in Switches, NEW i \in 1 .. Len(packetIns[s])
      PROVE  packetIns[s][i] \in [frame : Frames, port : Ports]
  BY <1>2, ElementOfSeq
<1> QED BY <1>1, <1>2, <1>3

-----------------------------------------------------------------------------
(* Rules only lead to nodes: a frame that a rule forwards is on no link after it *)

LEMMA RulesLeadHome ==
  ASSUME TypeOK, RulesLead, MacRulesLead, NEW s, NEW frame, NEW port
  PROVE  RuledPorts(s, frame, port) \subseteq Nodes
<1>1. ASSUME NEW r \in ipRules PROVE r[3] \in Nodes
  <2>1. r[1] \in Switches /\ r[2] \in IpPairs
    BY DEF TypeOK
  <2>2. r[2][2] \in Hosts
    BY <2>1, ForwardingAssumption
  <2> QED BY <2>1, <2>2, GatewayType DEF RulesLead, Nodes
<1>2. ASSUME NEW r \in macRules PROVE r[5] \in Nodes
  BY DEF TypeOK, MacRulesLead
<1> QED BY <1>1, <1>2 DEF RuledPorts

LEMMA SentToNodes ==
  ASSUME NEW queues \in [Wires -> Seq(Frames)],
         NEW s, NEW frame, NEW to \in SUBSET Nodes
  PROVE  Sent(queues, s, frame, to) = queues
<1>1. \A w \in Wires : w[2] \notin to
  BY ForwardingAssumption DEF Wires
<1> QED BY <1>1 DEF Sent

\* So a frame that arrives is gone, or has become a packet-in.
LEMMA ArriveMoves ==
  ASSUME TypeOK, RulesLead, MacRulesLead,
         NEW s \in Switches, NEW frame, NEW port, NEW queues \in [Wires -> Seq(Frames)],
         Arrive(s, frame, port, queues)
  PROVE  /\ wires' = queues
         /\ packetIns' \in {packetIns,
              [packetIns EXCEPT ![s] = Append(@, [frame |-> frame, port |-> port])]}
<1> DEFINE out == RuledPorts(s, frame, port)
<1>1. out \ {port} \in SUBSET Nodes
  BY RulesLeadHome
<1>2. Sent(queues, s, frame, out \ {port}) = queues
  BY <1>1, SentToNodes
<1> QED BY <1>2 DEF Arrive

-----------------------------------------------------------------------------
(* Frames that move *)

\* A queue is as it was, or has lost its head.
Behind(new, old) ==
  \E k \in {0, 1} :
    Len(new) = Len(old) - k /\ \A i \in 1 .. Len(new) : i + k \in 1 .. Len(old) /\ new[i] = old[i + k]

\* What is on such a wire was on it before, with no more ahead of it.
LEMMA WireBehind ==
  ASSUME NEW w, Len(wires[w]) \in Nat, Len(wires'[w]) \in Nat, Behind(wires'[w], wires[w]),
         NEW i \in 1 .. Len(wires'[w])
  PROVE  \E j \in 1 .. Len(wires[w]) :
           /\ wires'[w][i] = wires[w][j]
           /\ \A d : FirstOnWire(w, j, d) => FirstOnWire(w, i, d)'
<1>1. PICK k \in {0, 1} :
        /\ Len(wires'[w]) = Len(wires[w]) - k
        /\ \A m \in 1 .. Len(wires'[w]) :
             m + k \in 1 .. Len(wires[w]) /\ wires'[w][m] = wires[w][m + k]
  BY DEF Behind
<1>2. \A m \in 1 .. i - 1 : m \in 1 .. Len(wires'[w]) /\ m + k \in 1 .. (i + k) - 1
  BY <1>1
<1>3. ASSUME NEW d, FirstOnWire(w, i + k, d)
      PROVE  FirstOnWire(w, i, d)'
  BY <1>1, <1>2, <1>3 DEF FirstOnWire
<1> QED BY <1>1, <1>3

\* A frame becomes a packet-in of switch s.
LEMMA ArrivalStep ==
  ASSUME FInv, UNCHANGED <<macToPort, ipRules, macRules>>,
         wires' \in [Wires -> Seq(Frames)],
         \A w \in Wires : Behind(wires'[w], wires[w]),
         NEW s \in Switches, NEW f \in Frames,
         packetIns' = [packetIns EXCEPT ![s] = Append(@, [frame |-> f, port |-> Toward(s, f.src)])],
         s # HomeOf[f.src] => Known(HomeOf[f.src], f.src) /\ Known(Toward(s, f.src), f.src),
         \A w \in Wires : \A i \in 1 .. Len(wires'[w]) :
           wires'[w][i].dst = f.src => w[2] # s,
         f.dst # Broadcast /\ s # HomeOf[f.dst] => ~Known(s, f.dst) /\ ~Queued(s, f.dst)
  PROVE  FInv'
<1> USE DEF FInv
<1> DEFINE e == [frame |-> f, port |-> Toward(s, f.src)]
<1>1. e \in [frame : Frames, port : Ports] /\ f.src \in Nodes
  BY AnyFrame, TowardType
<1>2. /\ packetIns'[s] \in Seq([frame : Frames, port : Ports])
      /\ Len(packetIns[s]) \in Nat /\ Len(packetIns'[s]) = Len(packetIns[s]) + 1
      /\ \A i \in 1 .. Len(packetIns'[s]) :
           packetIns'[s][i] = IF i = Len(packetIns[s]) + 1 THEN e ELSE packetIns[s][i]
  <2>1. packetIns'[s] = Append(packetIns[s], e)
    BY DEF TypeOK
  <2>2. packetIns[s] \in Seq([frame : Frames, port : Ports])
    BY DEF TypeOK
  <2> DEFINE S == [frame : Frames, port : Ports]
             old == packetIns[s]
             new == packetIns'[s]
  <2>3. old \in Seq(S) /\ e \in S /\ new = Append(old, e)
    BY <1>1, <2>1, <2>2
  <2> HIDE DEF S, old, new, e
  <2>4. /\ new \in Seq(S) /\ Len(old) \in Nat /\ Len(new) = Len(old) + 1
        /\ \A i \in 1 .. Len(new) : new[i] = IF i = Len(old) + 1 THEN e ELSE old[i]
    BY <2>3, AppendToQueue
  <2> QED BY <2>4 DEF S, old, new
<1>3. \A t \in Switches \ {s} : packetIns'[t] = packetIns[t]
  BY DEF TypeOK
<1>4. TypeOK'
  BY <1>2 DEF TypeOK
<1>5. \A t \in Switches, n \in Nodes :
        Queued(t, n)' => Queued(t, n) \/ (t = s /\ n = f.src)
  <2> SUFFICES ASSUME NEW t \in Switches, NEW n \in Nodes, Queued(t, n)'
               PROVE  Queued(t, n) \/ (t = s /\ n = f.src)
    OBVIOUS
  <2>1. PICK i \in 1 .. Len(packetIns'[t]) : packetIns'[t][i].frame.src = n
    BY DEF Queued
  <2>2. CASE t = s
    BY <1>2, <2>1, <2>2 DEF Queued
  <2>3. CASE t # s
    BY <1>3, <2>1, <2>3 DEF Queued
  <2> QED BY <2>2, <2>3
<1>6. ASSUME NEW w \in Wires, NEW i \in 1 .. Len(wires'[w])
      PROVE  \E j \in 1 .. Len(wires[w]) :
               /\ wires'[w][i] = wires[w][j]
               /\ \A d : FirstOnWire(w, j, d) => FirstOnWire(w, i, d)'
  <2>1. Len(wires[w]) \in Nat /\ Len(wires'[w]) \in Nat
    BY <1>4, QueueTypes DEF TypeOK
  <2> QED BY <2>1, WireBehind
<1>7. \A w \in Wires, n \in Nodes : OnWire(w, n)' => OnWire(w, n)
  BY <1>6 DEF OnWire
<1>8. Directed'
  <2>1. ASSUME NEW w \in Wires, NEW i \in 1 .. Len(wires'[w])
        PROVE  /\ w[2] # HomeOf[wires'[w][i].src]
               /\ w[1] = Toward(w[2], wires'[w][i].src)
    BY <1>6 DEF Directed
  <2>2. ASSUME NEW t \in Switches, NEW i \in 1 .. Len(packetIns'[t])
        PROVE  packetIns'[t][i].port = Toward(t, packetIns'[t][i].frame.src)
    <3>1. CASE t = s
      BY <1>2, <2>2, <3>1 DEF Directed
    <3>2. CASE t # s
      BY <1>3, <2>2, <3>2 DEF Directed
    <3> QED BY <3>1, <3>2
  <2> QED BY <2>1, <2>2 DEF Directed, Toward
<1>9. UpFirst'
  <2> SUFFICES ASSUME NEW t \in Switches, NEW n \in Nodes, t # HomeOf[n], Heard(t, n)'
               PROVE  Known(HomeOf[n], n)' /\ Known(Toward(t, n), n)'
    BY DEF UpFirst, Toward, Known
  <2>1. Heard(t, n) \/ (t = s /\ n = f.src)
    BY <1>5, <1>7 DEF Heard, Known
  <2>2. Known(HomeOf[n], n) /\ Known(Toward(t, n), n)
    BY <2>1 DEF UpFirst
  <2> QED BY <2>2 DEF Known, Toward
<1>10. UnheardOnWires'
  <2> SUFFICES ASSUME NEW w \in Wires, NEW i \in 1 .. Len(wires'[w]),
                      NEW d, d = wires'[w][i].dst, d # Broadcast
               PROVE  ~Known(w[2], d)' /\ ~Queued(w[2], d)' /\ FirstOnWire(w, i, d)'
    BY DEF UnheardOnWires, Known, Queued, FirstOnWire
  <2>1. PICK j \in 1 .. Len(wires[w]) :
          wires'[w][i] = wires[w][j] /\ (FirstOnWire(w, j, d) => FirstOnWire(w, i, d)')
    BY <1>6
  <2>2. ~Known(w[2], d) /\ ~Queued(w[2], d) /\ FirstOnWire(w, j, d)
    BY <2>1 DEF UnheardOnWires
  <2>3. w[2] \in Switches /\ d \in Nodes
    BY <2>1, QueueTypes, AnyFrame
  <2> QED BY <1>5, <2>1, <2>2, <2>3 DEF Known
<1>11. UnheardQueued'
  <2> SUFFICES ASSUME NEW t \in Switches, NEW i \in 1 .. Len(packetIns'[t]),
                      NEW d, d = packetIns'[t][i].frame.dst, d # Broadcast, t # HomeOf[d]
               PROVE  ~Known(t, d)' /\ FirstQueued(t, i, d)'
    BY DEF UnheardQueued, Known, FirstQueued
  <2>1. CASE t # s
    <3>1. packetIns'[t] = packetIns[t]
      BY <1>3, <2>1
    <3> QED BY <3>1 DEF UnheardQueued, Known, FirstQueued
  <2>2. CASE t = s /\ i # Len(packetIns[s]) + 1
    <3>1. i \in 1 .. Len(packetIns[s]) /\ packetIns'[s][i] = packetIns[s][i]
      BY <1>2, <2>2
    <3>2. \A j \in 1 .. i - 1 : packetIns'[s][j] = packetIns[s][j]
      BY <1>2, <3>1
    <3> QED BY <2>2, <3>1, <3>2 DEF UnheardQueued, Known, FirstQueued
  <2>3. CASE t = s /\ i = Len(packetIns[s]) + 1
    <3>1. d = f.dst /\ ~Known(s, d) /\ ~Queued(s, d)
      BY <1>2, <2>3
    <3>2. \A j \in 1 .. i - 1 : j \in 1 .. Len(packetIns[s]) /\ packetIns'[s][j] = packetIns[s][j]
      BY <1>2, <2>3
    <3> QED BY <2>3, <3>1, <3>2 DEF Queued, Known, FirstQueued
  <2> QED BY <2>1, <2>2, <2>3
<1> QED BY <1>4, <1>8, <1>9, <1>10, <1>11 DEF RulesLead, MacRulesLead, Learnt, Toward

\* A frame is gone from its wire: a rule has led it to a node.
LEMMA DeliveryStep ==
  ASSUME FInv, UNCHANGED <<macToPort, ipRules, macRules, packetIns>>,
         wires' \in [Wires -> Seq(Frames)],
         \A w \in Wires : Behind(wires'[w], wires[w])
  PROVE  FInv'
<1> USE DEF FInv
<1>1. TypeOK'
  BY DEF TypeOK
<1>2. ASSUME NEW w \in Wires, NEW i \in 1 .. Len(wires'[w])
      PROVE  \E j \in 1 .. Len(wires[w]) :
               /\ wires'[w][i] = wires[w][j]
               /\ \A d : FirstOnWire(w, j, d) => FirstOnWire(w, i, d)'
  <2>1. Len(wires[w]) \in Nat /\ Len(wires'[w]) \in Nat
    BY <1>1, QueueTypes DEF TypeOK
  <2> QED BY <2>1, WireBehind
<1>3. \A w \in Wires, n \in Nodes : OnWire(w, n)' => OnWire(w, n)
  BY <1>2 DEF OnWire
<1>4. Directed'
  <2>1. ASSUME NEW w \in Wires, NEW i \in 1 .. Len(wires'[w])
        PROVE  /\ w[2] # HomeOf[wires'[w][i].src]
               /\ w[1] = Toward(w[2], wires'[w][i].src)
    BY <1>2 DEF Directed
  <2> QED BY <2>1 DEF Directed, Toward
<1>5. UpFirst'
  BY <1>3 DEF UpFirst, Heard, Known, Queued, Toward
<1>6. UnheardOnWires'
  <2> SUFFICES ASSUME NEW w \in Wires, NEW i \in 1 .. Len(wires'[w]),
                      NEW d, d = wires'[w][i].dst, d # Broadcast
               PROVE  ~Known(w[2], d) /\ ~Queued(w[2], d) /\ FirstOnWire(w, i, d)'
    BY DEF UnheardOnWires, Known, Queued, FirstOnWire
  <2> QED BY <1>2 DEF UnheardOnWires
<1>7. UnheardQueued'
  BY DEF UnheardQueued, Known, FirstQueued
<1> QED BY <1>1, <1>4, <1>5, <1>6, <1>7 DEF RulesLead, MacRulesLead, Learnt, Toward

LEMMA SendStep ==
  ASSUME FInv, NEW n \in Nodes, NEW frame \in FramesOf(n), Send(n, frame)
  PROVE  FInv'
<1> USE DEF FInv
<1> DEFINE h == HomeOf[n]
<1>1. h \in Switches /\ Toward(h, n) = n
  BY ForwardingAssumption DEF Toward
<1>2. frame \in Frames /\ frame.src = n
  BY FrameFacts
<1>3. frame.dst # Broadcast => HomeOf[frame.dst] = h
  BY FrameFacts
<1>4. UNCHANGED <<macToPort, ipRules, macRules>> /\ Arrive(h, frame, n, wires)
  BY DEF Send
<1> HIDE DEF h
<1>5. /\ wires' = wires
      /\ packetIns' \in {packetIns,
           [packetIns EXCEPT ![h] = Append(@, [frame |-> frame, port |-> n])]}
  BY <1>1, <1>4, ArriveMoves DEF TypeOK
<1>6. wires' \in [Wires -> Seq(Frames)] /\ \A w \in Wires : Behind(wires'[w], wires[w])
  BY <1>5, QueueTypes DEF Behind, TypeOK
<1>7. CASE packetIns' = packetIns
  BY <1>4, <1>6, <1>7, DeliveryStep
<1>8. CASE packetIns' = [packetIns EXCEPT ![h] =
                           Append(@, [frame |-> frame, port |-> n])]
  <2>1. ASSUME NEW w \in Wires, NEW i \in 1 .. Len(wires'[w]), wires'[w][i].dst = frame.src
        PROVE  w[2] # h
    <3>1. wires[w][i] \in Frames /\ w[2] # HomeOf[wires[w][i].src]
      BY <1>5, QueueTypes DEF Directed
    <3> QED BY <1>2, <1>5, <2>1, <3>1, AnyFrame, ForwardingAssumption DEF h
  <2>2. packetIns' = [packetIns EXCEPT ![h] =
                        Append(@, [frame |-> frame, port |-> Toward(h, frame.src)])]
    BY <1>1, <1>2, <1>8
  <2>3. h = HomeOf[frame.src] /\ (frame.dst # Broadcast => h = HomeOf[frame.dst])
    BY <1>2, <1>3 DEF h
  <2> QED BY <1>1, <1>2, <1>4, <1>6, <2>1, <2>2, <2>3, ArrivalStep
<1> QED BY <1>5, <1>7, <1>8

LEMMA CrossStep ==
  ASSUME FInv, NEW w \in Wires, Cross(w)
  PROVE  FInv'
<1> USE DEF FInv
<1> DEFINE f == Head(wires[w])
           rest == [wires EXCEPT ![w] = Tail(@)]
           s == w[2]
<1>1. wires[w] \in Seq(Frames) /\ wires[w] # <<>> /\ s \in Switches
  BY QueueTypes DEF Cross
<1>2. /\ f = wires[w][1] /\ 1 \in 1 .. Len(wires[w]) /\ f \in Frames
      /\ Tail(wires[w]) \in Seq(Frames)
      /\ Behind(Tail(wires[w]), wires[w])
  BY <1>1, TailProperties, QueueTypes DEF Behind
<1>3. rest \in [Wires -> Seq(Frames)]
  BY <1>2 DEF TypeOK
<1>4. /\ wires' = rest /\ UNCHANGED <<macToPort, ipRules, macRules>>
      /\ packetIns' \in {packetIns,
           [packetIns EXCEPT ![s] = Append(@, [frame |-> f, port |-> w[1]])]}
  <2> HIDE DEF f, rest, s
  <2>1. Arrive(s, f, w[1], rest) /\ UNCHANGED <<macToPort, ipRules, macRules>>
    BY DEF Cross, f, rest, s
  <2> QED BY <1>1, <1>3, <2>1, ArriveMoves
<1>5. \A x \in Wires : Behind(wires'[x], wires[x])
  <2>1. ASSUME NEW x \in Wires, x # w PROVE Behind(wires'[x], wires[x])
    <3>1. wires'[x] = wires[x]
      BY <1>4, <2>1 DEF TypeOK
    <3> QED BY <3>1, QueueTypes DEF Behind
  <2>2. wires'[w] = Tail(wires[w])
    BY <1>4 DEF TypeOK
  <2> QED BY <1>2, <2>1, <2>2
<1>6. CASE packetIns' = packetIns
  BY <1>3, <1>4, <1>5, <1>6, DeliveryStep
<1>7. CASE packetIns' = [packetIns EXCEPT ![s] = Append(@, [frame |-> f, port |-> w[1]])]
  <2>1. f.src \in Nodes /\ s # HomeOf[f.src] /\ w[1] = Toward(s, f.src)
    BY <1>2, AnyFrame DEF Directed
  <2>2. Known(HomeOf[f.src], f.src) /\ Known(Toward(s, f.src), f.src)
    BY <1>1, <1>2, <2>1 DEF UpFirst, Heard, OnWire
  <2>3. f.dst # Broadcast => ~Known(s, f.dst) /\ ~Queued(s, f.dst)
    BY <1>2 DEF UnheardOnWires
  \* Frames for a node of one home come from the same side: behind f, on this wire.
  <2>4. ASSUME NEW x \in Wires, NEW i \in 1 .. Len(wires'[x]), wires'[x][i].dst = f.src
        PROVE  x[2] # s
    <3> SUFFICES ASSUME x[2] = s PROVE FALSE
      OBVIOUS
    <3>1. \E j \in 1 .. Len(wires[x]) :
            wires'[x][i] = wires[x][j] /\ (x = w => j > 1)
      <4>1. CASE x = w
        BY <1>1, <1>2, <1>4, <4>1, TailProperties DEF TypeOK
      <4>2. CASE x # w
        BY <1>4, <4>2 DEF TypeOK
      <4> QED BY <4>1, <4>2
    <3>2. PICK j \in 1 .. Len(wires[x]) :
            wires'[x][i] = wires[x][j] /\ (x = w => j > 1)
      BY <3>1
    <3> DEFINE g == wires[x][j]
    <3>3. g \in Frames /\ x[1] = Toward(s, g.src) /\ g.dst = f.src
      BY <2>4, <3>2, QueueTypes DEF Directed
    <3>4. HomeOf[g.src] = HomeOf[f.src] /\ g.dst # Broadcast
      BY <2>1, <3>3, AnyFrame, ForwardingAssumption
    <3>5. x[1] = w[1]
      BY <2>1, <3>3, <3>4 DEF Toward, Directed
    <3>6. x = w
      BY <3>5 DEF Wires
    <3>7. FirstOnWire(w, j, f.src) /\ j > 1
      BY <3>2, <3>3, <3>4, <3>6 DEF UnheardOnWires
    <3>8. 1 \in 1 .. j - 1
      BY <3>2, <3>7
    <3> QED BY <1>2, <3>7, <3>8 DEF FirstOnWire
  <2> HIDE DEF f, rest, s
  <2>5. packetIns' = [packetIns EXCEPT ![s] =
                        Append(@, [frame |-> f, port |-> Toward(s, f.src)])]
    BY <1>7, <2>1
  <2> QED BY <1>1, <1>2, <1>3, <1>4, <1>5, <2>2, <2>3, <2>4, <2>5, ArrivalStep
<1> QED BY <1>4, <1>6, <1>7

-----------------------------------------------------------------------------
(* packet_in_handler *)

\* A frame whose destination the switch knows is at home, and goes to it.
LEMMA OnlyHomeKnows ==
  ASSUME FInv, NEW s \in Switches, packetIns[s] # <<>>,
         NEW f \in Frames, f = Head(packetIns[s]).frame,
         Learn(s, f.src, Toward(s, f.src)), OutPort(s, f) # None
  PROVE  f.dst \in Nodes /\ s = HomeOf[f.dst] /\ OutPort(s, f) = f.dst
<1> USE DEF FInv
<1>1. f.dst # Broadcast /\ macToPort'[s][f.dst] # None /\ OutPort(s, f) = macToPort'[s][f.dst]
  BY DEF OutPort
<1>2. f.src \in Nodes /\ f.dst \in Nodes /\ f.dst # f.src
  BY <1>1, AnyFrame
<1>3. macToPort'[s][f.dst] = macToPort[s][f.dst]
  BY <1>2 DEF Learn, TypeOK
<1>4. f = packetIns[s][1].frame /\ 1 \in 1 .. Len(packetIns[s])
  BY QueueTypes, TailProperties
<1>5. s = HomeOf[f.dst]
  BY <1>1, <1>3, <1>4 DEF UnheardQueued, Known
<1>6. macToPort[s][f.dst] = Toward(s, f.dst)
  BY <1>1, <1>2, <1>3 DEF Learnt
<1> QED BY <1>1, <1>2, <1>3, <1>5, <1>6 DEF Toward

\* The rules are as they were, or s is where f goes to and there is one more.
RuleMadeAtHome(s, f) ==
  \/ UNCHANGED <<ipRules, macRules>>
  \/ /\ s = HomeOf[f.dst] /\ f.dst \in Nodes
     /\ \/ /\ f.pair # None /\ UNCHANGED macRules
           /\ ipRules' = {r \in ipRules : r[1] # s \/ r[2] # f.pair} \cup {<<s, f.pair, f.dst>>}
        \/ /\ UNCHANGED ipRules
           /\ \E port \in Ports :
                macRules' = {r \in macRules :
                               ~(r[1] = s /\ r[2] = port /\ r[3] = f.src /\ r[4] = f.dst)}
                              \cup {<<s, port, f.src, f.dst, f.dst>>}

\* What a packet-in does: the switch learns where the sender is, rules are made only at
\* home, and the frame is flooded, away from home, where its destination is not known.
LEMMA PacketInMoves ==
  ASSUME FInv, NEW s \in Switches, NEW blocked \in BOOLEAN, PacketIn(s, blocked),
         NEW f, f = Head(packetIns[s]).frame
  PROVE  /\ packetIns[s] # <<>> /\ packetIns' = [packetIns EXCEPT ![s] = Tail(@)]
         /\ f \in Frames /\ f = packetIns[s][1].frame /\ 1 \in 1 .. Len(packetIns[s])
         /\ Learn(s, f.src, Toward(s, f.src))
         /\ RuleMadeAtHome(s, f)
         /\ \/ wires' = wires
            \/ /\ f.dst # Broadcast => ~Known(s, f.dst)
               /\ wires' = Sent(wires, s, f, PortsOf(s) \ {Toward(s, f.src)})
<1> USE DEF FInv
<1> DEFINE port == Head(packetIns[s]).port
<1>1. packetIns[s] # <<>> /\ packetIns' = [packetIns EXCEPT ![s] = Tail(@)]
  BY DEF PacketIn
<1>2. /\ Head(packetIns[s]) = packetIns[s][1] /\ 1 \in 1 .. Len(packetIns[s])
      /\ packetIns[s][1] \in [frame : Frames, port : Ports]
  BY <1>1, QueueTypes, TailProperties
<1>3. f \in Frames /\ port \in Ports /\ port = Toward(s, f.src)
  BY <1>2 DEF Directed
<1>4. Learn(s, f.src, port)
  BY DEF PacketIn
<1>5. \/ UNCHANGED <<ipRules, macRules, wires>>
      \/ AddRule(s, f, port) /\ Forward(s, f, port)
  BY DEF PacketIn
<1> HIDE DEF port
<1>6. CASE AddRule(s, f, port) /\ Forward(s, f, port) /\ OutPort(s, f) = None
  <2>1. UNCHANGED <<ipRules, macRules>> /\ wires' = Sent(wires, s, f, PortsOf(s) \ {port})
    BY <1>6 DEF AddRule, Forward
  <2>2. ASSUME f.dst # Broadcast PROVE ~Known(s, f.dst)
    <3>1. f.src \in Nodes /\ f.dst \in Nodes /\ f.dst # f.src
      BY <1>3, <2>2, AnyFrame
    <3>2. macToPort'[s][f.dst] = None
      BY <1>6, <2>2 DEF OutPort
    <3> QED BY <1>4, <3>1, <3>2 DEF Learn, TypeOK, Known
  <2> QED BY <1>1, <1>2, <1>3, <1>4, <2>1, <2>2 DEF RuleMadeAtHome
<1>7. CASE AddRule(s, f, port) /\ Forward(s, f, port) /\ OutPort(s, f) # None
  <2>1. f.dst \in Nodes /\ s = HomeOf[f.dst] /\ OutPort(s, f) = f.dst
    BY <1>1, <1>3, <1>4, <1>7, OnlyHomeKnows
  <2>2. wires' = wires
    <3>1. wires' = Sent(wires, s, f, {f.dst} \ {port})
      BY <1>7, <2>1 DEF Forward
    <3>2. {f.dst} \ {port} \in SUBSET Nodes /\ wires \in [Wires -> Seq(Frames)]
      BY <2>1 DEF TypeOK
    <3> QED BY <3>1, <3>2, SentToNodes
  <2>3. RuleMadeAtHome(s, f)
    BY <1>3, <1>7, <2>1 DEF AddRule, RuleMadeAtHome
  <2> QED BY <1>1, <1>2, <1>3, <1>4, <2>1, <2>2, <2>3
<1> QED BY <1>1, <1>2, <1>3, <1>4, <1>5, <1>6, <1>7 DEF RuleMadeAtHome

RulesTypeOK ==
  /\ ipRules \subseteq Switches \X IpPairs \X Ports
  /\ macRules \subseteq Switches \X Ports \X Nodes \X Nodes \X Ports
  /\ \A r, q \in ipRules : r[1] = q[1] /\ r[2] = q[2] => r = q
  /\ \A r, q \in macRules : (\A i \in 1 .. 4 : r[i] = q[i]) => r = q

\* A rule made at home leads to the destination of the frame, which for the two frames
\* of a packet is where its pair has to go.
LEMMA RulesStep ==
  ASSUME FInv, NEW s \in Switches, NEW f \in Frames, RuleMadeAtHome(s, f)
  PROVE  RulesTypeOK' /\ RulesLead' /\ MacRulesLead'
<1> USE DEF FInv
<1>1. RulesTypeOK
  BY DEF TypeOK, RulesTypeOK
<1>2. CASE UNCHANGED <<ipRules, macRules>>
  BY <1>1, <1>2 DEF RulesTypeOK, RulesLead, MacRulesLead
<1>3. CASE /\ s = HomeOf[f.dst] /\ f.dst \in Nodes /\ f.pair # None /\ UNCHANGED macRules
           /\ ipRules' = {r \in ipRules : r[1] # s \/ r[2] # f.pair}
                           \cup {<<s, f.pair, f.dst>>}
  <2>1. f.pair \in IpPairs /\ f \in {ToRouter(f.pair), FromRouter(f.pair)} /\ f.dst \in Ports
    BY <1>3, AnyFrame DEF Ports
  <2> DEFINE new == <<s, f.pair, f.dst>>
  <2>2. RulesTypeOK'
    <3>1. \A r, q \in ipRules' : r[1] = q[1] /\ r[2] = q[2] => r = q
      BY <1>1, <1>3 DEF RulesTypeOK
    <3>2. ipRules' \subseteq Switches \X IpPairs \X Ports
      BY <1>1, <1>3, <2>1 DEF RulesTypeOK
    <3> QED BY <1>1, <1>3, <3>1, <3>2 DEF RulesTypeOK
  <2>3. \/ s = HomeOf[f.pair[1]] /\ f.dst = GatewayAt(s)
        \/ s = HomeOf[f.pair[2]] /\ f.dst = f.pair[2]
    <3>1. CASE f = ToRouter(f.pair)
      <4>1. f.dst = GatewayAt(HomeOf[f.pair[1]]) /\ f.pair[1] \in Hosts
        BY <2>1, <3>1, ForwardingAssumption DEF ToRouter
      <4>2. HomeOf[f.pair[1]] \in Switches
        BY <4>1, ForwardingAssumption DEF Nodes
      <4> QED BY <1>3, <4>1, <4>2, GatewayType
    <3>2. CASE f = FromRouter(f.pair)
      <4>1. f.dst = f.pair[2]
        BY <3>2 DEF FromRouter
      <4> QED BY <1>3, <4>1
    <3> QED BY <2>1, <3>1, <3>2
  <2>4. RulesLead'
    <3> SUFFICES ASSUME NEW r \in ipRules'
                 PROVE  \/ r[1] = HomeOf[r[2][1]] /\ r[3] = GatewayAt(r[1])
                        \/ r[1] = HomeOf[r[2][2]] /\ r[3] = r[2][2]
      BY DEF RulesLead
    <3> QED BY <1>3, <2>3 DEF RulesLead
  <2> QED BY <1>3, <2>2, <2>4 DEF MacRulesLead
<1>4. ASSUME NEW port \in Ports, s = HomeOf[f.dst], f.dst \in Nodes, UNCHANGED ipRules,
             macRules' = {r \in macRules :
                            ~(r[1] = s /\ r[2] = port /\ r[3] = f.src /\ r[4] = f.dst)}
                           \cup {<<s, port, f.src, f.dst, f.dst>>}
      PROVE  RulesTypeOK' /\ RulesLead' /\ MacRulesLead'
  <2> DEFINE new == <<s, port, f.src, f.dst, f.dst>>
  <2>1. f.src \in Nodes /\ f.dst \in Ports
    BY <1>4, AnyFrame DEF Ports
  <2>2. macRules' \subseteq Switches \X Ports \X Nodes \X Nodes \X Ports
    BY <1>1, <1>4, <2>1 DEF RulesTypeOK
  <2>3. ASSUME NEW r \in macRules', NEW q \in macRules', \A i \in 1 .. 4 : r[i] = q[i]
        PROVE  r = q
    <3>1. r[1] = q[1] /\ r[2] = q[2] /\ r[3] = q[3] /\ r[4] = q[4]
      BY <2>3
    <3>2. CASE r \in macRules /\ q \in macRules
      BY <1>1, <2>3, <3>2 DEF RulesTypeOK
    <3>3. CASE r = new \/ q = new
      BY <1>4, <3>1, <3>3
    <3> QED BY <1>4, <3>2, <3>3
  <2>4. RulesTypeOK'
    BY <1>1, <1>4, <2>2, <2>3 DEF RulesTypeOK
  <2>5. MacRulesLead'
    BY <1>4 DEF MacRulesLead
  <2> QED BY <1>4, <2>4, <2>5 DEF RulesLead
<1> QED BY <1>2, <1>3, <1>4 DEF RuleMadeAtHome

\* The links after a packet-in: as they were, but for a flooded frame at the end of
\* those that lead away from its home.
LEMMA FloodedWires ==
  ASSUME FInv, NEW s \in Switches, NEW f \in Frames,
         wires' = Sent(wires, s, f, PortsOf(s) \ {Toward(s, f.src)}), NEW w \in Wires
  PROVE  \/ wires'[w] = wires[w]
         \/ /\ wires'[w] = Append(wires[w], f) /\ w[1] = s
            /\ w[2] # HomeOf[f.src] /\ Toward(w[2], f.src) = s
<1>1. CASE w[1] = s /\ w[2] \in PortsOf(s) \ {Toward(s, f.src)}
  <2>1. wires'[w] = Append(wires[w], f)
    BY <1>1 DEF Sent
  <2> QED BY <1>1, <2>1, AnyFrame, FartherAway
<1>2. CASE ~(w[1] = s /\ w[2] \in PortsOf(s) \ {Toward(s, f.src)})
  BY <1>2 DEF Sent
<1> QED BY <1>1, <1>2

LEMMA PacketInStep ==
  ASSUME FInv, NEW s \in Switches, NEW blocked \in BOOLEAN, PacketIn(s, blocked)
  PROVE  FInv'
<1> USE DEF FInv
<1>1. PICK f : f = Head(packetIns[s]).frame
  OBVIOUS
<1>2. /\ packetIns[s] # <<>> /\ packetIns' = [packetIns EXCEPT ![s] = Tail(@)]
      /\ f \in Frames /\ f = packetIns[s][1].frame /\ 1 \in 1 .. Len(packetIns[s])
      /\ Learn(s, f.src, Toward(s, f.src))
  BY <1>1, PacketInMoves
<1>3. RuleMadeAtHome(s, f)
  BY <1>1, PacketInMoves
<1>4. \/ wires' = wires
      \/ /\ f.dst # Broadcast => ~Known(s, f.dst)
         /\ wires' = Sent(wires, s, f, PortsOf(s) \ {Toward(s, f.src)})
  BY <1>1, PacketInMoves
<1>5. f.src \in Nodes /\ Toward(s, f.src) \in Ports /\ Toward(s, f.src) # None
  BY <1>2, AnyFrame, TowardType, ForwardingAssumption
\* The queues.
<1>6. /\ packetIns'[s] \in Seq([frame : Frames, port : Ports])
      /\ Len(packetIns'[s]) \in Nat
      /\ \A i \in 1 .. Len(packetIns'[s]) :
           i + 1 \in 1 .. Len(packetIns[s]) /\ packetIns'[s][i] = packetIns[s][i + 1]
  <2>1. packetIns'[s] = Tail(packetIns[s]) /\ packetIns[s] \in Seq([frame : Frames, port : Ports])
    BY <1>2 DEF TypeOK
  <2> QED BY <1>2, <2>1, TailProperties, LenProperties
<1>7. \A t \in Switches \ {s} : packetIns'[t] = packetIns[t]
  BY <1>2 DEF TypeOK
<1>8. ASSUME NEW w \in Wires
      PROVE  /\ wires'[w] \in Seq(Frames) /\ Len(wires[w]) \in Nat
             /\ \/ wires'[w] = wires[w]
                \/ /\ Len(wires'[w]) = Len(wires[w]) + 1
                   /\ \A i \in 1 .. Len(wires'[w]) :
                        wires'[w][i] = IF i = Len(wires[w]) + 1 THEN f ELSE wires[w][i]
                   /\ w[1] = s /\ w[2] # HomeOf[f.src] /\ Toward(w[2], f.src) = s
                   /\ f.dst # Broadcast => ~Known(s, f.dst)
  <2>1. wires[w] \in Seq(Frames) /\ Len(wires[w]) \in Nat
    BY QueueTypes
  <2>2. CASE wires'[w] = wires[w]
    BY <2>1, <2>2
  <2>3. CASE wires'[w] # wires[w]
    <3>1. /\ wires'[w] = Append(wires[w], f) /\ w[1] = s
          /\ w[2] # HomeOf[f.src] /\ Toward(w[2], f.src) = s
          /\ f.dst # Broadcast => ~Known(s, f.dst)
      BY <1>2, <1>4, <2>3, FloodedWires
    <3> QED BY <1>2, <2>1, <3>1, AppendToQueue
  <2> QED BY <2>2, <2>3
<1>9. wires' \in [Wires -> Seq(Frames)]
  <2>1. wires' = [w \in Wires |-> wires'[w]]
    BY <1>4 DEF Sent, TypeOK
  <2> QED BY <1>8, <2>1
\* What the switches know.
<1>10. macToPort' \in [Switches -> [Nodes -> Ports \cup {None}]]
  BY <1>2, <1>5 DEF Learn, TypeOK
<1>11. \A t \in Switches, n \in Nodes :
         macToPort'[t][n] = IF t = s /\ n = f.src THEN Toward(s, f.src) ELSE macToPort[t][n]
  BY <1>2, <1>5 DEF Learn, TypeOK
<1>12. \A t \in Switches, n \in Nodes : Known(t, n)' <=> Known(t, n) \/ (t = s /\ n = f.src)
  BY <1>5, <1>11 DEF Known
<1>13. Learnt'
  BY <1>11 DEF Learnt, Toward
<1>14. \A t \in Switches, n \in Nodes : Queued(t, n)' => Queued(t, n)
  BY <1>6, <1>7 DEF Queued
<1>15. Queued(s, f.src)
  BY <1>2 DEF Queued
<1>16. TypeOK' /\ RulesLead' /\ MacRulesLead'
  <2>1. packetIns' \in [Switches -> Seq([frame : Frames, port : Ports])]
    BY <1>2, <1>6 DEF TypeOK
  <2>2. RulesTypeOK' /\ RulesLead' /\ MacRulesLead'
    BY <1>2, <1>3, RulesStep
  <2> QED BY <1>9, <1>10, <2>1, <2>2 DEF TypeOK, RulesTypeOK
<1>17. Directed'
  <2>1. ASSUME NEW w \in Wires, NEW i \in 1 .. Len(wires'[w])
        PROVE  /\ w[2] # HomeOf[wires'[w][i].src]
               /\ w[1] = Toward(w[2], wires'[w][i].src)
    BY <1>8 DEF Directed
  <2>2. ASSUME NEW t \in Switches, NEW i \in 1 .. Len(packetIns'[t])
        PROVE  packetIns'[t][i].port = Toward(t, packetIns'[t][i].frame.src)
    BY <1>6, <1>7 DEF Directed
  <2> QED BY <2>1, <2>2 DEF Directed, Toward
<1>18. UpFirst'
  <2> SUFFICES ASSUME NEW t \in Switches, NEW n \in Nodes, t # HomeOf[n], Heard(t, n)'
               PROVE  Known(HomeOf[n], n)' /\ Known(Toward(t, n), n)'
    BY DEF UpFirst, Toward, Known
  <2>1. HomeOf[n] \in Switches /\ Toward(t, n) \in Switches
    BY TowardType
  <2>2. CASE Heard(t, n)
    BY <1>12, <2>1, <2>2 DEF UpFirst
  <2>3. CASE ~Heard(t, n)
    <3>1. ~(t = s /\ n = f.src)
      BY <1>15, <2>3 DEF Heard
    <3>2. PICK w \in Wires : w[2] = t /\ OnWire(w, n)' /\ ~OnWire(w, n)
      BY <1>12, <1>14, <2>3, <3>1 DEF Heard
    <3>3. n = f.src /\ Toward(t, n) = s
      BY <1>8, <3>2 DEF OnWire
    <3>4. Known(s, n)'
      BY <1>12, <3>3
    <3>5. Known(HomeOf[n], n)'
      <4>1. CASE s = HomeOf[n]
        BY <3>4, <4>1 DEF Known
      <4>2. CASE s # HomeOf[n]
        BY <1>12, <1>15, <2>1, <3>3, <4>2 DEF UpFirst, Heard
      <4> QED BY <4>1, <4>2
    <3> QED BY <3>3, <3>4, <3>5 DEF Known
  <2> QED BY <2>2, <2>3
<1>19. UnheardOnWires'
  <2> SUFFICES ASSUME NEW w \in Wires, NEW i \in 1 .. Len(wires'[w]),
                      NEW d, d = wires'[w][i].dst, d # Broadcast
               PROVE  ~Known(w[2], d)' /\ ~Queued(w[2], d)' /\ FirstOnWire(w, i, d)'
    BY DEF UnheardOnWires, Known, Queued, FirstOnWire
  <2>1. w[2] \in Switches
    BY DEF Wires
  <2>2. CASE i \in 1 .. Len(wires[w]) /\ wires'[w][i] = wires[w][i]
    <3>1. d \in Nodes
      BY <2>2, QueueTypes, AnyFrame
    <3>2. ~Known(w[2], d) /\ ~Queued(w[2], d) /\ FirstOnWire(w, i, d)
      BY <2>2 DEF UnheardOnWires
    <3>3. \A j \in 1 .. i - 1 : wires'[w][j] = wires[w][j]
      BY <1>8, <2>2
    <3> QED BY <1>12, <1>14, <1>15, <2>1, <3>1, <3>2, <3>3 DEF FirstOnWire
  \* The new frame: who knows its destination has it from s, which does not.
  <2>3. CASE ~(i \in 1 .. Len(wires[w]) /\ wires'[w][i] = wires[w][i])
    <3>1. /\ i = Len(wires[w]) + 1 /\ d = f.dst /\ w[1] = s
          /\ \A j \in 1 .. i - 1 : j \in 1 .. Len(wires[w]) /\ wires'[w][j] = wires[w][j]
          /\ w[2] # HomeOf[f.src] /\ Toward(w[2], f.src) = s /\ ~Known(s, d)
      BY <1>8, <2>3
    <3>2. d \in Nodes /\ HomeOf[d] = HomeOf[f.src] /\ d # f.src
      BY <1>2, <3>1, AnyFrame
    <3>3. Toward(w[2], d) = s /\ w[2] # HomeOf[d]
      BY <3>1, <3>2 DEF Toward
    <3>4. ~Heard(w[2], d)
      BY <2>1, <3>1, <3>2, <3>3 DEF UpFirst
    <3>5. FirstOnWire(w, i, d)'
      BY <2>1, <3>1, <3>4 DEF Heard, OnWire, FirstOnWire
    <3> QED BY <1>12, <1>14, <2>1, <3>2, <3>4, <3>5 DEF Heard
  <2> QED BY <2>2, <2>3
<1>20. UnheardQueued'
  <2> SUFFICES ASSUME NEW t \in Switches, NEW i \in 1 .. Len(packetIns'[t]),
                      NEW d, d = packetIns'[t][i].frame.dst, d # Broadcast, t # HomeOf[d]
               PROVE  ~Known(t, d)' /\ FirstQueued(t, i, d)'
    BY DEF UnheardQueued, Known, FirstQueued
  <2>1. d \in Nodes
    <3>1. PICK j \in 1 .. Len(packetIns[t]) : packetIns'[t][i] = packetIns[t][j]
      BY <1>6, <1>7
    <3> QED BY <3>1, QueueTypes, AnyFrame
  <2>2. CASE t # s
    <3>1. packetIns'[t] = packetIns[t]
      BY <1>7, <2>2
    <3> QED BY <1>12, <2>1, <2>2, <3>1 DEF UnheardQueued, FirstQueued
  <2>3. CASE t = s
    <3>1. i + 1 \in 1 .. Len(packetIns[s]) /\ packetIns'[s][i] = packetIns[s][i + 1]
      BY <1>6, <2>3
    <3>2. ~Known(s, d) /\ FirstQueued(s, i + 1, d)
      BY <2>3, <3>1 DEF UnheardQueued
    <3>3. f.src # d
      BY <1>2, <3>1, <3>2 DEF FirstQueued
    <3>4. \A j \in 1 .. i - 1 : j + 1 \in 1 .. (i + 1) - 1 /\ packetIns'[s][j] = packetIns[s][j + 1]
      BY <1>6, <2>3
    <3> QED BY <1>12, <2>1, <2>3, <3>2, <3>3, <3>4 DEF FirstQueued
  <2> QED BY <2>2, <2>3
<1> QED BY <1>13, <1>16, <1>17, <1>18, <1>19, <1>20

-----------------------------------------------------------------------------
LEMMA InitFInv == Init => FInv
<1> SUFFICES ASSUME Init PROVE FInv
  OBVIOUS
<1> USE DEF Init
<1>1. TypeOK
  BY EmptySeq DEF TypeOK
<1>2. (\A w \in Wires : Len(wires[w]) = 0) /\ (\A s \in Switches : Len(packetIns[s]) = 0)
  BY EmptySeq
<1>3. Directed /\ UnheardOnWires /\ UnheardQueued
  BY <1>2 DEF Directed, UnheardOnWires, UnheardQueued
<1>4. Learnt /\ UpFirst
  <2>1. \A s \in Switches, n \in Nodes : ~Heard(s, n) /\ macToPort[s][n] = None
    BY <1>2 DEF Heard, Known, Queued, OnWire
  <2> QED BY <2>1 DEF Learnt, UpFirst
<1> QED BY <1>1, <1>3, <1>4 DEF FInv, RulesLead, MacRulesLead

LEMMA NextFInv ==
  ASSUME FInv, [Next]_vars
  PROVE  FInv'
<1> USE DEF FInv
<1>1. ASSUME UNCHANGED <<macToPort, wires, packetIns>>,
             ipRules' \subseteq ipRules, macRules' \subseteq macRules
      PROVE  FInv'
  <2>1. TypeOK' /\ RulesLead' /\ MacRulesLead'
    BY <1>1 DEF TypeOK, RulesLead, MacRulesLead
  <2>2. Directed' /\ Learnt' /\ UpFirst'
    BY <1>1 DEF Directed, Learnt, UpFirst, Heard, Known, Queued, OnWire, Toward
  <2>3. UnheardOnWires' /\ UnheardQueued'
    BY <1>1 DEF UnheardOnWires, UnheardQueued, Known, Queued, FirstOnWire, FirstQueued
  <2> QED BY <2>1, <2>2, <2>3
<1>2. CASE \/ \E r \in ipRules : IpRuleGoes(r)
           \/ \E r \in macRules : MacRuleGoes(r)
           \/ UNCHANGED vars
  BY <1>1, <1>2 DEF IpRuleGoes, MacRuleGoes, vars
<1> QED BY <1>2, SendStep, CrossStep, PacketInStep DEF Next

\* Whatever the order of frames and packet-ins, and whichever rules go: the learning
\* switch only ever knows ports, and a table has one rule for a match.
THEOREM ForwardingTypeCorrect == Spec => []TypeOK
<1>1. FInv => TypeOK
  BY DEF FInv
<1> QED BY <1>1, InitFInv, NextFInv, PTL DEF Spec

\* On every tree of switches the rules for a pair lead to the router at its source and
\* to its destination there, and no other switch has any.
THEOREM RulesAlwaysLead == Spec => []RulesLead
<1>1. FInv => RulesLead
  BY DEF FInv
<1> QED BY <1>1, InitFInv, NextFInv, PTL DEF Spec

\* A switch knows its own nodes before any other does, and by their own ports.
THEOREM HomeFirst == Spec => []HomeKnowsFirst
<1>1. FInv => HomeKnowsFirst
  <2> SUFFICES ASSUME FInv, NEW s \in Switches, NEW n \in Nodes, Known(s, n)
               PROVE  macToPort[HomeOf[n]][n] = n
    BY DEF HomeKnowsFirst, Known
  <2>1. Known(HomeOf[n], n) /\ HomeOf[n] \in Switches
    BY ForwardingAssumption DEF FInv, UpFirst, Heard
  <2> QED BY <2>1 DEF FInv, Learnt, Known, Toward
<1> QED BY <1>1, InitFInv, NextFInv, PTL DEF Spec

=============================================================================
