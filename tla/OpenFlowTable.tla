---------------------------- MODULE OpenFlowTable ----------------------------
(***************************************************************************)
(* The vocabulary of the switches' flow tables: what the mitigator's       *)
(* matches say, and what an OpenFlow switch does with them.  No state.     *)
(*                                                                         *)
(* A match is a record whose fields hold a value or Any, the field being   *)
(* absent from the OFPMatch.  The code writes an absent source as "*", an  *)
(* absent port as 0 and an absent protocol as "IP" (the one protocol name  *)
(* of a detection that PROTO_NUMBERS lacks).                               *)
(***************************************************************************)
EXTENDS Naturals

CONSTANTS
  Switches,   \* datapath ids
  Hosts,      \* source addresses
  Dsts,       \* destination addresses
  Protos,     \* the protocols of PROTO_NUMBERS
  L4Ports,    \* destination ports
  Ports,      \* physical ports of a switch
  Any,        \* a field a match leaves out
  None        \* Python's None

ASSUME AnyAssumption == Any \notin Hosts \cup Protos \cup L4Ports \cup Ports
ASSUME NoneAssumption == None \notin Switches \cup Nat

(***************************************************************************)
(* (src_ip, dst_ip, dst_port, protocol): the identity the orchestrator and *)
(* the mitigator give a block.  A detection with no protocol has port 0.   *)
(***************************************************************************)
BlockKey ==
  {k \in [src : Hosts \cup {Any}, dst : Dsts,
          port : L4Ports \cup {Any}, proto : Protos \cup {Any}] :
     k.proto = Any => k.port = Any}

Rule ==
  [src : Hosts \cup {Any}, dst : Dsts, port : L4Ports \cup {Any},
   proto : Protos \cup {Any}, inPort : Ports \cup {Any}]

Packet ==
  [src : Hosts, dst : Dsts, port : L4Ports \cup {Any},
   proto : Protos \cup {Any}, inPort : Ports]

\* The match of the drop rule of block k, on physical port p (or on any).
DropMatch(k, p) ==
  [src |-> k.src, dst |-> k.dst, port |-> k.port, proto |-> k.proto, inPort |-> p]

\* LearningSwitch's L3 forwarding rule for a pair of addresses.
ForwardMatch(src, dst) ==
  [src |-> src, dst |-> dst, port |-> Any, proto |-> Any, inPort |-> Any]

\* OFPFC_DELETE with match m is not strict: it removes every rule whose match
\* is m's or a narrower one, whatever the priorities are.
Subsumes(m, r) ==
  /\ m.src \in {Any, r.src}
  /\ m.dst = r.dst
  /\ m.port \in {Any, r.port}
  /\ m.proto \in {Any, r.proto}
  /\ m.inPort \in {Any, r.inPort}

\* A packet meets a rule when the rule's match is at least as wide as the packet.
Hits(r, pkt) == Subsumes(r, pkt)

\* _stat_matches_block compares every field of the rule but in_port.
StatMatchesBlock(r, k) == \E p \in Ports \cup {Any} : r = DropMatch(k, p)

=============================================================================
