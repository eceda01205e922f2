--------------------------- MODULE MCOrchestration ---------------------------
(* Small instances of Orchestration for TLC. *)
EXTENDS OrchestrationClaims

CONSTANTS h1, h2, d1, tcp, udp, p80, s1, s2, e1

Key(src, dst, port, proto) == [src |-> src, dst |-> dst, port |-> port, proto |-> proto]
At(s, p) == [dpid |-> s, inPort |-> p]
Pkt(src, dst, port, proto) ==
  [src |-> src, dst |-> dst, port |-> port, proto |-> proto, inPort |-> e1]

\* A distributed attack on a destination, a single source's flood of another
\* protocol on it, and the flow-count signature of LOW_SLOW.
Distributed == Key(Any, d1, p80, tcp)
Single == Key(h1, d1, p80, tcp)
SingleUdp == Key(h1, d1, p80, udp)
LowSlow == Key(Any, d1, Any, Any)

OneDistributed == {Distributed}
OneSingle == {Single}
OneLowSlow == {LowSlow}
Apart == {Distributed, SingleUdp}
Nested == {Distributed, Single}

OnePort == {At(s1, e1)}
TwoSwitches == {At(s1, e1), At(s2, e1)}

OnePacket == {Pkt(h1, d1, p80, tcp)}
NoPackets == {}

\* A packet of the attack, and one to the same destination its rule does not cover.
BothPackets == {Pkt(h1, d1, p80, tcp), Pkt(h1, d1, Any, udp)}

ReleaseAtOne == [k \in Keys |-> 1]

=============================================================================
