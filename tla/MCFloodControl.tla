--------------------------- MODULE MCFloodControl ---------------------------
(* Floods from two host ports; rates and thresholds are those of settings.py. *)
EXTENDS FloodControl, TLC

MCThreshold == [TCP_SYN |-> 10, UDP |-> 200, ICMP |-> 150]
MCPlaces == {"p1", "p2"}
MadeUp == {"x1", "x2", "x3", "x4", "x5"}

Syn == [at |-> "p1", srcs |-> {"h1"}, dst |-> "v", port |-> 80, proto |-> "TCP_SYN",
        pps |-> 900, conns |-> 20]
Slow == [at |-> "p1", srcs |-> {"h1"}, dst |-> "v", port |-> 80, proto |-> "TCP",
         pps |-> 3, conns |-> 40]
Udp == [at |-> "p2", srcs |-> MadeUp, dst |-> "v", port |-> 53, proto |-> "UDP",
        pps |-> 100, conns |-> 1]
Icmp == [at |-> "p2", srcs |-> {"h2"}, dst |-> "v", port |-> 0, proto |-> "ICMP",
         pps |-> 700, conns |-> 0]
Trickle == [Syn EXCEPT !.pps = 20, !.conns = 1]

MCHome == [s \in MadeUp \cup {"h1", "h2"} |->
             IF s = "h1" THEN "p1" ELSE IF s = "h2" THEN "p2" ELSE "nowhere"]

\* Stalled flows, if any, are to a second destination.
MCStalled == [v |-> {0}, w |-> {0, 64}]
NoneStalled == [v |-> {0}]

Apart == {Syn, Udp}
Paired == {Syn, Slow}
Mixed == {Trickle, Icmp}
=============================================================================
