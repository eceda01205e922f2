---------------------------- MODULE DDoSCollector ----------------------------
(***************************************************************************)
(* The windows of collectors/ddos_collector.py: packets that come up to    *)
(* the controller are counted by destination, port and protocol, and       *)
(* within a window by source.  The first packet a second or more after a   *)
(* window was opened closes it.  (The source ports it also remembers are   *)
(* part of FloodControl.)                                                  *)
(*                                                                         *)
(* A label stands for the protocol and destination port of a packet.       *)
(***************************************************************************)
EXTENDS Naturals

CONSTANTS
  Pairs,   \* (source, destination) pairs
  DstOf,   \* pair -> its destination
  Labels

VARIABLES
  srcPackets,  \* window -> pair -> packets counted
  age          \* window -> no entry in stats yet, or whether its second is over

windowVars == <<srcPackets, age>>

Windows == {DstOf[p] : p \in Pairs} \X Labels
NoPackets == [p \in Pairs |-> 0]

WindowTypeOK ==
  /\ srcPackets \in [Windows -> [Pairs -> Nat]]
  /\ age \in [Windows -> {"absent", "young", "over"}]

WindowInit ==
  /\ srcPackets = [w \in Windows |-> NoPackets]
  /\ age = [w \in Windows |-> "absent"]

\* The counts of the window of a packet of pair p, that packet included.
Counted(p, label) ==
  LET w == <<DstOf[p], label>> IN [srcPackets[w] EXCEPT ![p] = @ + 1]

\* What process_packet returns: the counts, if the packet closes the window.
Result(p, label) ==
  IF age[<<DstOf[p], label>>] = "over" THEN Counted(p, label) ELSE NoPackets

\* A mutant: the counts are not reset.
ProcessPacketKeeping(p, label) ==
  LET w == <<DstOf[p], label>> IN
  /\ srcPackets' = [srcPackets EXCEPT ![w] = Counted(p, label)]
  /\ age' = [age EXCEPT ![w] = "young"]

\* process_packet, for any packet but a TCP reset, which it does not look at.
ProcessPacket(p, label) ==
  LET w == <<DstOf[p], label>> IN
  /\ srcPackets' = [srcPackets EXCEPT ![w] =
                      IF age[w] = "over" THEN NoPackets ELSE Counted(p, label)]
  /\ age' = [age EXCEPT ![w] = "young"]

\* A second since the window's timestamp.
SecondPasses(w) ==
  /\ age[w] = "young"
  /\ age' = [age EXCEPT ![w] = "over"]
  /\ UNCHANGED srcPackets

=============================================================================
