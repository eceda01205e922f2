-------------------------- MODULE MCOpenFlowAdapter --------------------------
(* A pair whose packets have two labels, and a drop rule. *)
EXTENDS OpenFlowAdapter, TLC

CONSTANTS pair, rule, victim, s1, syn, udp, ip

MCKind == (pair :> "ip") @@ (rule :> "drop")
MCDstOf == pair :> victim
=============================================================================
