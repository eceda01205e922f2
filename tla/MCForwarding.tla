---------------------------- MODULE MCForwarding ----------------------------
(* Three switches in a line, hosts and their gateways at its ends and a gateway in *)
(* the middle.                                                                     *)
EXTENDS Forwarding, TLC

CONSTANTS s1, s2, s3, h1, h3, r1, r2, r3

MCLinks == {{s1, s2}, {s2, s3}}
MCHomeOf == (h1 :> s1) @@ (r1 :> s1) @@ (r2 :> s2) @@ (h3 :> s3) @@ (r3 :> s3)
MCIpPairs == {<<h1, h3>>}
MCAnswers == {<<r1, h1>>}
=============================================================================
