-------------------------- MODULE MCIngressTracking --------------------------
(* A host behind switch 1, the router's interface behind switch 2, one link. *)
EXTENDS IngressTracking, TLC

CONSTANTS h1, g2, far, madeUp

MCHosts == {h1}
MCGateways == {g2}
MCAttached == (h1 :> <<1, 1>>) @@ (g2 :> <<2, 1>>)
MCLinks == {{<<1, 2>>, <<2, 2>>}}
MCPairs == {<<madeUp, far>>}
MCSenders == <<madeUp, far>> :> {h1}
MCNoPort == <<0, 0>>
=============================================================================
