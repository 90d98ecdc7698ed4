----------------------------- MODULE MCGatewayd -----------------------------
(* Module Gatewayd with one HIGH and one LOW worker. *)
EXTENDS Gatewayd, TLC

CONSTANTS h, l
TwoWorkers == {h, l}
TwoClasses == (h :> "HIGH") @@ (l :> "LOW")
=============================================================================
