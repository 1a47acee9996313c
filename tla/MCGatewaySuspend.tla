-------------------------- MODULE MCGatewaySuspend --------------------------
(* Instances of GatewaySuspend for TLC.  Liveness is checked: no symmetry.  *)
EXTENDS GatewaySuspend

\* Two hosts compete for the suspension.
TwoHosts == {"host-a", "host-b"}
=============================================================================
