----------------------------- MODULE MCPortScan -----------------------------
(* Two devices and two tiers that overlap, as the common and the well-known  *)
(* ports do.                                                                 *)
EXTENDS PortScan

MCTierPorts == << <<1, 2>>, <<1>> >>
=============================================================================
