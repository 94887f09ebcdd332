------------------------------ MODULE MCSweep ------------------------------
(* A few addresses of which at most two are in use, a ring and a harvest of  *)
(* two slots, an ARP table with room for hosts and requests, two mishaps.    *)
EXTENDS Sweep
=============================================================================
