---------------------------- MODULE MCAddrTrack ----------------------------
(* Two hosts and three addresses, each with a slot, for the stale sighting   *)
(* of a third address between a move and its news; the windows in units of   *)
(* which a sweep comes every two, or every four.                             *)
EXTENDS AddrTrack, TLC

Symmetry == Permutations(Addrs) \cup Permutations(Hosts)
=============================================================================
