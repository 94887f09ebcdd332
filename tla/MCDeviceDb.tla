----------------------------- MODULE MCDeviceDb -----------------------------
(* Small instances of DeviceDb.  Hardware addresses are interchangeable.    *)
EXTENDS DeviceDb, TLC

CONSTANTS m1, m2, m3, i1, i2, n1

(* An import of an entry split off, which says where it belongs.            *)
MCImports == {[key |-> <<m1, i1>>, hw |-> m1, ip |-> i1]}

MCSymmetry == Permutations(Mac)
=============================================================================
