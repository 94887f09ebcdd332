----------------------------- MODULE MCDevStore -----------------------------
(* A register of two slots for three devices, two of which have keys with   *)
(* the same fingerprint.                                                    *)
EXTENDS DevStore

CONSTANTS a, b, c, n1

MCKeyHash == [k \in Key |-> IF k \in {a, b} THEN 1 ELSE 2]
=============================================================================
