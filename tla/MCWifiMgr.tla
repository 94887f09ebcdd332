----------------------------- MODULE MCWifiMgr -----------------------------
(* The right and the wrong credentials.                                     *)
EXTENDS WifiMgr

MCCreds == {"right", "wrong"}
=============================================================================
