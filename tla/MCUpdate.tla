------------------------------ MODULE MCUpdate ------------------------------
(* One release newer than the running image, two loaders, one backup of two  *)
(* records (NVS and files), one power failure.                               *)
EXTENDS Update

MCDevBuilds == {}
=============================================================================
