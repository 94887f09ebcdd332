------------------------------- MODULE MCLinks -------------------------------
(* Three links for two places, two headings with ids up to three, two      *)
(* passphrases, a few requests, a power cut or failed write.               *)
EXTENDS Links
=============================================================================
