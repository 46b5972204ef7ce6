----------------------------- MODULE MCChannel -----------------------------
(* Each of the channels, the private one with the commands of the .cfg.    *)
EXTENDS Channel
===========================================================================
