---------------------------- MODULE MCFuriThread ----------------------------
(* Small instances of FuriThread. *)
EXTENDS FuriThread, TLC
=============================================================================
