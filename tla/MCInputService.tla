--------------------------- MODULE MCInputService ---------------------------
(* A small instance of InputService. *)
EXTENDS InputService, TLC
=============================================================================
