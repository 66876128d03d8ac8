------------------------------ MODULE MCCliVcp ------------------------------
(***************************************************************************)
(* The command line with streams of one piece: a packet fills a stream, as *)
(* the two marks of a session that is opened and closed at once do.        *)
(***************************************************************************)
EXTENDS CliVcp

MCStream == 1
MCMaxMissed == 1
=============================================================================
