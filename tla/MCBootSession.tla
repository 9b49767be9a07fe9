--------------------------- MODULE MCBootSession ---------------------------
(* BootSession with two possible targets and short countdowns.             *)
EXTENDS BootSession
=============================================================================
