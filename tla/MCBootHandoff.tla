--------------------------- MODULE MCBootHandoff ---------------------------
(* BootHandoff on a few bridges, which are interchangeable.                *)
EXTENDS BootHandoff, TLC

BridgeSymmetry == Permutations(Bridges)
=============================================================================
