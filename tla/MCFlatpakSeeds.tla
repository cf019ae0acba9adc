---------------------------- MODULE MCFlatpakSeeds ----------------------------
(* Instances of FlatpakSeeds for TLC.                                       *)
EXTENDS FlatpakSeeds, TLC
=============================================================================
