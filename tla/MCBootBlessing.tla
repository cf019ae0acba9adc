---------------------------- MODULE MCBootBlessing ----------------------------
(* Instances of BootBlessing for TLC.                                       *)
EXTENDS BootBlessing, TLC
=============================================================================
