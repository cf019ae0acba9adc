---------------------------- MODULE MCHomeConfigs ----------------------------
(* Instances of HomeConfigs for TLC.                                        *)
EXTENDS HomeConfigs, TLC
=============================================================================
