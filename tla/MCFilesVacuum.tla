---------------------------- MODULE MCFilesVacuum ----------------------------
(* Instances of FilesVacuum for TLC.                                       *)
EXTENDS FilesVacuum, TLC
=============================================================================
