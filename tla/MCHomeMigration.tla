--------------------------- MODULE MCHomeMigration ---------------------------
(* Instances of HomeMigration for TLC, and the mutants of its code.         *)
EXTENDS HomeMigration, TLC
=============================================================================
