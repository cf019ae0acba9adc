--------------------------- MODULE MCRootMigration ---------------------------
(* Instances of RootMigration for TLC.                                       *)
EXTENDS RootMigration, TLC
=============================================================================
