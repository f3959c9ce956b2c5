------------------------- MODULE MCArchiveMigration -------------------------
(* ArchiveMigration for TLC: three files, two commands at once.             *)
EXTENDS ArchiveMigration

CONSTANTS c1, c2
=============================================================================
