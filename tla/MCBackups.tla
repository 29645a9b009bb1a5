----------------------------- MODULE MCBackups ------------------------------
(* Small instances of the backups: two tables, and a calendar of short days. *)
EXTENDS Backups
=============================================================================
