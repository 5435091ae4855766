---------------------------- MODULE MCSqliteStore ----------------------------
(* Instances of SqliteStore for TLC. *)
EXTENDS SqliteStore, TLC
====
