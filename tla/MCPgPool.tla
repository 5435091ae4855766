------------------------------ MODULE MCPgPool ------------------------------
(* Instances of PgPool for TLC. *)
EXTENDS PgPool

====
