---------------------------- MODULE MCMigrations ----------------------------
(* Migrations on small instances: two daemons started on one workspace.     *)
EXTENDS Migrations, TLC

Daemons == {"first", "second"}
Nobody == "nobody"
=============================================================================
