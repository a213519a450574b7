----------------------------- MODULE MCMigrations -----------------------------
(* Two migrations, and three processes: one may wait for another, overtake it *)
(* after a crash, or find what it has committed, while a third waits too.     *)
EXTENDS Migrations

CONSTANTS p1, p2, p3
=============================================================================
