---------------------------- MODULE MCMigration ----------------------------
(* All guest programs, or avx2 alone. *)
EXTENDS Migration
=============================================================================
