---------------------------- MODULE MCTestRunner ----------------------------
(* Two threads, three tests that need taps or not, and one tap pair. *)
EXTENDS TestRunner
=============================================================================
