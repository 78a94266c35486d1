------------------------------ MODULE MCReboot ------------------------------
(* Timeouts of one tick, and room for a boot more than there should be. *)
EXTENDS Reboot
=============================================================================
