--------------------------- MODULE MCQemuProcess ---------------------------
(* One QEMU, with timeouts of one or two ticks. *)
EXTENDS QemuProcess
=============================================================================
