----------------------------- MODULE MCTestBody -----------------------------
(***************************************************************************)
(* Three migrations of the full OS for two pairs of taps, and three mixes  *)
(* of the other tests, one of them beside such a migration.                *)
(***************************************************************************)
EXTENDS TestBody

CONSTANTS t1, t2, t3
MCSymmetry == Permutations(Test)

Simple == [payload |-> "GuestBin", migrates |-> TRUE, reboots |-> FALSE,
           waits |-> FALSE, stress |-> {}, machine |-> "pc", smp |-> {}, cpu |-> {},
           ovmf |-> {}, io_thread |-> FALSE, initrd |-> {}]
Avx2 == [Simple EXCEPT !.waits = TRUE, !.smp = {2}, !.cpu = {"host"}]
Kernel == [Avx2 EXCEPT !.payload = "Kernel", !.initrd = {"initramfs"}]
GuestBin == [Simple EXCEPT !.migrates = FALSE, !.waits = TRUE]
Os(stress) == [Avx2 EXCEPT !.payload = "DiskImage", !.machine = "q35", !.stress = stress]
Boot(ovmf, io) == [Os({}) EXCEPT !.migrates = FALSE, !.ovmf = ovmf, !.io_thread = io]
Reboot == [Boot({}, FALSE) EXCEPT !.reboots = TRUE, !.machine = "pc"]

Mixes == {<<Os({}), Os({}), Os({})>>,
          <<Os({"stress-ng"}), Boot({"OVMF_CODE.fd"}, TRUE), GuestBin>>,
          <<Reboot, Simple, GuestBin>>,
          <<Kernel, Avx2, GuestBin>>}

(* Every assignment of a mix to the tests, so that the tests are symmetric. *)
MCPlans == {[t \in Test |-> mix[place[t]]] :
               mix \in Mixes, place \in {f \in [Test -> 1 .. 3] : IsInjective(f)}}

(* Bound: no behaviour is followed beyond the second failure of a test. *)
MaxFailed == 1
FewFail == Cardinality({t \in Test : ~ok[t]}) <= MaxFailed
=============================================================================
