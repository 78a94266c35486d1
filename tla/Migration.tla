----------------------------- MODULE Migration -----------------------------
(***************************************************************************)
(* The live migration tests without a full OS (tests/migration.rs):        *)
(* do_migration drives two QEMUs while the guest program (asm/boot_avx2,   *)
(* boot_scalar, boot_fp_sse) checks registers under test in a loop; the    *)
(* test passes on the verdict that the guest prints on the destination.    *)
(* boot.asm ("simple") and lm_init.c ("kernel") check nothing: they repeat *)
(* a line, here "OK" as well.                                              *)
(*                                                                         *)
(* QEMU's migration is external.  It carries the guest over at any point   *)
(* of its program and is the thing under test: it may lose the values of   *)
(* the registers under test.  Each VM has a serial log of its own, so a    *)
(* line that was begun on the source is torn.                              *)
(***************************************************************************)
EXTENDS Naturals

CONSTANT Program   \* the guest programs that are run

Heartbeat == {"simple", "kernel"}

ASSUME ProgramAssumption ==
    Program \subseteq {"avx2", "scalar", "fpsse"} \cup Heartbeat /\ Program # {}

VARIABLES prog,      \* the guest program
          gpc,       \* where the guest is in it
          regs,      \* the registers under test
          spill,     \* their copy in memory
          msg,       \* the message to be printed next, or being printed
          torn,      \* the line being printed was begun on the other VM
          vm,        \* the VM that executes the guest, or "none"
          log,       \* the kinds of complete lines in each serial log
          first,     \* the first verdict in the destination's log
          src, dst,  \* run states of the QEMUs
          hpc,       \* where the test is
          at         \* history: gpc when the guest left the source, if its
                     \* registers were lost on the way

guest == <<prog, gpc, regs, spill, msg, torn, vm, log, first>>
qemus == <<src, dst>>
vars == <<prog, gpc, regs, spill, msg, torn, vm, log, first, src, dst, hpc, at>>

GuestPC == {"load", "spin", "spill", "cmp", "print", "printing", "halt"}

TypeOK ==
    /\ prog \in Program /\ gpc \in GuestPC
    /\ regs \in {"unset", "pattern", "lost"} /\ spill \in {"unset", "pattern", "lost"}
    /\ msg \in {"READY", "OK", "FAIL"} /\ torn \in BOOLEAN
    /\ vm \in {"src", "dst", "none"}
    /\ log \in [{"src", "dst"} -> SUBSET {"READY", "OK", "FAIL"}]
    /\ first \in {"none", "OK", "FAIL"}
    /\ src \in {"running", "active", "finish", "postmigrate"}
    /\ dst \in {"none", "inmigrate", "listening", "running"}
    /\ hpc \in {"ready", "incoming", "migrate", "pollDst", "pollSrc", "verify",
                "Ok", "Err"}
    /\ at \in GuestPC \cup {"kept"}
    /\ dst = "none" => hpc \in {"ready", "Err"}
    /\ vm = "dst" => dst = "running"

Init ==
    /\ prog \in Program
    /\ gpc = (IF prog = "avx2" THEN "load" ELSE "print")
    /\ msg = (IF prog = "simple" THEN "OK" ELSE "READY")
    /\ regs = "unset" /\ spill = "unset" /\ torn = FALSE
    /\ vm = "src" /\ log = [v \in {"src", "dst"} |-> {}] /\ first = "none"
    /\ src = "running" /\ dst = "none" /\ hpc = "ready" /\ at = "kept"

-----------------------------------------------------------------------------
(* The guest programs. *)

Runs == vm # "none"

(* The patterns are loaded: once before READY (avx2), or in every round. *)
Load ==
    /\ Runs /\ gpc = "load" /\ regs' = "pattern"
    /\ gpc' = IF prog = "avx2" THEN "print" ELSE "spin"
    /\ UNCHANGED <<prog, spill, msg, torn, vm, log, first, qemus, hpc, at>>

(***************************************************************************)
(* The delay loop: before the check, or (avx2) after the verdict; or       *)
(* between two lines, in lm_init.c 64 rounds of touching its pages.        *)
(***************************************************************************)
Spin ==
    /\ Runs /\ gpc = "spin"
    /\ gpc' = IF prog \in Heartbeat THEN "print" ELSE IF prog = "scalar" THEN "cmp" ELSE "spill"
    /\ msg' = IF prog \in Heartbeat THEN "OK" ELSE msg
    /\ UNCHANGED <<prog, regs, spill, torn, vm, log, first, qemus, hpc, at>>

(* Fault: the comparison reads the buffer of the previous round. *)
Spill_Skipped ==
    /\ Runs /\ gpc = "spill" /\ gpc' = "cmp"
    /\ UNCHANGED <<prog, regs, spill, msg, torn, vm, log, first, qemus, hpc, at>>

(* Vector registers are compared by way of memory. *)
Spill ==
    /\ Runs /\ gpc = "spill" /\ spill' = regs /\ gpc' = "cmp"
    /\ UNCHANGED <<prog, regs, msg, torn, vm, log, first, qemus, hpc, at>>

(* The comparison picks the message. *)
Compare ==
    /\ Runs /\ gpc = "cmp" /\ gpc' = "print"
    /\ msg' = IF (IF prog = "scalar" THEN regs ELSE spill) = "pattern"
              THEN "OK" ELSE "FAIL"
    /\ UNCHANGED <<prog, regs, spill, torn, vm, log, first, qemus, hpc, at>>

(* serial_print begins a line... *)
PrintBegins ==
    /\ Runs /\ gpc = "print" /\ gpc' = "printing" /\ torn' = FALSE
    /\ UNCHANGED <<prog, regs, spill, msg, vm, log, first, qemus, hpc, at>>

(* Fault: a guest stops after its first verdict. *)
AfterPrint_Once ==
    IF msg # "READY" THEN "halt" ELSE IF prog = "avx2" THEN "spill"
    ELSE IF prog \in Heartbeat THEN "spin" ELSE "load"

(* Where each program goes on after a message. *)
AfterPrint ==
    IF prog \in Heartbeat THEN "spin"
    ELSE IF prog = "avx2" THEN IF msg = "READY" THEN "spill" ELSE "spin"
    ELSE IF msg = "FAIL" THEN "halt" ELSE "load"

(* ...and ends it; only a line begun on this VM is complete in its log. *)
PrintEnds ==
    /\ Runs /\ gpc = "printing" /\ gpc' = AfterPrint
    /\ IF torn THEN UNCHANGED <<log, first>>
       ELSE /\ log' = [log EXCEPT ![vm] = @ \cup {msg}]
            /\ first' = IF vm = "dst" /\ first = "none" /\ msg # "READY"
                        THEN msg ELSE first
    /\ UNCHANGED <<prog, regs, spill, msg, torn, vm, qemus, hpc, at>>

GuestStep == Load \/ Spin \/ Spill \/ Compare \/ PrintBegins \/ PrintEnds

-----------------------------------------------------------------------------
(* QEMU's migration (external). *)

(* The source stops the guest wherever it is. *)
SwitchOver ==
    /\ src = "active" /\ dst = "listening"
    /\ src' = "finish" /\ vm' = "none" /\ torn' = (gpc = "printing")
    /\ UNCHANGED <<prog, gpc, regs, spill, msg, log, first, dst, hpc, at>>

(* The destination has loaded the state, with or without the registers. *)
DstRuns ==
    /\ src \in {"finish", "postmigrate"} /\ dst = "listening"
    /\ dst' = "running" /\ vm' = "dst"
    /\ \/ UNCHANGED <<regs, at>>
       \/ prog \notin Heartbeat /\ regs' = "lost" /\ at' = gpc
    /\ UNCHANGED <<prog, gpc, spill, msg, torn, log, first, src, hpc>>

SrcCompletes ==
    /\ src = "finish" /\ src' = "postmigrate"
    /\ UNCHANGED <<guest, dst, hpc, at>>

(* The migration fails; the source goes on. *)
MigrationFails ==
    /\ src = "active" /\ src' = "running"
    /\ UNCHANGED <<guest, dst, hpc, at>>

QemuStep == SwitchOver \/ DstRuns \/ SrcCompletes \/ MigrationFails

-----------------------------------------------------------------------------
(* The test; every step may instead fail with an error or a timeout. *)

(* Fault: the migration begins before there is a destination. *)
AwaitReady_NoDst ==
    /\ hpc = "ready" /\ (prog = "simple" \/ "READY" \in log["src"])
    /\ hpc' = "incoming"
    /\ UNCHANGED <<guest, qemus, at>>

(* The READY line on the source, except for simple; then the destination. *)
AwaitReady ==
    /\ hpc = "ready" /\ (prog = "simple" \/ "READY" \in log["src"])
    /\ hpc' = "incoming" /\ dst' = "inmigrate"
    /\ UNCHANGED <<guest, src, at>>

MigrateIncoming ==
    /\ hpc = "incoming" /\ dst = "inmigrate"
    /\ hpc' = "migrate" /\ dst' = "listening"
    /\ UNCHANGED <<guest, src, at>>

Migrate ==
    /\ hpc = "migrate" /\ src = "running"
    /\ hpc' = "pollDst" /\ src' = "active"
    /\ UNCHANGED <<guest, dst, at>>

PollDst ==
    /\ hpc = "pollDst" /\ dst = "running" /\ hpc' = "pollSrc"
    /\ UNCHANGED <<guest, qemus, at>>

(* Fault: the state of the source is not awaited. *)
PollSrc_Skipped ==
    /\ hpc = "pollSrc" /\ hpc' = "verify"
    /\ UNCHANGED <<guest, qemus, at>>

PollSrc ==
    /\ hpc = "pollSrc" /\ src = "postmigrate" /\ hpc' = "verify"
    /\ UNCHANGED <<guest, qemus, at>>

(* Fault: any verdict on the destination will do. *)
Verify_AnyLine ==
    /\ hpc = "verify" /\ log["dst"] \cap {"OK", "FAIL"} # {} /\ hpc' = "Ok"
    /\ UNCHANGED <<guest, qemus, at>>

(* poll_line for OK; for fpsse, for the first verdict, which must be OK. *)
Verify ==
    /\ hpc = "verify"
    /\ \/ prog # "fpsse" /\ "OK" \in log["dst"] /\ hpc' = "Ok"
       \/ prog = "fpsse" /\ first = "OK" /\ hpc' = "Ok"
       \/ prog = "fpsse" /\ first = "FAIL" /\ hpc' = "Err"
    /\ UNCHANGED <<guest, qemus, at>>

(* A QMP error, a poll that times out, or SHUTDOWN. *)
TestFails ==
    /\ hpc \notin {"Ok", "Err"} /\ hpc' = "Err"
    /\ UNCHANGED <<guest, qemus, at>>

TestStep == AwaitReady \/ MigrateIncoming \/ Migrate \/ PollDst \/ PollSrc \/ Verify

Next == GuestStep \/ QemuStep \/ TestStep \/ TestFails

Spec == Init /\ [][Next]_vars

(***************************************************************************)
(* A VM that runs executes its guest, a source that was stopped completes, *)
(* and the polls look again and again.  No timeout has to come.            *)
(***************************************************************************)
FairSpec ==
    Spec /\ WF_vars(GuestStep) /\ WF_vars(SrcCompletes) /\ WF_vars(TestStep)

-----------------------------------------------------------------------------
(* Properties. *)

(***************************************************************************)
(* do_migration returns Ok only when the handover is over: the destination *)
(* executes the guest and the source has completed.                        *)
(***************************************************************************)
MigratedMeansHandedOver ==
    hpc \in {"verify", "Ok"} => vm = "dst" /\ dst = "running" /\ src = "postmigrate"

(***************************************************************************)
(* The points of each program at which the registers under test hold the   *)
(* only copy of what the next verdict is about.                            *)
(***************************************************************************)
Live == IF prog \in Heartbeat THEN {}
        ELSE IF prog = "avx2" THEN {"spill", "spin", "printing"}
        ELSE IF prog = "fpsse" THEN {"spin", "spill"} ELSE {"spin", "cmp"}

(***************************************************************************)
(* The verdict is right both ways.  A loss of registers that the guest has *)
(* still to compare is always noticed: no interleaving of the guest's      *)
(* loop, the handover and the polls lets the test pass, and an OK left     *)
(* over from an earlier comparison never counts.  And there is no false    *)
(* alarm: a guest prints FAIL only if the migration lost registers.        *)
(***************************************************************************)
VerdictIsRight ==
    /\ hpc = "Ok" => at \notin Live
    /\ "FAIL" \in log["src"] \cup log["dst"] => at # "kept"

(***************************************************************************)
(* A migration that kept the registers does not depend on the timeouts: a  *)
(* line torn by the handover is not the last one, and the test sees one.   *)
(***************************************************************************)
SuccessIsSeen == vm = "dst" /\ at = "kept" ~> hpc \in {"Ok", "Err"}

(***************************************************************************)
(* The comment of the avx2 test, "Verify YMM registers survived            *)
(* migration", and of the scalar test's debug line, "scalar CPU state      *)
(* verified after migration": a test that passes lost no register.         *)
(***************************************************************************)
PassMeansSurvived == hpc = "Ok" => at = "kept"
=============================================================================
