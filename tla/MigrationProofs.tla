-------------------------- MODULE MigrationProofs --------------------------
(***************************************************************************)
(* What the migration tests of tests/migration.rs promise, for every set   *)
(* of guest programs: Ok is returned only after the handover, a guest that *)
(* lost no register prints no FAIL, and a guest that lost registers which  *)
(* it has still to compare prints no OK on the destination.                *)
(***************************************************************************)
EXTENDS Migration, TLAPS

-----------------------------------------------------------------------------
(* The inductive invariant. *)

(* One VM has the guest: the run states of the two QEMUs tell which one. *)
Owner ==
    /\ vm = "src" <=> src \in {"running", "active"}
    /\ vm = "dst" <=> dst = "running"
    /\ src # "running" => dst \in {"listening", "running"}

(* How far the handover is when the test is where it is. *)
Driven ==
    /\ hpc = "ready" => dst = "none"
    /\ hpc = "incoming" => dst = "inmigrate"
    /\ hpc = "migrate" => dst = "listening"
    /\ hpc \in {"ready", "incoming", "migrate"} => src = "running"
    /\ hpc = "pollDst" => dst \in {"listening", "running"}
    /\ hpc \in {"pollSrc", "verify", "Ok"} => dst = "running"
    /\ hpc \in {"verify", "Ok"} => src = "postmigrate"

(* Until the destination runs it has printed nothing and lost nothing. *)
Untouched ==
    /\ vm # "dst" => log["dst"] = {} /\ first = "none" /\ at = "kept"
    /\ vm = "none" => torn = (gpc = "printing")
    /\ first = "OK" => "OK" \in log["dst"]
    /\ prog \in Heartbeat => gpc \in {"print", "printing", "spin"} /\ at = "kept"

(* What the next comparison reads. *)
Compared == IF prog = "scalar" THEN regs ELSE spill

(* While no register is lost, what is compared is the pattern. *)
Intact ==
    /\ prog \notin Heartbeat /\ gpc \in {"spin", "spill"} => regs = "pattern"
    /\ prog = "avx2" /\ gpc # "load" => regs = "pattern"
    /\ gpc = "cmp" => Compared = "pattern"
    /\ msg # "FAIL" /\ "FAIL" \notin log["src"] \cup log["dst"]

(***************************************************************************)
(* Once registers were lost that are still to be compared, they stay lost  *)
(* until they are compared, and every verdict up to and after that is a    *)
(* FAIL, except for one that was torn by the handover.  avx2 never loads   *)
(* the pattern again; the others halt at the FAIL.                         *)
(***************************************************************************)
Noticed ==
    /\ gpc # "load"
    /\ gpc \in {"spin", "spill"} \/ prog = "avx2" => regs = "lost"
    /\ gpc = "cmp" => Compared = "lost"
    /\ gpc = "print" => msg = "FAIL"
    /\ gpc = "printing" => msg = "FAIL" \/ (prog = "avx2" /\ torn)
    /\ "OK" \notin log["dst"]

Fate == (at = "kept" => Intact) /\ (at \in Live => Noticed)

(* A test passes on an OK of the destination. *)
Passed == hpc = "Ok" => "OK" \in log["dst"]

IInv == TypeOK /\ Owner /\ Driven /\ Untouched /\ Fate /\ Passed

-----------------------------------------------------------------------------
(* Facts the steps rest on. *)

(* Only the programs that check registers have any to lose. *)
LEMMA LivePoints ==
    /\ "kept" \notin Live
    /\ prog \in Program =>
           Live = CASE prog = "avx2"   -> {"spill", "spin", "printing"}
                    [] prog = "fpsse"  -> {"spin", "spill"}
                    [] prog = "scalar" -> {"spin", "cmp"}
                    [] OTHER           -> {}
<1>1. prog \in Program => prog \in {"avx2", "scalar", "fpsse", "simple", "kernel"}
  BY ProgramAssumption DEF Heartbeat
<1> QED
  BY <1>1 DEF Live, Heartbeat

LEMMA InitIInv == Init => IInv
<1> SUFFICES ASSUME Init PROVE IInv
  OBVIOUS
<1>1. TypeOK
  BY DEF Init, TypeOK, GuestPC
<1>2. Fate
  BY LivePoints DEF Init, Fate, Intact, Compared, Heartbeat
<1>3. prog \in Heartbeat => gpc = "print"
  BY DEF Init, Heartbeat
<1> QED
  BY <1>1, <1>2, <1>3 DEF Init, IInv, Owner, Driven, Untouched, Passed

(* A guest has nothing live before the destination runs it. *)
LEMMA LostOnDst == IInv /\ at \in Live => vm = "dst" /\ prog \notin Heartbeat
  BY LivePoints DEF IInv, Untouched

-----------------------------------------------------------------------------
(* The guest programs. *)

(* What every step of a guest program leaves alone, and what it has to show. *)
LEMMA GuestFrame ==
    ASSUME IInv, UNCHANGED <<prog, vm, qemus, hpc, at>>, Runs, TypeOK', Intact => Intact',
           at \in Live /\ Noticed => Noticed', Untouched',
           log["dst"] \subseteq log'["dst"]
    PROVE  IInv'
<1>1. Owner' /\ Driven' /\ Passed'
  BY DEF IInv, Owner, Driven, Passed, qemus
<1>2. Live' = Live
  BY DEF Live
<1>3. Fate'
  BY <1>2 DEF IInv, Fate
<1> QED
  BY <1>1, <1>3 DEF IInv

(* A step that prints nothing. *)
LEMMA QuietStep ==
    ASSUME IInv, Runs, UNCHANGED <<prog, vm, log, first, at>>,
           prog \in Heartbeat => gpc' \in {"print", "printing", "spin"}
    PROVE  Untouched'
  BY DEF IInv, Untouched, Runs

LEMMA LoadIInv == IInv /\ Load => IInv'
<1> SUFFICES ASSUME IInv, Load PROVE IInv'
  OBVIOUS
<1> USE DEF Load
<1>1. prog \notin Heartbeat
  BY DEF IInv, Untouched
<1>2. TypeOK'
  BY DEF IInv, TypeOK, GuestPC, qemus
<1>3. Intact => Intact'
  BY <1>1 DEF Intact, Compared
<1>4. ~Noticed
  BY DEF Noticed
<1>5. Untouched'
  BY <1>1, QuietStep
<1> QED
  BY <1>2, <1>3, <1>4, <1>5, GuestFrame

LEMMA SpinIInv == IInv /\ Spin => IInv'
<1> SUFFICES ASSUME IInv, Spin PROVE IInv'
  OBVIOUS
<1> USE DEF Spin
<1>1. TypeOK'
  BY DEF IInv, TypeOK, GuestPC, qemus
<1>2. Intact => Intact'
  BY DEF Intact, Compared, Heartbeat
<1>3. at \in Live /\ Noticed => Noticed'
  BY LostOnDst DEF Noticed, Compared, Heartbeat
<1>4. Untouched'
  BY QuietStep
<1> QED
  BY <1>1, <1>2, <1>3, <1>4, GuestFrame

LEMMA SpillIInv == IInv /\ Spill => IInv'
<1> SUFFICES ASSUME IInv, Spill PROVE IInv'
  OBVIOUS
<1> USE DEF Spill
<1>1. prog \notin Heartbeat
  BY DEF IInv, Untouched
<1>2. TypeOK'
  BY DEF IInv, TypeOK, GuestPC, qemus
<1>3. Intact => Intact'
  BY <1>1 DEF Intact, Compared
<1>4. Noticed => Noticed'
  BY DEF Noticed, Compared
<1>5. Untouched'
  BY <1>1, QuietStep
<1> QED
  BY <1>2, <1>3, <1>4, <1>5, GuestFrame

LEMMA CompareIInv == IInv /\ Compare => IInv'
<1> SUFFICES ASSUME IInv, Compare PROVE IInv'
  OBVIOUS
<1> USE DEF Compare
<1>1. msg' = IF Compared = "pattern" THEN "OK" ELSE "FAIL"
  BY DEF Compared
<1>2. TypeOK'
  BY <1>1 DEF IInv, TypeOK, GuestPC, qemus
<1>3. Intact => Intact'
  BY <1>1 DEF Intact, Compared
<1>4. Noticed => Noticed'
  BY <1>1 DEF Noticed, Compared
<1>5. Untouched'
  BY QuietStep
<1> QED
  BY <1>2, <1>3, <1>4, <1>5, GuestFrame

LEMMA PrintBeginsIInv == IInv /\ PrintBegins => IInv'
<1> SUFFICES ASSUME IInv, PrintBegins PROVE IInv'
  OBVIOUS
<1> USE DEF PrintBegins
<1>1. TypeOK'
  <2>1. gpc' \in GuestPC /\ torn' \in BOOLEAN
    BY DEF GuestPC
  <2> QED
    BY <2>1 DEF IInv, TypeOK, qemus
<1>2. Intact => Intact'
  BY DEF Intact, Compared
<1>3. Noticed => Noticed'
  BY DEF Noticed, Compared
<1>4. Untouched'
  BY QuietStep
<1> QED
  BY <1>1, <1>2, <1>3, <1>4, GuestFrame

LEMMA PrintEndsIInv == IInv /\ PrintEnds => IInv'
<1> SUFFICES ASSUME IInv, PrintEnds PROVE IInv'
  OBVIOUS
<1> USE DEF PrintEnds
<1>1. vm \in {"src", "dst"} /\ log \in [{"src", "dst"} -> SUBSET {"READY", "OK", "FAIL"}]
  BY DEF IInv, TypeOK, Runs
<1>2. log' \in [{"src", "dst"} -> SUBSET {"READY", "OK", "FAIL"}]
  BY <1>1 DEF IInv, TypeOK
<1>3. \A v \in {"src", "dst"} : \/ log'[v] = log[v]
                                \/ v = vm /\ ~torn /\ log'[v] = log[v] \cup {msg}
  BY <1>1
<1>4. AfterPrint \in GuestPC
  BY DEF AfterPrint, GuestPC
<1>5. TypeOK'
  BY <1>2, <1>4 DEF IInv, TypeOK, qemus
<1>6. Intact => Intact'
  <2> SUFFICES ASSUME Intact PROVE Intact'
    OBVIOUS
  <2>1. "FAIL" \notin log'["src"] \cup log'["dst"]
    BY <1>3 DEF Intact
  <2>2. gpc' \in {"spin", "spill"} /\ prog \notin Heartbeat => prog = "avx2"
    BY DEF AfterPrint, Intact
  <2>3. gpc' # "cmp"
    BY DEF AfterPrint
  <2> QED
    BY <2>1, <2>2, <2>3 DEF Intact
<1>7. at \in Live /\ Noticed => Noticed'
  <2> SUFFICES ASSUME at \in Live, Noticed PROVE Noticed'
    OBVIOUS
  <2>1. "OK" \notin log'["dst"]
    BY <1>3 DEF Noticed
  <2>2. IF prog = "avx2" THEN gpc' \in {"spin", "spill"} ELSE gpc' = "halt"
    BY LostOnDst DEF AfterPrint, Noticed, Heartbeat
  <2> QED
    BY <2>1, <2>2 DEF Noticed
<1>8. Untouched'
  <2>1. vm # "dst" => log'["dst"] = log["dst"] /\ first' = first
    BY <1>3
  <2>2. first' = "OK" => "OK" \in log'["dst"]
    BY <1>1, <1>3 DEF IInv, Untouched
  <2>3. prog \in Heartbeat => gpc' = "spin"
    BY DEF AfterPrint
  <2> QED
    BY <2>1, <2>2, <2>3 DEF IInv, Untouched, Runs
<1>9. log["dst"] \subseteq log'["dst"]
  BY <1>3
<1> QED
  BY <1>5, <1>6, <1>7, <1>8, <1>9, GuestFrame

-----------------------------------------------------------------------------
(* QEMU's migration. *)

LEMMA SwitchOverIInv == IInv /\ SwitchOver => IInv'
<1> SUFFICES ASSUME IInv, SwitchOver PROVE IInv'
  OBVIOUS
<1> USE DEF SwitchOver
<1>1. TypeOK'
  BY DEF IInv, TypeOK, GuestPC
<1>2. Owner' /\ Driven' /\ Passed'
  BY DEF IInv, Owner, Driven, Passed, TypeOK
<1>3. vm = "src" /\ at = "kept"
  BY DEF IInv, Owner, Untouched
<1>4. Untouched'
  BY <1>3 DEF IInv, Untouched
<1>5. Fate'
  BY <1>3, LivePoints DEF IInv, Fate, Intact, Compared, Live
<1> QED
  BY <1>1, <1>2, <1>4, <1>5 DEF IInv

(* Registers that are lost here were the only copy where it is Live. *)
LEMMA DstRunsIInv == IInv /\ DstRuns => IInv'
<1> SUFFICES ASSUME IInv, DstRuns PROVE IInv'
  OBVIOUS
<1> USE DEF DstRuns
<1>1. TypeOK'
  BY DEF IInv, TypeOK, GuestPC
<1>2. Owner' /\ Driven' /\ Passed'
  BY DEF IInv, Owner, Driven, Passed, TypeOK
<1>3. vm = "none" /\ at = "kept" /\ log["dst"] = {} /\ torn = (gpc = "printing")
  BY DEF IInv, TypeOK, Owner, Untouched
<1>4. Untouched'
  BY <1>3 DEF IInv, Untouched
<1>5. CASE UNCHANGED <<regs, at>>
  <2>1. Fate'
    BY <1>3, <1>5, LivePoints DEF IInv, Fate, Intact, Compared, Live
  <2> QED
    BY <1>1, <1>2, <1>4, <2>1 DEF IInv
<1>6. CASE prog \notin Heartbeat /\ regs' = "lost" /\ at' = gpc
  <2>1. Live' = Live
    BY DEF Live
  <2>2. at' # "kept"
    BY <1>6 DEF IInv, TypeOK, GuestPC
  <2>3. gpc \in Live => Noticed'
    <3>1. prog \in {"avx2", "fpsse", "scalar"}
      BY <1>6, ProgramAssumption DEF IInv, TypeOK
    <3>2. regs' = "lost" /\ at' = gpc /\ log["dst"]' = {}
      BY <1>3, <1>6 DEF IInv, TypeOK
    <3>3. /\ prog = "avx2" => Live = {"spill", "spin", "printing"}
          /\ prog = "fpsse" => Live = {"spin", "spill"}
          /\ prog = "scalar" => Live = {"spin", "cmp"}
      BY LivePoints DEF IInv, TypeOK
    <3>4. prog' = prog /\ gpc' = gpc /\ torn' = (gpc = "printing")
      BY <1>3
    <3> QED
      BY <1>6, <3>1, <3>2, <3>3, <3>4 DEF Noticed, Compared
  <2> QED
    BY <1>1, <1>2, <1>4, <1>6, <2>1, <2>2, <2>3 DEF IInv, Fate
<1> QED
  BY <1>5, <1>6

-----------------------------------------------------------------------------
(* The test, and what else leaves the guest alone. *)

LEMMA GuestUntouched ==
    ASSUME IInv, UNCHANGED <<guest, at>>
    PROVE  Untouched' /\ Fate'
  BY DEF IInv, guest, Untouched, Fate, Intact, Noticed, Compared, Live

LEMMA SrcIInv == IInv /\ (SrcCompletes \/ MigrationFails) => IInv'
<1> SUFFICES ASSUME IInv, SrcCompletes \/ MigrationFails PROVE IInv'
  OBVIOUS
<1>1. TypeOK' /\ Owner' /\ Driven' /\ Passed'
  BY DEF IInv, TypeOK, Owner, Driven, Passed, SrcCompletes, MigrationFails, guest
<1>2. Untouched' /\ Fate'
  BY GuestUntouched DEF SrcCompletes, MigrationFails
<1> QED
  BY <1>1, <1>2 DEF IInv

LEMMA TestIInv == IInv /\ (TestStep \/ TestFails) => IInv'
<1> SUFFICES ASSUME IInv, TestStep \/ TestFails PROVE IInv'
  OBVIOUS
<1> USE DEF IInv, TypeOK, Owner, Driven, Passed, guest, qemus
<1>1. CASE AwaitReady \/ MigrateIncoming \/ Migrate
  <2>1. UNCHANGED <<guest, at>>
    BY <1>1 DEF AwaitReady, MigrateIncoming, Migrate
  <2>2. TypeOK' /\ Owner' /\ Driven' /\ Passed'
    BY <1>1 DEF AwaitReady, MigrateIncoming, Migrate
  <2> QED
    BY <2>1, <2>2, GuestUntouched
<1>2. CASE PollDst \/ PollSrc \/ Verify \/ TestFails
  <2>1. UNCHANGED <<guest, qemus, at>>
    BY <1>2 DEF PollDst, PollSrc, Verify, TestFails
  <2>2. TypeOK' /\ Owner' /\ Driven' /\ Passed'
    BY <1>2 DEF PollDst, PollSrc, Verify, TestFails, Untouched
  <2> QED
    BY <2>1, <2>2, GuestUntouched
<1> QED
  BY <1>1, <1>2 DEF TestStep

LEMMA NextIInv == IInv /\ [Next]_vars => IInv'
<1> SUFFICES ASSUME IInv, [Next]_vars PROVE IInv'
  OBVIOUS
<1>1. CASE GuestStep
  BY <1>1, LoadIInv, SpinIInv, SpillIInv, CompareIInv, PrintBeginsIInv, PrintEndsIInv
     DEF GuestStep
<1>2. CASE QemuStep
  BY <1>2, SwitchOverIInv, DstRunsIInv, SrcIInv DEF QemuStep
<1>3. CASE TestStep \/ TestFails
  BY <1>3, TestIInv
<1>4. CASE UNCHANGED vars
  <2>1. UNCHANGED <<guest, qemus, hpc, at>>
    BY <1>4 DEF vars, guest, qemus
  <2>2. TypeOK' /\ Owner' /\ Driven' /\ Passed'
    BY <2>1 DEF IInv, TypeOK, Owner, Driven, Passed, guest, qemus
  <2> QED
    BY <2>1, <2>2, GuestUntouched DEF IInv
<1> QED
  BY <1>1, <1>2, <1>3, <1>4 DEF Next

-----------------------------------------------------------------------------
(* Theorems. *)

LEMMA Invariance == Spec => []IInv
  BY InitIInv, NextIInv, PTL DEF Spec

(* The guest, the two QEMUs and the test are in states that they have. *)
THEOREM TypeCorrect == Spec => []TypeOK
<1>1. IInv => TypeOK
  BY DEF IInv
<1> QED
  BY Invariance, <1>1, PTL

(* do_migration returns Ok only when the handover is over. *)
THEOREM OkMeansHandedOver == Spec => []MigratedMeansHandedOver
<1>1. IInv => MigratedMeansHandedOver
  BY DEF IInv, Owner, Driven, MigratedMeansHandedOver
<1> QED
  BY Invariance, <1>1, PTL

(***************************************************************************)
(* The verdict of a register-checking guest is right both ways: a loss of  *)
(* registers that are still to be compared never passes, and a FAIL means  *)
(* that the migration lost some.                                           *)
(***************************************************************************)
THEOREM VerdictHolds == Spec => []VerdictIsRight
<1>1. IInv => VerdictIsRight
  BY DEF IInv, Fate, Intact, Noticed, Passed, VerdictIsRight
<1> QED
  BY Invariance, <1>1, PTL
=============================================================================
