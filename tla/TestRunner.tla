----------------------------- MODULE TestRunner -----------------------------
(***************************************************************************)
(* main and run_test (main.rs) on the threads of the rayon pool, composed  *)
(* with the tap pool: each thread claims tests one after the other, a test *)
(* may take a pair of taps, runs its virtual machines and drops what it    *)
(* holds in reverse order; SIGINT may come at any moment.                  *)
(***************************************************************************)
EXTENDS Integers, Sequences, FiniteSets

CONSTANTS Jobs, Existing, Worker,   \* as in TapPool
          Test                      \* the selected tests, repetitions included

ASSUME PoolAssumption ==
    Jobs \in Nat /\ Existing \subseteq Nat /\ IsFiniteSet(Worker) /\ Worker # {}
ASSUME TestAssumption == IsFiniteSet(Test)

VARIABLES needsTaps,  \* the tests that call allocate_taps
          option, pool, held,  \* TAP_POOL and the TapPairs
          queue,      \* tests no thread has claimed
          at,         \* the test of a thread, as a set
          stage,      \* where the thread is in it
          uses,       \* the pair that the QEMUs of a thread's test are attached to
          orphans,    \* history: tests that left the QEMU of a failed spawn behind
          ok,         \* whether the body of the thread's test succeeded so far
          outcome,    \* the collected results
          ranOk,      \* history: tests whose body ran to its end
          shutdown,   \* SHUTDOWN
          exit        \* how main ended

taps == <<option, pool, held>>
vars == <<needsTaps, option, pool, held, queue, at, stage, uses, orphans, ok,
          outcome, ranOk, shutdown, exit>>

Pool == INSTANCE TapPool

Stages == {"idle", "claimed", "alloc", "spawn", "body", "dropVm", "dropTaps", "done"}

TypeOK ==
    /\ Pool!TypeOK
    /\ needsTaps \subseteq Test /\ queue \subseteq Test
    /\ at \in [Worker -> SUBSET Test]
    /\ \A w \in Worker : stage[w] # "idle" <=> Cardinality(at[w]) = 1
    /\ stage \in [Worker -> Stages]
    /\ uses \in [Worker -> SUBSET Nat] /\ orphans \subseteq Test
    /\ ok \in [Worker -> BOOLEAN]
    /\ outcome \in [Test -> {"none", "Pass", "Fail"}]
    /\ ranOk \subseteq Test
    /\ shutdown \in BOOLEAN
    /\ exit \in {"running", "Ok", "Err", "Panic"}

Init ==
    /\ Pool!Init
    /\ needsTaps \in SUBSET Test /\ queue = Test
    /\ at = [w \in Worker |-> {}] /\ stage = [w \in Worker |-> "idle"]
    /\ uses = [w \in Worker |-> {}] /\ orphans = {}
    /\ ok = [w \in Worker |-> TRUE]
    /\ outcome = [t \in Test |-> "none"] /\ ranOk = {}
    /\ shutdown = FALSE /\ exit = "running"

Goto(w, to) == stage' = [stage EXCEPT ![w] = to]

(***************************************************************************)
(* par_iter: an idle thread takes any test that nobody took.  (rayon gives *)
(* a thread several at once and lets idle ones steal; which thread runs    *)
(* which test, and in what order, is left open here.)                      *)
(***************************************************************************)
Claim(w) ==
    /\ stage[w] = "idle"
    /\ \E t \in queue :
          /\ queue' = queue \ {t}
          /\ at' = [at EXCEPT ![w] = {t}]
    /\ Goto(w, "claimed")
    /\ ok' = [ok EXCEPT ![w] = TRUE]
    /\ UNCHANGED <<needsTaps, taps, uses, orphans, outcome, ranOk, shutdown, exit>>

(* Fault: an interrupted test is reported as passed. *)
Start_PassesInterrupted(w) ==
    /\ stage[w] = "claimed"
    /\ \/ shutdown /\ Goto(w, "done") /\ UNCHANGED ok
       \/ ~shutdown /\ at[w] \subseteq needsTaps /\ Goto(w, "alloc") /\ UNCHANGED ok
       \/ ~shutdown /\ ~(at[w] \subseteq needsTaps) /\ Goto(w, "spawn") /\ UNCHANGED ok
    /\ UNCHANGED <<needsTaps, taps, queue, at, uses, orphans, outcome, ranOk, shutdown, exit>>

(* Fault: a thread stops at an interruption without a result. *)
Start_Stops(w) ==
    /\ stage[w] = "claimed" /\ ~shutdown
    /\ Goto(w, IF at[w] \subseteq needsTaps THEN "alloc" ELSE "spawn")
    /\ UNCHANGED <<needsTaps, taps, queue, at, uses, orphans, ok, outcome, ranOk, shutdown, exit>>

(* run_test: after SIGINT a claimed test fails without being run. *)
Start(w) ==
    /\ stage[w] = "claimed"
    /\ \/ shutdown /\ Goto(w, "done") /\ ok' = [ok EXCEPT ![w] = FALSE]
       \/ ~shutdown /\ at[w] \subseteq needsTaps /\ Goto(w, "alloc") /\ UNCHANGED ok
       \/ ~shutdown /\ ~(at[w] \subseteq needsTaps) /\ Goto(w, "spawn") /\ UNCHANGED ok
    /\ UNCHANGED <<needsTaps, taps, queue, at, uses, orphans, outcome, ranOk, shutdown, exit>>

(* The test allocates its taps; this or a step before it may end the test. *)
Alloc(w) ==
    /\ stage[w] = "alloc"
    /\ \/ UNCHANGED taps /\ Goto(w, "done") /\ ok' = [ok EXCEPT ![w] = FALSE]
       \/ Pool!Allocate(w) /\ Goto(w, "spawn") /\ UNCHANGED ok
       \/ Pool!AllocateFails(w) /\ Goto(w, "done") /\ ok' = [ok EXCEPT ![w] = FALSE]
    /\ UNCHANGED <<needsTaps, queue, at, uses, orphans, outcome, ranOk, shutdown, exit>>

(* QemuProcess::spawn; when it fails, the child may be left behind. *)
Spawn(w) ==
    /\ stage[w] = "spawn"
    /\ \/ /\ Goto(w, "body") /\ uses' = [uses EXCEPT ![w] = held[w]]
          /\ UNCHANGED <<orphans, ok>>
       \/ /\ Goto(w, "dropTaps") /\ ok' = [ok EXCEPT ![w] = FALSE]
          /\ orphans' \in {orphans, orphans \cup at[w]}
          /\ UNCHANGED uses
    /\ UNCHANGED <<needsTaps, taps, queue, at, outcome, ranOk, shutdown, exit>>

(***************************************************************************)
(* The body succeeds, or some step of it fails or is interrupted; that     *)
(* step may be the spawn of the second QEMU of a migration test.           *)
(***************************************************************************)
Body(w) ==
    /\ stage[w] = "body" /\ Goto(w, "dropVm")
    /\ \/ ranOk' = ranOk \cup at[w] /\ UNCHANGED <<ok, orphans>>
       \/ /\ ok' = [ok EXCEPT ![w] = FALSE]
          /\ orphans' \in {orphans, orphans \cup at[w]}
          /\ UNCHANGED ranOk
    /\ UNCHANGED <<needsTaps, taps, queue, at, uses, outcome, shutdown, exit>>

(* Fault: the taps are declared after the virtual machines and dropped first. *)
DropVm_TapsFirst(w) ==
    /\ stage[w] = "dropVm" /\ Goto(w, "dropTaps")
    /\ IF held[w] = {} THEN UNCHANGED taps ELSE Pool!Release(w)
    /\ UNCHANGED <<needsTaps, queue, at, uses, orphans, ok, outcome, ranOk, shutdown, exit>>

(* Drop for QemuProcess: the QEMUs are gone when it returns. *)
DropVm(w) ==
    /\ stage[w] = "dropVm" /\ Goto(w, "dropTaps")
    /\ uses' = [uses EXCEPT ![w] = {}]
    /\ UNCHANGED <<needsTaps, taps, queue, at, orphans, ok, outcome, ranOk, shutdown, exit>>

(* Fault: an error path forgets the pair. *)
DropTaps_NotOnError(w) ==
    /\ stage[w] = "dropTaps" /\ Goto(w, "done")
    /\ IF held[w] = {} \/ ~ok[w] THEN UNCHANGED taps ELSE Pool!Release(w)
    /\ UNCHANGED <<needsTaps, queue, at, uses, orphans, ok, outcome, ranOk, shutdown, exit>>

(* Drop for TapPair, which was declared before the QEMUs. *)
DropTaps(w) ==
    /\ stage[w] = "dropTaps" /\ Goto(w, "done")
    /\ IF held[w] = {} THEN UNCHANGED taps ELSE Pool!Release(w)
    /\ UNCHANGED <<needsTaps, queue, at, uses, orphans, ok, outcome, ranOk, shutdown, exit>>

(* Fault: a thread that has reported its test still has it. *)
Record_Keeps(w) ==
    /\ stage[w] = "done" /\ Goto(w, "idle")
    /\ outcome' = [t \in Test |-> IF t \notin at[w] THEN outcome[t]
                                  ELSE IF ok[w] THEN "Pass" ELSE "Fail"]
    /\ UNCHANGED <<needsTaps, taps, queue, at, uses, orphans, ok, ranOk, shutdown, exit>>

(* run_test returns its TestResult, and the thread is free. *)
Record(w) ==
    /\ stage[w] = "done" /\ Goto(w, "idle")
    /\ outcome' = [t \in Test |-> IF t \notin at[w] THEN outcome[t]
                                  ELSE IF ok[w] THEN "Pass" ELSE "Fail"]
    /\ at' = [at EXCEPT ![w] = {}]
    /\ UNCHANGED <<needsTaps, taps, queue, uses, orphans, ok, ranOk, shutdown, exit>>

(***************************************************************************)
(* collect() has all results: main reports and returns.  write_junit comes *)
(* before the failures are counted and panics if it cannot write.          *)
(***************************************************************************)
Finish ==
    /\ exit = "running" /\ queue = {} /\ \A w \in Worker : stage[w] = "idle"
    /\ \/ exit' = "Panic"
       \/ exit' = IF \E t \in Test : outcome[t] = "Fail" THEN "Err" ELSE "Ok"
    /\ UNCHANGED <<needsTaps, taps, queue, at, stage, uses, orphans, ok, outcome, ranOk, shutdown>>

Sigint ==
    /\ ~shutdown /\ exit = "running" /\ shutdown' = TRUE
    /\ UNCHANGED <<needsTaps, taps, queue, at, stage, uses, orphans, ok, outcome, ranOk, exit>>

(* What a thread does around the body of a test. *)
Harness(w) ==
    \/ Claim(w) \/ Start(w) \/ Alloc(w) \/ Spawn(w)
    \/ DropVm(w) \/ DropTaps(w) \/ Record(w)

Step(w) == Harness(w) \/ Body(w)

Next == Finish \/ Sigint \/ \E w \in Worker : Step(w)

Spec == Init /\ [][Next]_vars

(***************************************************************************)
(* Threads run, and what the harness does around a body comes to its end:  *)
(* spawn has a deadline for each of its waits, Drop kills what does not    *)
(* leave (QemuProcess).  Nothing is assumed of bodies: a poll has a        *)
(* deadline, but an ssh session that is established has none.              *)
(***************************************************************************)
FairSpec == Spec /\ WF_vars(Finish) /\ \A w \in Worker : WF_vars(Harness(w))

-----------------------------------------------------------------------------
(* Properties. *)

(* A test that failed, reported already or still with its thread. *)
Failed(t) == outcome[t] = "Fail" \/ \E w \in Worker : t \in at[w] /\ ~ok[w]

(***************************************************************************)
(* The pair of a running test's QEMUs is neither in the pool nor with      *)
(* another test: the TapPair outlives every QemuProcess that uses it.  A   *)
(* QEMU that no QemuProcess owns, which may stay on a pair that was given  *)
(* back, was left by a failed spawn, and its test fails.                   *)
(***************************************************************************)
TapsInUseAreHeld ==
    /\ \A w \in Worker : /\ uses[w] \subseteq held[w]
                         /\ uses[w] \cap Pool!Free = {}
                         /\ \A u \in Worker \ {w} : uses[w] \cap held[u] = {}
    /\ \A t \in orphans : Failed(t)

(***************************************************************************)
(* The program exits with success only if every selected test was run and  *)
(* its body succeeded, also when SIGINT came in between; with failure only *)
(* if one was not.  (A report that cannot be written ends in a panic.)     *)
(***************************************************************************)
ExitIsHonest ==
    /\ exit = "Ok" => ranOk = Test
    /\ exit = "Err" => ranOk # Test

(***************************************************************************)
(* At the end every thread has given back what it held: all pairs are in   *)
(* the pool again and no QEMU of a QemuProcess is left.  If the run was a  *)
(* success there is no QEMU left at all.                                   *)
(***************************************************************************)
NothingLeft ==
    exit # "running" =>
        /\ \A w \in Worker : held[w] = {} /\ uses[w] = {}
        /\ option = "Some" => Pool!Free = Pool!Valid
        /\ exit = "Ok" => orphans = {}

(***************************************************************************)
(* If no test body hangs, the run comes to its end, interrupted or not:    *)
(* whatever fails, no thread is left with a test or waiting for one.       *)
(***************************************************************************)
RunEnds == (\A w \in Worker : []<>(stage[w] # "body")) => <>(exit # "running")
=============================================================================
