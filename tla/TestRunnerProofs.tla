-------------------------- MODULE TestRunnerProofs --------------------------
(***************************************************************************)
(* Taps outlive the QEMUs that use them, the exit code is honest and       *)
(* nothing is left behind, for any number of threads, tests and devices.   *)
(*                                                                         *)
(* The threads use the pool only by its operations, so what TapPoolProofs  *)
(* shows of the pool alone holds of the pool inside the runner.            *)
(***************************************************************************)
EXTENDS TestRunner, FiniteSetTheorems, TLAPS

PoolThms == INSTANCE TapPoolProofs

Early == {"claimed", "alloc", "spawn", "body"}   \* the body has not ended
Late == {"dropVm", "dropTaps", "done"}

Shape ==
    /\ needsTaps \subseteq Test /\ queue \subseteq Test
    /\ at \in [Worker -> SUBSET Test] /\ stage \in [Worker -> Stages]
    /\ uses \in [Worker -> SUBSET Nat] /\ orphans \subseteq Test
    /\ ok \in [Worker -> BOOLEAN]
    /\ outcome \in [Test -> {"none", "Pass", "Fail"}]
    /\ ranOk \subseteq Test
    /\ \A w \in Worker :
          IF stage[w] = "idle" THEN at[w] = {} ELSE \E t \in Test : at[w] = {t}

(* A test is in the queue, with one thread, or has a result. *)
Placed ==
    /\ \A w \in Worker : at[w] \cap queue = {}
    /\ \A u, w \in Worker : u # w => at[u] \cap at[w] = {}
    /\ \A t \in Test : outcome[t] = "none" <=> t \in queue \/ \E w \in Worker : t \in at[w]

(* A thread has a pair and QEMUs only between the operations for them. *)
Holding ==
    \A w \in Worker :
        /\ held[w] # {} => stage[w] \in {"spawn", "body", "dropVm", "dropTaps"}
        /\ uses[w] = IF stage[w] \in {"body", "dropVm"} THEN held[w] ELSE {}

(* What a thread and a result say of a test is what became of its body. *)
Honest ==
    /\ \A w \in Worker : \A t \in at[w] :
          /\ stage[w] \in Early => ok[w] = TRUE /\ t \notin ranOk /\ t \notin orphans
          /\ stage[w] \in Late => (ok[w] = TRUE <=> t \in ranOk)
    /\ \A t \in queue : t \notin ranOk /\ t \notin orphans
    /\ \A t \in ranOk : t \notin orphans
    /\ \A t \in Test : /\ outcome[t] = "Pass" => t \in ranOk
                       /\ outcome[t] = "Fail" => t \notin ranOk

(* main returns after the last test, by the results. *)
Ended ==
    /\ shutdown \in BOOLEAN /\ exit \in {"running", "Ok", "Err", "Panic"}
    /\ exit # "running" => queue = {} /\ \A w \in Worker : stage[w] = "idle"
    /\ exit = "Ok" => \A t \in Test : outcome[t] # "Fail"
    /\ exit = "Err" => \E t \in Test : outcome[t] = "Fail"

IInv == Shape /\ Placed /\ Holding /\ Honest /\ Ended

-----------------------------------------------------------------------------
(* The pool. *)

(* The assumptions of TapPoolProofs, and its names for the pool's operations. *)
LEMMA PoolNames ==
    /\ Jobs \in Nat /\ Existing \subseteq Nat
    /\ PoolThms!IsFiniteSet(Worker) /\ Worker # {}
    /\ Pool!Spec <=> PoolThms!Spec
<1>1. PoolThms!IsFiniteSet(Worker)
  BY PoolAssumption DEF PoolThms!IsFiniteSet, IsFiniteSet
<1>2. Pool!Init <=> PoolThms!Init
  BY DEF Pool!Init, PoolThms!Init
<1>3. [Pool!Next]_(Pool!vars) <=> [PoolThms!Next]_(PoolThms!vars)
  BY DEF Pool!Next, PoolThms!Next, Pool!vars, PoolThms!vars, Pool!Allocate,
         PoolThms!Allocate, Pool!AllocateFails, PoolThms!AllocateFails, Pool!Release,
         PoolThms!Release, Pool!Opened, PoolThms!Opened, Pool!FullPools,
         PoolThms!FullPools, Pool!Valid, PoolThms!Valid, Pool!Cardinality,
         PoolThms!Cardinality
<1> QED
  BY <1>1, <1>2, <1>3, PoolAssumption, PTL DEF Pool!Spec, PoolThms!Spec

LEMMA StepUsesPool ==
    ASSUME NEW w \in Worker, Step(w)
    PROVE  [Pool!Next]_(Pool!vars)
<1>1. \/ UNCHANGED taps \/ Pool!Allocate(w) \/ Pool!AllocateFails(w) \/ Pool!Release(w)
  BY Zenon DEF Step, Harness, Claim, Start, Alloc, Spawn, Body, DropVm, DropTaps, Record
<1> QED
  BY <1>1 DEF taps, Pool!vars, Pool!Next

(* The threads touch TAP_POOL only in allocate_taps and in Drop for TapPair. *)
LEMMA RunnerUsesPool == Spec => Pool!Spec
<1>1. Init => Pool!Init
  BY DEF Init
<1>2. [Next]_vars => [Pool!Next]_(Pool!vars)
  <2>1. ASSUME Finish \/ Sigint \/ UNCHANGED vars
        PROVE  [Pool!Next]_(Pool!vars)
    BY <2>1 DEF Finish, Sigint, vars, taps, Pool!vars
  <2> QED
    BY <2>1, StepUsesPool DEF Next
<1> QED
  BY <1>1, <1>2, PTL DEF Spec, Pool!Spec

(* What TapPoolProofs shows of the pool, in the names of this module. *)
PoolInv ==
    /\ Pool!TypeOK /\ Pool!Conserved

LEMMA PoolInvariance == Spec => []PoolInv
<1>1. PoolThms!TypeOK /\ PoolThms!Conserved => PoolInv
  BY DEF PoolInv, Pool!TypeOK, PoolThms!TypeOK, Pool!Conserved, PoolThms!Conserved,
         Pool!Valid, PoolThms!Valid, Pool!Free, PoolThms!Free
<1>2. PoolThms!Spec => []PoolThms!TypeOK /\ []PoolThms!Conserved
  BY PoolNames, PoolThms!TypeCorrect, PoolThms!PairsAreConserved
<1> QED
  BY RunnerUsesPool, PoolNames, <1>1, <1>2, PTL

-----------------------------------------------------------------------------
(* The inductive invariant. *)

(* A step of the pool for one thread leaves the pairs of the others alone. *)
LEMMA PoolFrame ==
    ASSUME PoolInv, NEW w \in Worker,
           \/ UNCHANGED taps \/ Pool!Allocate(w) \/ Pool!AllocateFails(w) \/ Pool!Release(w)
    PROVE  /\ held \in [Worker -> SUBSET Nat]
           /\ \A u \in Worker : u # w => held'[u] = held[u]
           /\ Pool!Release(w) => held'[w] = {}
           /\ Pool!AllocateFails(w) => held'[w] = held[w]
<1>1. held \in [Worker -> SUBSET Nat]
  BY DEF PoolInv, Pool!TypeOK, Pool!Valid
<1> QED
  BY <1>1 DEF taps, Pool!Allocate, Pool!AllocateFails, Pool!Release

LEMMA InitIInv == Init => IInv
<1> SUFFICES ASSUME Init PROVE IInv
  OBVIOUS
<1>1. Shape /\ Placed /\ Honest /\ Ended
  BY DEF Init, Shape, Stages, Placed, Honest, Early, Late, Ended
<1>2. Holding
  BY DEF Init, Pool!Init, Holding
<1> QED
  BY <1>1, <1>2 DEF IInv

LEMMA ClaimIInv ==
    ASSUME IInv, NEW w \in Worker, Claim(w)
    PROVE  IInv'
<1>1. PICK t \in queue : queue' = queue \ {t} /\ at' = [at EXCEPT ![w] = {t}]
  BY DEF Claim
<1>2. /\ stage[w] = "idle" /\ at[w] = {} /\ t \in Test
      /\ stage' = [stage EXCEPT ![w] = "claimed"] /\ ok' = [ok EXCEPT ![w] = TRUE]
      /\ UNCHANGED <<needsTaps, option, pool, held, uses, orphans, outcome, ranOk,
                     shutdown, exit>>
  BY DEF Claim, Goto, taps, IInv, Shape
<1>3. Shape'
  BY <1>1, <1>2 DEF IInv, Shape, Stages
<1>4. Placed'
  BY <1>1, <1>2 DEF IInv, Shape, Placed
<1>5. Holding'
  BY <1>2 DEF IInv, Shape, Holding
<1>6. Honest'
  BY <1>1, <1>2 DEF IInv, Shape, Honest, Early, Late
<1>7. Ended'
  BY <1>1, <1>2 DEF IInv, Ended
<1> QED
  BY <1>3, <1>4, <1>5, <1>6, <1>7 DEF IInv

(***************************************************************************)
(* Between the claim of a test and its result only the thread's own state  *)
(* changes: where it is, what it has, and what became of the body.         *)
(***************************************************************************)
OwnFrame(w, t) ==
    /\ at[w] = {t} /\ stage[w] # "idle" /\ stage'[w] # "idle"
    /\ stage' \in [Worker -> Stages] /\ ok' \in [Worker -> BOOLEAN]
    /\ uses' \in [Worker -> SUBSET Nat] /\ ranOk' \subseteq Test /\ orphans' \subseteq Test
    /\ UNCHANGED <<needsTaps, queue, at, outcome, shutdown, exit>>
    /\ \A u \in Worker : u # w => /\ stage'[u] = stage[u] /\ ok'[u] = ok[u]
                                  /\ uses'[u] = uses[u] /\ held'[u] = held[u]
    /\ \A x \in Test : x # t => /\ x \in ranOk' <=> x \in ranOk
                                /\ x \in orphans' <=> x \in orphans

OwnHolding(w) ==
    /\ held[w] # {} => stage[w] \in {"spawn", "body", "dropVm", "dropTaps"}
    /\ uses[w] = IF stage[w] \in {"body", "dropVm"} THEN held[w] ELSE {}

OwnHonest(w, t) ==
    /\ stage[w] \in Early => ok[w] = TRUE /\ t \notin ranOk /\ t \notin orphans
    /\ stage[w] \in Late => (ok[w] = TRUE <=> t \in ranOk)
    /\ t \in ranOk => t \notin orphans

LEMMA OwnStep ==
    ASSUME IInv, NEW w \in Worker, NEW t \in Test,
           OwnFrame(w, t), OwnHolding(w)', OwnHonest(w, t)'
    PROVE  IInv'
<1>1. Shape'
  BY DEF IInv, Shape, OwnFrame
<1>2. Placed'
  BY DEF IInv, Placed, OwnFrame
<1>3. Holding'
  BY DEF IInv, Holding, OwnFrame, OwnHolding
<1>4. Honest'
  <2>1. t \notin queue /\ outcome[t] = "none" /\ \A u \in Worker : u # w => t \notin at[u]
    BY DEF IInv, Placed, OwnFrame
  <2>2. at' = at /\ at \in [Worker -> SUBSET Test] /\ queue' = queue /\ queue \subseteq Test
    BY DEF IInv, Shape, OwnFrame
  <2>3. ASSUME NEW u \in Worker, NEW x \in at[u]
        PROVE  /\ stage'[u] \in Early => ok'[u] = TRUE /\ x \notin ranOk' /\ x \notin orphans'
               /\ stage'[u] \in Late => (ok'[u] = TRUE <=> x \in ranOk')
    <3>1. CASE u = w
      BY <3>1 DEF OwnFrame, OwnHonest
    <3>2. CASE u # w
      <4>1. x # t /\ x \in Test
        BY <2>1, <2>2, <3>2
      <4> QED
        BY <3>2, <4>1 DEF IInv, Honest, OwnFrame
    <3> QED
      BY <3>1, <3>2
  <2>4. \A x \in queue : x \notin ranOk' /\ x \notin orphans'
    BY <2>1, <2>2 DEF IInv, Honest, OwnFrame
  <2>5. \A x \in ranOk' : x \notin orphans'
    BY DEF IInv, Honest, OwnFrame, OwnHonest
  <2>6. \A x \in Test : /\ outcome'[x] = "Pass" => x \in ranOk'
                        /\ outcome'[x] = "Fail" => x \notin ranOk'
    BY <2>1 DEF IInv, Honest, OwnFrame
  <2> QED
    BY <2>2, <2>3, <2>4, <2>5, <2>6 DEF Honest
<1>5. Ended'
  BY DEF IInv, Ended, OwnFrame
<1> QED
  BY <1>1, <1>2, <1>3, <1>4, <1>5 DEF IInv

LEMMA OwnStepIInv ==
    ASSUME IInv, PoolInv, PoolInv', NEW w \in Worker,
           Start(w) \/ Alloc(w) \/ Spawn(w) \/ Body(w) \/ DropVm(w) \/ DropTaps(w)
    PROVE  IInv'
<1>1. stage[w] # "idle"
  BY DEF Start, Alloc, Spawn, Body, DropVm, DropTaps
<1>2. PICK t \in Test : at[w] = {t}
  BY <1>1 DEF IInv, Shape
<1>3. /\ Shape /\ OwnHolding(w) /\ OwnHonest(w, t)
      /\ held \in [Worker -> SUBSET Nat] /\ held' \in [Worker -> SUBSET Nat]
  BY <1>2 DEF IInv, Holding, OwnHolding, Honest, OwnHonest, PoolInv, Pool!TypeOK, Pool!Valid
<1> USE DEF Stages, Early, Late
<1>4. CASE Start(w)
  <2>1. OwnFrame(w, t)
    BY <1>1, <1>2, <1>3, <1>4 DEF Start, Goto, taps, Shape, OwnFrame
  <2>2. OwnHolding(w)' /\ OwnHonest(w, t)'
    BY <1>2, <1>3, <1>4 DEF Start, Goto, taps, Shape, OwnHolding, OwnHonest
  <2> QED
    BY <2>1, <2>2, OwnStep
<1>5. CASE Alloc(w)
  <2>1. /\ \A u \in Worker : u # w => held'[u] = held[u]
        /\ Pool!AllocateFails(w) => held'[w] = held[w]
    BY <1>5, PoolFrame DEF Alloc
  <2>2. OwnFrame(w, t)
    BY <1>1, <1>2, <1>3, <1>5, <2>1 DEF Alloc, Goto, Shape, OwnFrame
  <2>3. OwnHolding(w)' /\ OwnHonest(w, t)'
    BY <1>2, <1>3, <1>5, <2>1 DEF Alloc, Goto, taps, Shape, OwnHolding, OwnHonest
  <2> QED
    BY <2>2, <2>3, OwnStep
<1>6. CASE Spawn(w)
  <2>1. OwnFrame(w, t)
    BY <1>1, <1>2, <1>3, <1>6 DEF Spawn, Goto, taps, Shape, OwnFrame
  <2>2. OwnHolding(w)' /\ OwnHonest(w, t)'
    BY <1>2, <1>3, <1>6 DEF Spawn, Goto, taps, Shape, OwnHolding, OwnHonest
  <2> QED
    BY <2>1, <2>2, OwnStep
<1>7. CASE Body(w)
  <2>1. OwnFrame(w, t)
    BY <1>1, <1>2, <1>3, <1>7 DEF Body, Goto, taps, Shape, OwnFrame
  <2>2. OwnHolding(w)' /\ OwnHonest(w, t)'
    BY <1>2, <1>3, <1>7 DEF Body, Goto, taps, Shape, OwnHolding, OwnHonest
  <2> QED
    BY <2>1, <2>2, OwnStep
<1>8. CASE DropVm(w)
  <2>1. OwnFrame(w, t)
    BY <1>1, <1>2, <1>3, <1>8 DEF DropVm, Goto, taps, Shape, OwnFrame
  <2>2. OwnHolding(w)' /\ OwnHonest(w, t)'
    BY <1>2, <1>3, <1>8 DEF DropVm, Goto, taps, Shape, OwnHolding, OwnHonest
  <2> QED
    BY <2>1, <2>2, OwnStep
<1>9. CASE DropTaps(w)
  <2>1. /\ \A u \in Worker : u # w => held'[u] = held[u]
        /\ held'[w] = {}
    BY <1>3, <1>9, PoolFrame DEF DropTaps, taps
  <2>2. OwnFrame(w, t)
    BY <1>1, <1>2, <1>3, <1>9, <2>1 DEF DropTaps, Goto, Shape, OwnFrame
  <2>3. OwnHolding(w)' /\ OwnHonest(w, t)'
    BY <1>2, <1>3, <1>9, <2>1 DEF DropTaps, Goto, Shape, OwnHolding, OwnHonest
  <2> QED
    BY <2>2, <2>3, OwnStep
<1> QED
  BY <1>4, <1>5, <1>6, <1>7, <1>8, <1>9

LEMMA RecordIInv ==
    ASSUME IInv, NEW w \in Worker, Record(w)
    PROVE  IInv'
<1>1. PICK t \in Test : at[w] = {t}
  BY DEF Record, IInv, Shape
<1>2. /\ stage[w] = "done" /\ stage' = [stage EXCEPT ![w] = "idle"]
      /\ at' = [at EXCEPT ![w] = {}]
      /\ outcome' = [outcome EXCEPT ![t] = IF ok[w] THEN "Pass" ELSE "Fail"]
      /\ UNCHANGED <<needsTaps, option, pool, held, queue, uses, orphans, ok, ranOk,
                     shutdown, exit>>
  BY <1>1 DEF Record, Goto, taps, IInv, Shape
<1>3. /\ t \notin queue /\ \A u \in Worker : u # w => t \notin at[u]
      /\ ok[w] = TRUE <=> t \in ranOk
  BY <1>1, <1>2 DEF IInv, Placed, Honest, Late
<1>4. Shape'
  BY <1>1, <1>2 DEF IInv, Shape, Stages
<1>5. Placed'
  BY <1>1, <1>2, <1>3 DEF IInv, Shape, Placed
<1>6. Holding'
  BY <1>2 DEF IInv, Shape, Holding
<1>7. Honest'
  <2>1. ASSUME NEW u \in Worker, NEW x \in at'[u]
        PROVE  u # w /\ x \in at[u] /\ stage'[u] = stage[u]
    BY <1>2, <2>1 DEF IInv, Shape
  <2>2. \A x \in Test : /\ outcome'[x] = "Pass" => x \in ranOk'
                        /\ outcome'[x] = "Fail" => x \notin ranOk'
    BY <1>2, <1>3 DEF IInv, Shape, Honest
  <2> QED
    BY <1>2, <2>1, <2>2 DEF IInv, Honest
<1>8. Ended'
  BY <1>2 DEF IInv, Ended
<1> QED
  BY <1>4, <1>5, <1>6, <1>7, <1>8 DEF IInv

LEMMA FinishIInv ==
    ASSUME IInv, Finish
    PROVE  IInv'
<1>1. /\ UNCHANGED <<needsTaps, option, pool, held, queue, at, stage, uses, orphans, ok,
                     outcome, ranOk, shutdown>>
      /\ queue = {} /\ \A w \in Worker : stage[w] = "idle"
      /\ \/ exit' = "Panic"
         \/ exit' = IF \E t \in Test : outcome[t] = "Fail" THEN "Err" ELSE "Ok"
  BY DEF Finish, taps
<1>2. Shape' /\ Placed' /\ Holding' /\ Honest'
  BY <1>1 DEF IInv, Shape, Placed, Holding, Honest
<1>3. Ended'
  BY <1>1 DEF IInv, Ended
<1> QED
  BY <1>2, <1>3 DEF IInv

LEMMA NextIInv == IInv /\ PoolInv /\ PoolInv' /\ [Next]_vars => IInv'
<1> SUFFICES ASSUME IInv, PoolInv, PoolInv', [Next]_vars PROVE IInv'
  OBVIOUS
<1>1. ASSUME NEW w \in Worker, Step(w)
      PROVE  IInv'
  BY <1>1, ClaimIInv, OwnStepIInv, RecordIInv DEF Step, Harness
<1>2. CASE Finish
  BY <1>2, FinishIInv
<1>3. CASE Sigint \/ UNCHANGED vars
  <2>1. UNCHANGED <<needsTaps, held, queue, at, stage, uses, orphans, ok, outcome,
                    ranOk, exit>>
    BY <1>3 DEF Sigint, vars, taps
  <2>2. shutdown' \in BOOLEAN
    BY <1>3 DEF Sigint, vars, IInv, Ended
  <2> QED
    BY <2>1, <2>2 DEF IInv, Shape, Placed, Holding, Honest, Ended
<1> QED
  BY <1>1, <1>2, <1>3 DEF Next

(* On every thread the inductive invariant holds, together with the pool's. *)
THEOREM Invariance == Spec => [](IInv /\ PoolInv)
  BY InitIInv, NextIInv, PoolInvariance, PTL DEF Spec

-----------------------------------------------------------------------------
(* Theorems. *)

(* The threads' state is well formed: a thread has one test unless it is idle. *)
THEOREM TypeCorrect == Spec => []TypeOK
<1>1. IInv /\ PoolInv => TypeOK
  <2> SUFFICES ASSUME IInv, PoolInv PROVE TypeOK
    OBVIOUS
  <2>1. \A w \in Worker : stage[w] # "idle" <=> Cardinality(at[w]) = 1
    <3> SUFFICES ASSUME NEW w \in Worker
                 PROVE  stage[w] # "idle" <=> Cardinality(at[w]) = 1
      OBVIOUS
    <3>1. CASE stage[w] = "idle"
      <4>1. at[w] = {}
        BY <3>1 DEF IInv, Shape
      <4> QED
        BY <3>1, <4>1, FS_EmptySet
    <3>2. CASE stage[w] # "idle"
      <4>1. PICK t \in Test : at[w] = {t}
        BY <3>2 DEF IInv, Shape
      <4> QED
        BY <3>2, <4>1, FS_Singleton
    <3> QED
      BY <3>1, <3>2
  <2> QED
    BY <2>1 DEF IInv, Shape, Ended, PoolInv, TypeOK
<1> QED
  BY Invariance, <1>1, PTL

(***************************************************************************)
(* A TapPair outlives every QemuProcess that uses it, on every path out of *)
(* a test: while one lives, its pair is neither in the pool nor with       *)
(* another test.  A QEMU that no QemuProcess owns may outlive it; then its *)
(* spawn failed, and so did the test.                                      *)
(***************************************************************************)
THEOREM TapsOutliveQemuProcesses == Spec => []TapsInUseAreHeld
<1>1. IInv /\ PoolInv => TapsInUseAreHeld
  <2> SUFFICES ASSUME IInv, PoolInv PROVE TapsInUseAreHeld
    OBVIOUS
  <2>1. ASSUME NEW w \in Worker
        PROVE  /\ uses[w] \subseteq held[w]
               /\ uses[w] \cap Pool!Free = {}
               /\ \A u \in Worker \ {w} : uses[w] \cap held[u] = {}
    <3>1. uses[w] \subseteq held[w]
      BY DEF IInv, Holding
    <3> QED
      BY <3>1 DEF PoolInv, Pool!Conserved
  <2>2. ASSUME NEW t \in orphans
        PROVE  Failed(t)
    <3>1. t \in Test /\ t \notin queue /\ t \notin ranOk
      BY DEF IInv, Shape, Honest
    <3>2. CASE \E w \in Worker : t \in at[w]
      <4>1. PICK w \in Worker : t \in at[w]
        BY <3>2
      <4>2. stage[w] \in Late
        BY <4>1 DEF IInv, Shape, Honest, Stages, Early, Late
      <4> QED
        BY <3>1, <4>1, <4>2 DEF IInv, Honest, Failed
    <3>3. CASE \A w \in Worker : t \notin at[w]
      BY <3>1, <3>3 DEF IInv, Shape, Placed, Honest, Failed
    <3> QED
      BY <3>2, <3>3
  <2> QED
    BY <2>1, <2>2 DEF TapsInUseAreHeld
<1> QED
  BY Invariance, <1>1, PTL

(* At the end each test has a result, and it is what became of its body. *)
LEMMA AllRan == ASSUME IInv, exit = "Ok" PROVE ranOk = Test
<1>1. \A w \in Worker : at[w] = {}
  BY DEF IInv, Ended, Shape
<1>2. \A t \in Test : outcome[t] # "none" /\ outcome[t] # "Fail"
  BY <1>1 DEF IInv, Ended, Placed
<1> QED
  BY <1>2 DEF IInv, Shape, Honest

(***************************************************************************)
(* main returns success only if the body of every selected test ran to its *)
(* end, also when SIGINT came in between, and failure only if one did not. *)
(***************************************************************************)
THEOREM ExitCodeIsHonest == Spec => []ExitIsHonest
<1>1. IInv => ExitIsHonest
  <2> SUFFICES ASSUME IInv PROVE ExitIsHonest
    OBVIOUS
  <2>1. exit = "Err" => ranOk # Test
    BY DEF IInv, Ended, Honest
  <2> QED
    BY <2>1, AllRan DEF ExitIsHonest
<1> QED
  BY Invariance, <1>1, PTL

(***************************************************************************)
(* When main returns all pairs are in the pool and no QEMU of a            *)
(* QemuProcess is left; after a success no QEMU at all.                    *)
(***************************************************************************)
THEOREM AllIsGivenBack == Spec => []NothingLeft
<1>1. IInv /\ PoolInv => NothingLeft
  <2> SUFFICES ASSUME IInv, PoolInv, exit # "running"
               PROVE  /\ \A w \in Worker : held[w] = {} /\ uses[w] = {}
                      /\ option = "Some" => Pool!Free = Pool!Valid
                      /\ exit = "Ok" => orphans = {}
    BY DEF NothingLeft
  <2>1. \A w \in Worker : held[w] = {} /\ uses[w] = {}
    BY DEF IInv, Ended, Holding
  <2>2. option = "Some" => Pool!Free = Pool!Valid
    BY <2>1 DEF PoolInv, Pool!Conserved
  <2>3. exit = "Ok" => orphans = {}
    BY AllRan DEF IInv, Shape, Honest
  <2> QED
    BY <2>1, <2>2, <2>3
<1> QED
  BY Invariance, <1>1, PTL

(***************************************************************************)
(* The README's rule, "TEST_JOBS=n needs at least n*2 tap devices", for    *)
(* the whole program: with the devices of all pairs and as many threads as *)
(* jobs, a test that comes to allocate_taps finds the pool filled.         *)
(***************************************************************************)
THEOREM NoTestWantsForTaps ==
    ASSUME Cardinality(Worker) = Jobs, 0 .. Jobs - 1 \subseteq Existing
    PROVE  Spec => [](\A w \in Worker :
                         stage[w] = "alloc" /\ option = "Some" => pool # << >>)
<1> DEFINE Enough == \A w \in Worker : held[w] = {} /\ option = "Some" => pool # << >>
<1>1. PoolThms!Spec => []Enough
  <2>1. PoolThms!Cardinality(Worker) = Jobs
    BY DEF PoolThms!Cardinality, Cardinality
  <2> QED
    BY <2>1, PoolNames, PoolThms!EnoughDevices
<1>2. IInv /\ Enough => \A w \in Worker :
                            stage[w] = "alloc" /\ option = "Some" => pool # << >>
  BY DEF IInv, Holding
<1> QED
  BY RunnerUsesPool, PoolNames, Invariance, <1>1, <1>2, PTL
=============================================================================
