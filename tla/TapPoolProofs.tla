--------------------------- MODULE TapPoolProofs ---------------------------
(***************************************************************************)
(* Tap pairs are conserved and, with enough devices, never run out, for    *)
(* every number of jobs, every set of devices and every set of threads.    *)
(***************************************************************************)
EXTENDS TapPool, FiniteSetTheorems, TLAPS

(* A TapPair is one index, and before the first allocation there is none. *)
Single == \A w \in Worker : \A i, j \in held[w] : i = j
Untouched ==
    option = "None" => pool = << >> /\ \A w \in Worker : held[w] = {}

IInv == TypeOK /\ Conserved /\ Single /\ Untouched

(* What is open before an allocation: all indices that are not held, once. *)
OpenInv(s) ==
    /\ s \in Seq(Valid)
    /\ \A i, j \in 1 .. Len(s) : s[i] = s[j] => i = j
    /\ \A w \in Worker : \A i \in 1 .. Len(s) : s[i] \notin held[w]
    /\ \A v \in Valid : \/ \E i \in 1 .. Len(s) : s[i] = v
                        \/ \E w \in Worker : v \in held[w]

LEMMA ValidFinite ==
    /\ IsFiniteSet(Valid) /\ Cardinality(Valid) \in Nat /\ Valid \subseteq Nat
    /\ 0 .. Jobs - 1 \subseteq Existing => Cardinality(Valid) = Jobs
<1>1. IsFiniteSet(0 .. Jobs - 1) /\ Cardinality(0 .. Jobs - 1) = Jobs
  BY JobsAssumption, FS_Interval
<1>2. Valid \subseteq 0 .. Jobs - 1
  BY DEF Valid
<1>3. 0 .. Jobs - 1 \subseteq Existing => Valid = 0 .. Jobs - 1
  BY DEF Valid
<1>4. IsFiniteSet(Valid) /\ Cardinality(Valid) \in Nat
  BY <1>1, <1>2, FS_Subset, FS_CardinalityType
<1>5. 0 .. Jobs - 1 \subseteq Nat
  BY JobsAssumption
<1> QED
  BY <1>1, <1>2, <1>3, <1>4, <1>5

LEMMA FullPoolsOpen ==
    ASSUME NEW s \in FullPools, \A w \in Worker : held[w] = {}
    PROVE  OpenInv(s)
<1>1. s \in [1 .. Cardinality(Valid) -> Valid] /\ Cardinality(Valid) \in Nat
  BY ValidFinite DEF FullPools
<1>2. s \in Seq(Valid) /\ DOMAIN s = 1 .. Len(s)
  BY <1>1
<1>3. \A i, j \in 1 .. Len(s) : s[i] = s[j] => i = j
  <2> SUFFICES ASSUME NEW i \in 1 .. Len(s), NEW j \in 1 .. Len(s), i < j
               PROVE  s[i] # s[j]
    OBVIOUS
  <2>1. s[i] < s[j] /\ s[i] \in Nat /\ s[j] \in Nat
    BY <1>1, <1>2, ValidFinite DEF FullPools
  <2> QED
    BY <2>1
<1> QED
  BY <1>2, <1>3 DEF OpenInv, FullPools

LEMMA OpenedInv ==
    ASSUME IInv, NEW s \in Opened
    PROVE  OpenInv(s)
<1>1. CASE option = "None"
  BY <1>1, FullPoolsOpen DEF Opened, IInv, Untouched
<1>2. CASE option = "Some"
  <2>1. s = pool /\ pool \in Seq(Valid) /\ DOMAIN pool = 1 .. Len(pool)
    BY <1>2 DEF Opened, IInv, TypeOK
  <2>2. \A v \in Valid : v \in Free \/ \E w \in Worker : v \in held[w]
    BY <1>2 DEF IInv, Conserved
  <2>3. \A w \in Worker : \A i \in 1 .. Len(s) : s[i] \notin held[w]
    BY <2>1 DEF IInv, Conserved, Free
  <2>4. \A i, j \in 1 .. Len(s) : s[i] = s[j] => i = j
    BY <2>1 DEF IInv, Conserved
  <2> QED
    BY <2>1, <2>2, <2>3, <2>4 DEF OpenInv, Free
<1> QED
  BY <1>1, <1>2 DEF IInv, TypeOK

(* A state of the pool that satisfies OpenInv and typing is conserved. *)
LEMMA OpenConserved ==
    ASSUME OpenInv(pool), held \in [Worker -> SUBSET Valid],
           \A u, w \in Worker : u # w => held[u] \cap held[w] = {}
    PROVE  Conserved
<1>1. DOMAIN pool = 1 .. Len(pool) /\ Free \subseteq Valid
  BY DEF OpenInv, Free
<1>2. \A w \in Worker : held[w] \cap Free = {}
  BY <1>1 DEF OpenInv, Free
<1>3. Valid = Free \cup UNION {held[w] : w \in Worker}
  BY <1>1 DEF OpenInv, Free
<1> QED
  BY <1>1, <1>2, <1>3 DEF OpenInv, Conserved

LEMMA InitIInv == Init => IInv
<1> SUFFICES ASSUME Init PROVE IInv
  OBVIOUS
<1>1. TypeOK /\ Single /\ Untouched
  BY DEF Init, TypeOK, Single, Untouched
<1>2. Conserved
  BY DEF Init, Conserved, Free
<1> QED
  BY <1>1, <1>2 DEF IInv

LEMMA AllocateIInv ==
    ASSUME IInv, NEW w \in Worker, Allocate(w)
    PROVE  IInv'
<1>1. PICK s \in Opened :
         /\ s # << >>
         /\ pool' = SubSeq(s, 1, Len(s) - 1)
         /\ held' = [held EXCEPT ![w] = {s[Len(s)]}]
  BY DEF Allocate
<1>2. OpenInv(s) /\ s \in Seq(Valid) /\ Len(s) \in Nat \ {0}
  BY <1>1, OpenedInv DEF OpenInv
<1>3. /\ pool' \in Seq(Valid) /\ Len(pool') = Len(s) - 1
      /\ \A i \in 1 .. Len(s) - 1 : pool'[i] = s[i]
  <2>1. pool' = [i \in 1 .. Len(s) - 1 |-> s[i]]
    BY <1>1, <1>2
  <2>2. \A i \in 1 .. Len(s) - 1 : s[i] \in Valid
    BY <1>2
  <2> QED
    BY <1>2, <2>1, <2>2
<1>4. held \in [Worker -> SUBSET Valid] /\ held[w] = {}
  BY DEF Allocate, IInv, TypeOK
<1>5. /\ held' \in [Worker -> SUBSET Valid] /\ held'[w] = {s[Len(s)]}
      /\ \A u \in Worker : u # w => held'[u] = held[u]
  BY <1>1, <1>2, <1>4
<1>6. \A u, v \in Worker : u # v => held'[u] \cap held'[v] = {}
  BY <1>2, <1>4, <1>5 DEF OpenInv, IInv, Conserved
<1>7. OpenInv(pool)'
  <2>1. \A i, j \in 1 .. Len(pool') : pool'[i] = pool'[j] => i = j
    BY <1>2, <1>3 DEF OpenInv
  <2>2. \A u \in Worker : \A i \in 1 .. Len(pool') : pool'[i] \notin held'[u]
    BY <1>2, <1>3, <1>5 DEF OpenInv
  <2>3. ASSUME NEW v \in Valid
        PROVE  \/ \E i \in 1 .. Len(pool') : pool'[i] = v
               \/ \E u \in Worker : v \in held'[u]
    <3>1. CASE v = s[Len(s)]
      BY <1>5, <3>1
    <3>2. CASE \E i \in 1 .. Len(s) - 1 : s[i] = v
      BY <1>2, <1>3, <3>2
    <3>3. CASE \E u \in Worker : v \in held[u]
      BY <1>4, <1>5, <3>3
    <3> QED
      BY <1>2, <3>1, <3>2, <3>3 DEF OpenInv
  <2> QED
    BY <1>3, <2>1, <2>2, <2>3 DEF OpenInv, Valid
<1>8. Conserved'
  BY <1>5, <1>6, <1>7, OpenConserved DEF Conserved, OpenInv, Free, Valid
<1>9. TypeOK' /\ Single' /\ Untouched'
  BY <1>3, <1>5 DEF Allocate, IInv, TypeOK, Single, Untouched, Valid
<1> QED
  BY <1>8, <1>9 DEF IInv

LEMMA AllocateFailsIInv ==
    ASSUME IInv, NEW w \in Worker, AllocateFails(w)
    PROVE  IInv'
<1>1. PICK s \in Opened : s = << >> /\ pool' = s
  BY DEF AllocateFails
<1>2. OpenInv(s) /\ pool' = << >> /\ held' = held /\ option' = "Some"
  BY <1>1, OpenedInv DEF AllocateFails
<1>3. TypeOK' /\ Single' /\ Untouched'
  BY <1>2 DEF IInv, TypeOK, Single, Untouched, Valid
<1>4. Free' = {} /\ DOMAIN pool' = {}
  BY <1>2 DEF Free
<1>5. \A v \in Valid : \E u \in Worker : v \in held[u]
  BY <1>1, <1>2 DEF OpenInv
<1>6. Conserved'
  BY <1>2, <1>4, <1>5 DEF IInv, TypeOK, Conserved, Valid
<1> QED
  BY <1>3, <1>6 DEF IInv

LEMMA ReleaseIInv ==
    ASSUME IInv, NEW w \in Worker, Release(w)
    PROVE  IInv'
<1>1. PICK k \in held[w] : pool' = Append(pool, k)
  BY DEF Release
<1>2. /\ held \in [Worker -> SUBSET Valid] /\ pool \in Seq(Valid)
      /\ held' = [held EXCEPT ![w] = {}] /\ option' = option /\ option = "Some"
  BY DEF Release, IInv, TypeOK
<1>3. OpenInv(pool)
  BY <1>2, OpenedInv DEF Opened
<1>4. held[w] = {k} /\ k \in Valid
  BY <1>1, <1>2 DEF IInv, Single
<1>5. /\ held' \in [Worker -> SUBSET Valid] /\ held'[w] = {}
      /\ \A u \in Worker : u # w => held'[u] = held[u]
  BY <1>2
<1>6. /\ pool' \in Seq(Valid) /\ Len(pool') = Len(pool) + 1 /\ Len(pool) \in Nat
      /\ pool'[Len(pool')] = k
      /\ \A i \in 1 .. Len(pool) : pool'[i] = pool[i]
  BY <1>1, <1>2, <1>4
<1>7. \A u, v \in Worker : u # v => held'[u] \cap held'[v] = {}
  BY <1>5 DEF IInv, Conserved
<1>8. OpenInv(pool)'
  <2>1. \A i, j \in 1 .. Len(pool') : pool'[i] = pool'[j] => i = j
    BY <1>3, <1>4, <1>6 DEF OpenInv
  <2>2. \A u \in Worker : \A i \in 1 .. Len(pool') : pool'[i] \notin held'[u]
    <3>1. \A u \in Worker : u # w => k \notin held[u]
      BY <1>4 DEF IInv, Conserved
    <3> QED
      BY <1>3, <1>5, <1>6, <3>1 DEF OpenInv
  <2>3. ASSUME NEW v \in Valid
        PROVE  \/ \E i \in 1 .. Len(pool') : pool'[i] = v
               \/ \E u \in Worker : v \in held'[u]
    <3>1. CASE v = k
      BY <1>6, <3>1
    <3>2. CASE \E i \in 1 .. Len(pool) : pool[i] = v
      BY <1>6, <3>2
    <3>3. CASE v # k /\ \E u \in Worker : v \in held[u]
      BY <1>4, <1>5, <3>3
    <3> QED
      BY <1>3, <3>1, <3>2, <3>3 DEF OpenInv
  <2> QED
    BY <1>6, <2>1, <2>2, <2>3 DEF OpenInv, Valid
<1>9. Conserved'
  BY <1>5, <1>7, <1>8 DEF Conserved, OpenInv, Free, Valid
<1>10. TypeOK' /\ Single' /\ Untouched'
  BY <1>2, <1>5, <1>6 DEF IInv, TypeOK, Single, Untouched, Valid
<1> QED
  BY <1>9, <1>10 DEF IInv

LEMMA NextIInv == IInv /\ [Next]_vars => IInv'
<1> SUFFICES ASSUME IInv, [Next]_vars PROVE IInv'
  OBVIOUS
<1>1. CASE Next
  BY <1>1, AllocateIInv, AllocateFailsIInv, ReleaseIInv DEF Next
<1>2. CASE UNCHANGED vars
  BY <1>2 DEF vars, IInv, TypeOK, Conserved, Single, Untouched, Free, Valid
<1> QED
  BY <1>1, <1>2

THEOREM Invariance == Spec => []IInv
  BY InitIInv, NextIInv, PTL DEF Spec

(* allocate_taps and Drop keep the pool and the pairs within the valid indices. *)
THEOREM TypeCorrect == Spec => []TypeOK
<1>1. IInv => TypeOK
  BY DEF IInv
<1> QED
  BY Invariance, <1>1, PTL

(* No tap pair is duplicated, shared or lost by allocate_taps and Drop. *)
THEOREM PairsAreConserved == Spec => []Conserved
<1>1. IInv => Conserved
  BY DEF IInv
<1> QED
  BY Invariance, <1>1, PTL

(***************************************************************************)
(* Tests that hold pairs at the same time use different devices and        *)
(* different guest addresses, for any number of threads and devices.       *)
(***************************************************************************)
THEOREM NobodyMeets == Spec => []PairsDoNotMeet
<1>1. IInv => PairsDoNotMeet
  <2> SUFFICES ASSUME IInv
               PROVE  PairsDoNotMeet
    OBVIOUS
  <2>1. \A w \in Worker : \A i \in held[w] : i \in 0 .. Jobs - 1
    BY DEF IInv, TypeOK, Valid
  <2>2. ASSUME NEW u \in Worker, NEW w \in Worker, u # w,
               NEW i \in held[u], NEW j \in held[w]
        PROVE  /\ {SrcTap(i), DstTap(i)} \cap {SrcTap(j), DstTap(j)} = {}
               /\ HostOctet(i) # HostOctet(j)
    <3>1. i # j
      BY <2>2 DEF IInv, Conserved
    <3>2. i \in Nat /\ j \in Nat
      BY <2>1, JobsAssumption
    <3>3. 2 * i # 2 * j /\ 2 * i + 1 # 2 * j + 1 /\ 2 * i # 2 * j + 1 /\ 2 * i + 1 # 2 * j
      BY <3>1, <3>2
    <3> QED
      BY <3>1, <3>2, <3>3 DEF SrcTap, DstTap, HostOctet
  <2>3. ASSUME NEW w \in Worker, NEW i \in held[w]
        PROVE  HostOctet(i) # Gateway /\ (Jobs <= 253 => HostOctet(i) \in 2 .. 254)
    BY <2>1, JobsAssumption DEF HostOctet, Gateway
  <2> QED
    BY <2>2, <2>3 DEF PairsDoNotMeet
<1> QED
  BY Invariance, <1>1, PTL

(***************************************************************************)
(* If the pool is empty every pair has a holder; with fewer holders than   *)
(* pairs, two pairs would have one holder.                                 *)
(***************************************************************************)
LEMMA PigeonHole == IInv => NoNeedlessFailure
<1> SUFFICES ASSUME IInv, option = "Some", pool = << >>,
                    Cardinality(Holders) < Cardinality(Valid)
             PROVE  FALSE
  BY DEF NoNeedlessFailure
<1> DEFINE Holder == [v \in Valid |-> CHOOSE u \in Holders : v \in held[u]]
<1>1. \A v \in Valid : \E u \in Holders : v \in held[u]
  <2>1. Free = {}
    BY DEF Free
  <2> QED
    BY <2>1 DEF IInv, Conserved, Holders
<1>2. Holder \in [Valid -> Holders] /\ \A v \in Valid : v \in held[Holder[v]]
  BY <1>1
<1>3. IsFiniteSet(Holders)
  BY WorkerAssumption, FS_Subset DEF Holders
<1>4. IsFiniteSet(Valid)
  BY ValidFinite
<1>5. PICK x, y \in Valid : x # y /\ Holder[x] = Holder[y]
  <2> HIDE DEF Holder
  <2> QED
    BY <1>2, <1>3, <1>4, FS_PigeonHole
<1>6. Holder[x] \in Worker /\ x \in held[Holder[x]] /\ y \in held[Holder[x]]
  BY <1>2, <1>5 DEF Holders
<1> QED
  BY <1>5, <1>6 DEF IInv, Single

(***************************************************************************)
(* allocate_taps fails only when all pairs are in use, for every number of *)
(* threads, whatever devices exist.                                        *)
(***************************************************************************)
THEOREM FailsOnlyIfDry == Spec => []NoNeedlessFailure
  BY Invariance, PigeonHole, PTL

(***************************************************************************)
(* The README's rule, "TEST_JOBS=n needs at least n*2 tap devices": with   *)
(* the devices of all pairs and as many threads as jobs, allocate_taps     *)
(* finds a pair for every thread that has none.                            *)
(***************************************************************************)
THEOREM EnoughDevices ==
    ASSUME Cardinality(Worker) = Jobs, 0 .. Jobs - 1 \subseteq Existing
    PROVE  Spec => [](\A w \in Worker :
                         held[w] = {} /\ option = "Some" => pool # << >>)
<1>1. ASSUME NoNeedlessFailure, NEW w \in Worker, held[w] = {}, option = "Some"
      PROVE  pool # << >>
  <2>1. Holders \subseteq Worker \ {w}
    BY <1>1 DEF Holders
  <2>2. IsFiniteSet(Worker \ {w}) /\ Cardinality(Worker \ {w}) = Jobs - 1
    BY WorkerAssumption, FS_RemoveElement
  <2>3. Cardinality(Holders) <= Jobs - 1 /\ Cardinality(Holders) \in Nat
    BY <2>1, <2>2, FS_Subset, FS_CardinalityType
  <2>4. Cardinality(Valid) = Jobs
    BY ValidFinite
  <2> QED
    BY <1>1, <2>3, <2>4, JobsAssumption DEF NoNeedlessFailure
<1>2. NoNeedlessFailure => \A w \in Worker :
                              held[w] = {} /\ option = "Some" => pool # << >>
  BY <1>1
<1> QED
  BY FailsOnlyIfDry, <1>2, PTL
=============================================================================
