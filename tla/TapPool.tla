------------------------------ MODULE TapPool ------------------------------
(***************************************************************************)
(* TAP_POOL (util.rs): a mutex around Option<Vec<usize>> of tap pairs.     *)
(* allocate_taps fills it on first use and pops; dropping a TapPair pushes *)
(* its index back.  The lock is held for the whole of both, so each is one *)
(* step.  A thread runs one test at a time and a test allocates at most    *)
(* one pair.                                                               *)
(***************************************************************************)
EXTENDS Integers, Sequences, FiniteSets

CONSTANTS Jobs,     \* TEST_JOBS
          Existing, \* the indices i whose two devices, 2i and 2i+1, both exist
          Worker    \* the threads of the pool that run tests

ASSUME JobsAssumption == Jobs \in Nat
ASSUME ExistingAssumption == Existing \subseteq Nat
ASSUME WorkerAssumption == IsFiniteSet(Worker) /\ Worker # {}

VARIABLES option,   \* "None" until the first allocation, then "Some"
          pool,     \* the Vec of free indices
          held      \* the index in the TapPair of a thread's test, as a set

vars == <<option, pool, held>>

(* init_tap_pool: (0..jobs) filtered by the existence of both devices. *)
Valid == {i \in 0 .. Jobs - 1 : i \in Existing}
FullPools ==
    {s \in [1 .. Cardinality(Valid) -> Valid] :
        /\ \A i, j \in DOMAIN s : i < j => s[i] < s[j]
        /\ \A v \in Valid : \E i \in DOMAIN s : s[i] = v}

Free == {pool[i] : i \in DOMAIN pool}

(* TapPair::new: devices by number, addresses by their last octet. *)
SrcTap(i) == 2 * i
DstTap(i) == SrcTap(i) + 1

(* Fault: guests are numbered from the gateway's address on. *)
HostOctet_FromGateway(i) == 1 + i

HostOctet(i) == 2 + i
Gateway == 1

TypeOK ==
    /\ option \in {"None", "Some"}
    /\ pool \in Seq(Valid)
    /\ held \in [Worker -> SUBSET Valid]

Init ==
    /\ option = "None" /\ pool = << >>
    /\ held = [w \in Worker |-> {}]

(* get_or_insert_with(init_tap_pool). *)
Opened == IF option = "None" THEN FullPools ELSE {pool}

(* allocate_taps: pop the last index. *)
Allocate(w) ==
    /\ held[w] = {}
    /\ option' = "Some"
    /\ \E s \in Opened :
          /\ s # << >>
          /\ pool' = SubSeq(s, 1, Len(s) - 1)
          /\ held' = [held EXCEPT ![w] = {s[Len(s)]}]

(* allocate_taps: "no tap devices available". *)
AllocateFails(w) ==
    /\ held[w] = {}
    /\ option' = "Some"
    /\ \E s \in Opened : s = << >> /\ pool' = s
    /\ UNCHANGED held

(* Fault: the number of a device is pushed, not the index of the pair. *)
Release_Device(w) ==
    /\ held[w] # {}
    /\ option = "Some"
    /\ \E i \in held[w] : pool' = Append(pool, 2 * i)
    /\ held' = [held EXCEPT ![w] = {}]
    /\ UNCHANGED option

(* Fault: the index is pushed again although the pair is still in use. *)
Release_Keeps(w) ==
    /\ held[w] # {}
    /\ option = "Some"
    /\ \E i \in held[w] : pool' = Append(pool, i)
    /\ UNCHANGED <<option, held>>

(* Fault: the index is not given back. *)
Release_Leaks(w) ==
    /\ held[w] # {}
    /\ option = "Some"
    /\ held' = [held EXCEPT ![w] = {}]
    /\ UNCHANGED <<option, pool>>

(* Drop for TapPair: push the index. *)
Release(w) ==
    /\ held[w] # {}
    /\ option = "Some"
    /\ \E i \in held[w] : pool' = Append(pool, i)
    /\ held' = [held EXCEPT ![w] = {}]
    /\ UNCHANGED option

Next == \E w \in Worker : Allocate(w) \/ AllocateFails(w) \/ Release(w)

Spec == Init /\ [][Next]_vars

-----------------------------------------------------------------------------
(* Properties. *)

(***************************************************************************)
(* The pool and the live TapPairs partition the valid indices at all       *)
(* times: none is handed out twice, none is duplicated in the pool, none   *)
(* is lost, whatever the order in which tests allocate and drop.           *)
(***************************************************************************)
Conserved ==
    /\ \A i, j \in DOMAIN pool : pool[i] = pool[j] => i = j
    /\ \A w \in Worker : held[w] \cap Free = {}
    /\ \A u, w \in Worker : u # w => held[u] \cap held[w] = {}
    /\ option = "Some" => Valid = Free \cup UNION {held[w] : w \in Worker}

(***************************************************************************)
(* Tests with pairs at the same time do not meet on the bridge: no tap     *)
(* device and no guest address is shared, and none is the gateway's.  The  *)
(* addresses are hosts of the /24 for up to 253 jobs; the code does not    *)
(* check that there are no more.                                           *)
(***************************************************************************)
PairsDoNotMeet ==
    /\ \A u, w \in Worker : \A i \in held[u], j \in held[w] : u # w =>
          /\ {SrcTap(i), DstTap(i)} \cap {SrcTap(j), DstTap(j)} = {}
          /\ HostOctet(i) # HostOctet(j)
    /\ \A w \in Worker : \A i \in held[w] :
          HostOctet(i) # Gateway /\ (Jobs <= 253 => HostOctet(i) \in 2 .. 254)

Holders == {w \in Worker : held[w] # {}}

(***************************************************************************)
(* allocate_taps fails only when it must: while fewer tests hold a pair    *)
(* than there are pairs, whichever they are and in whichever order they    *)
(* came, the pool is not empty.                                            *)
(***************************************************************************)
NoNeedlessFailure ==
    option = "Some" /\ Cardinality(Holders) < Cardinality(Valid) => pool # << >>
=============================================================================
