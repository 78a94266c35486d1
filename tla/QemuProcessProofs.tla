------------------------- MODULE QemuProcessProofs -------------------------
(***************************************************************************)
(* The safety properties of QemuProcess, for all values of the timeouts.   *)
(***************************************************************************)
EXTENDS QemuProcess, TLAPS

(* The places where the harness has not sent a SIGKILL yet. *)
BeforeKill == SpawnPC \cup {"test", "status", "query", "quit", "quitPoll", "quitKill"}

(* std's Child and the kernel agree on whether the child was collected. *)
StatusInv ==
    /\ status => child = "gone"
    /\ child = "gone" /\ ~autoreap => status
    /\ pc = "spawn" => child = "none"
    /\ child = "none" => pc \in {"spawn", "ended"} /\ ~owned

(***************************************************************************)
(* The inductive invariant.  DropLeavesNoChild, NoStrayKill and            *)
(* QuitOkMeansOwnExit are not inductive alone: a kill is not stray because *)
(* the remembered status and the kernel's view agree, and Ok of            *)
(* quit_and_wait excludes SIGKILL because none was sent before that point. *)
(***************************************************************************)
Safe ==
    /\ States
    /\ StatusInv
    /\ pc \in BeforeKill => ~sigkill
    /\ DropLeavesNoChild
    /\ NoStrayKill
    /\ QuitOkMeansOwnExit

IInv == Flags /\ Safe

LEMMA MaxTimeoutType == \A t \in Nat : Later(t) \in Nat
<1>1. MaxTimeout \in Nat
  <2> DEFINE S == {ConnectTimeout, PollTimeout, QuitTimeout, DropTimeout}
             P(m) == /\ m >= ConnectTimeout /\ m >= PollTimeout
                     /\ m >= QuitTimeout /\ m >= DropTimeout
  <2>1. \E m \in S : P(m)
    BY TimeoutAssumption
  <2>2. MaxTimeout \in S
    BY <2>1 DEF MaxTimeout
  <2> QED
    BY <2>2, TimeoutAssumption
<1> QED
  BY <1>1 DEF Later

LEMMA InitIInv == Init => IInv
<1> SUFFICES ASSUME Init PROVE Flags /\ Safe
  BY DEF IInv
<1>1. Flags
  BY Zenon DEF Init, Flags
<1>2. Safe
  BY DEF Init, Safe, States, StatusInv, DropLeavesNoChild, NoStrayKill,
         QuitOkMeansOwnExit, SpawnPC, UsePC, DropPC, BeforeKill
<1> QED
  BY <1>1, <1>2

LEMMA NextFlags == Flags /\ [Next]_vars => Flags'
<1> SUFFICES ASSUME Flags, [Next]_vars PROVE Flags'
  OBVIOUS
<1> USE DEF Flags, env, os
<1>1. CASE QemuStep
  BY Zenon, <1>1 DEF QemuStep, QemuBinds, QemuListens, QemuHangs, QemuExits
<1>2. CASE Tick
  BY Zenon, <1>2 DEF Tick
<1>3. CASE Sigint
  BY Zenon, <1>3 DEF Sigint
<1>4. CASE SpawnStep
  <2>1. CASE Spawn
    BY Zenon, <2>1 DEF Spawn, SpawnFails
  <2>2. CASE AwaitSocket
    BY Zenon, <2>2 DEF AwaitSocket, SpawnFails, Goto
  <2>3. CASE Connect
    BY Zenon, <2>3 DEF Connect, SpawnFails, Goto
  <2>4. CASE Handshake
    BY Zenon, <2>4 DEF Handshake, SpawnFails, Goto
  <2>5. CASE OpenSerialLog
    BY Zenon, <2>5 DEF OpenSerialLog, SpawnFails
  <2> QED
    BY <1>4, <2>1, <2>2, <2>3, <2>4, <2>5 DEF SpawnStep
<1>5. CASE Test
  BY Zenon, <1>5 DEF Test, Goto
<1>6. CASE UseStep
  <2>1. CASE PollStatus
    BY Zenon, <2>1 DEF PollStatus, Goto
  <2>2. CASE QueryStatus
    BY Zenon, <2>2 DEF QueryStatus, Goto
  <2>3. CASE Quit
    BY Zenon, <2>3 DEF Quit, Goto
  <2>4. CASE QuitPoll
    BY Zenon, <2>4 DEF QuitPoll, Goto, Exited, Collect, NoChild, StillRuns
  <2>5. CASE QuitKill
    BY Zenon, <2>5 DEF QuitKill, Kill
  <2>6. CASE QuitKilled
    BY Zenon, <2>6 DEF QuitKilled, Exited, Collect, NoChild
  <2> QED
    BY <1>6, <2>1, <2>2, <2>3, <2>4, <2>5, <2>6 DEF UseStep
<1>7. CASE DropStep
  <2>1. CASE DropSaves
    BY Zenon, <2>1 DEF DropSaves, Kill
  <2>2. CASE DropQuits
    BY Zenon, <2>2 DEF DropQuits, Goto
  <2>3. CASE DropFallback
    BY Zenon, <2>3 DEF DropFallback, Kill
  <2>4. CASE DropPoll
    BY Zenon, <2>4 DEF DropPoll, Goto, Exited, Collect, NoChild, StillRuns
  <2>5. CASE DropKill
    BY Zenon, <2>5 DEF DropKill, Kill
  <2>6. CASE DropWait
    BY Zenon, <2>6 DEF DropWait, Exited, Collect, NoChild
  <2> QED
    BY <1>7, <2>1, <2>2, <2>3, <2>4, <2>5, <2>6 DEF DropStep
<1>8. CASE UNCHANGED vars
  BY Zenon, <1>8 DEF vars
<1> QED
  BY <1>1, <1>2, <1>3, <1>4, <1>5, <1>6, <1>7, <1>8 DEF Next, Harness


LEMMA NextSafe == IInv /\ [Next]_vars => Safe'
<1> SUFFICES ASSUME IInv, [Next]_vars PROVE Safe'
  OBVIOUS
<1> USE DEF IInv, Flags, Safe, States, StatusInv, DropLeavesNoChild, NoStrayKill,
            QuitOkMeansOwnExit, SpawnPC, UsePC, DropPC, BeforeKill, env, os
<1>1. CASE QemuStep
  BY <1>1 DEF QemuStep, QemuBinds, QemuListens, QemuHangs, QemuExits
<1>2. CASE Tick
  BY <1>2, MaxTimeoutType DEF Tick
<1>3. CASE Sigint
  BY <1>3 DEF Sigint
<1>4. CASE SpawnStep
  <2>1. CASE Spawn
    BY <2>1 DEF Spawn, SpawnFails
  <2>2. CASE AwaitSocket
    BY <2>2, MaxTimeoutType DEF AwaitSocket, SpawnFails, Goto
  <2>3. CASE Connect
    BY <2>3 DEF Connect, SpawnFails, Goto
  <2>4. CASE Handshake
    BY <2>4 DEF Handshake, SpawnFails, Goto
  <2>5. CASE OpenSerialLog
    BY <2>5 DEF OpenSerialLog, SpawnFails
  <2> QED
    BY <1>4, <2>1, <2>2, <2>3, <2>4, <2>5 DEF SpawnStep
<1>5. CASE Test
  BY <1>5 DEF Test, Goto
<1>6. CASE UseStep
  <2>1. CASE PollStatus
    BY <2>1 DEF PollStatus, Goto
  <2>2. CASE QueryStatus
    BY <2>2, MaxTimeoutType DEF QueryStatus, Goto
  <2>3. CASE Quit
    BY <2>3 DEF Quit, Goto
  <2>4. CASE QuitPoll
    BY <2>4, MaxTimeoutType DEF QuitPoll, Goto, Exited, Collect, NoChild, StillRuns
  <2>5. CASE QuitKill
    BY <2>5 DEF QuitKill, Kill
  <2>6. CASE QuitKilled
    BY <2>6 DEF QuitKilled, Exited, Collect, NoChild
  <2> QED
    BY <1>6, <2>1, <2>2, <2>3, <2>4, <2>5, <2>6 DEF UseStep
<1>7. CASE DropStep
  <2>1. CASE DropSaves
    BY <2>1 DEF DropSaves, Kill
  <2>2. CASE DropQuits
    BY <2>2 DEF DropQuits, Goto
  <2>3. CASE DropFallback
    BY <2>3 DEF DropFallback, Kill
  <2>4. CASE DropPoll
    BY <2>4, MaxTimeoutType DEF DropPoll, Goto, Exited, Collect, NoChild, StillRuns
  <2>5. CASE DropKill
    BY <2>5 DEF DropKill, Kill
  <2>6. CASE DropWait
    BY <2>6 DEF DropWait, Exited, Collect, NoChild
  <2> QED
    BY <1>7, <2>1, <2>2, <2>3, <2>4, <2>5, <2>6 DEF DropStep
<1>8. CASE UNCHANGED vars
  BY <1>8 DEF vars
<1> QED
  BY <1>1, <1>2, <1>3, <1>4, <1>5, <1>6, <1>7, <1>8 DEF Next, Harness

THEOREM Invariance == Spec => []IInv
<1>1. IInv /\ [Next]_vars => IInv'
  BY NextFlags, NextSafe DEF IInv
<1> QED
  BY InitIInv, <1>1, PTL DEF Spec

(* spawn, quit_and_wait and Drop keep the state of the process well formed. *)
THEOREM TypeCorrect == Spec => []TypeOK
<1>1. IInv => TypeOK
  BY DEF IInv, Safe, TypeOK
<1> QED
  BY Invariance, <1>1, PTL

(* When Drop of a QemuProcess returns, its QEMU has exited and was collected. *)
THEOREM DropCollects == Spec => []DropLeavesNoChild
<1>1. IInv => DropLeavesNoChild
  BY DEF IInv, Safe
<1> QED
  BY Invariance, <1>1, PTL

(* No kill of quit_and_wait or Drop goes to a recycled pid. *)
THEOREM KillsAreOwn == Spec => []NoStrayKill
<1>1. IInv => NoStrayKill
  BY DEF IInv, Safe
<1> QED
  BY Invariance, <1>1, PTL

(* Ok of quit_and_wait means that QEMU terminated by itself. *)
THEOREM QuitOkIsHonest == Spec => []QuitOkMeansOwnExit
<1>1. IInv => QuitOkMeansOwnExit
  BY DEF IInv, Safe
<1> QED
  BY Invariance, <1>1, PTL
=============================================================================
