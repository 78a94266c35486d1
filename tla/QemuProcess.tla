----------------------------- MODULE QemuProcess -----------------------------
(***************************************************************************)
(* The life of one QEMU child as the harness sees it (process.rs): spawn   *)
(* with the QMP connection, the test's use of it, quit_and_wait, and Drop. *)
(* QEMU is a process of its own: it may start slowly, hang, or exit at any *)
(* moment.  The wait for the answer to a QMP command is a place of its     *)
(* own: it ends with the answer, the loss of the connection or the timeout *)
(* of the socket, and with nothing else.                                   *)
(***************************************************************************)
EXTENDS Naturals

CONSTANTS ConnectTimeout,  \* DEFAULT_TIMEOUT of Socket::connect, in ticks
          PollTimeout,     \* timeout of poll_status
          QuitTimeout,     \* timeout of quit_and_wait
          DropTimeout      \* DROP_KILL_TIMEOUT

ASSUME TimeoutAssumption ==
    {ConnectTimeout, PollTimeout, QuitTimeout, DropTimeout} \subseteq Nat

VARIABLES
    accel,      \* CONFIG.accel: "Kvm" or "Mshv"
    autoreap,   \* SIGCHLD is ignored (inherited): children leave no zombie
    pc,         \* where the test thread is
    owned,      \* spawn returned Ok: a QemuProcess exists and Drop will run
    status,     \* std's Child has seen the exit status
    child,      \* the operating system's view of the child
    vmm,        \* QEMU's QMP server
    path,       \* the socket file exists
    stale,      \* the reply of a timed-out command may still arrive
    sigkill,    \* SIGKILL was sent to the live child
    stray,      \* SIGKILL was sent to a pid that no longer is our child's
    elapsed,    \* start.elapsed() of the current wait, saturating
    shutdown,   \* SHUTDOWN
    keepLogs,   \* KEEP_LOGS is set
    kept,       \* what became of the copy of the serial log
    quitResult  \* what quit_and_wait returned

env == <<accel, autoreap, keepLogs>>
os == <<child, vmm, path>>
vars == <<accel, autoreap, keepLogs, pc, owned, status, child, vmm, path, stale, sigkill,
          stray, elapsed, shutdown, kept, quitResult>>

SpawnPC == {"spawn", "exists", "connect", "handshake", "open"}
UsePC == {"test", "status", "query", "quit", "quitPoll", "quitKill", "quitWait"}
DropPC == {"drop", "dropQuit", "dropFallback", "dropPoll", "dropKill", "dropWait"}

MaxTimeout == CHOOSE m \in {ConnectTimeout, PollTimeout, QuitTimeout, DropTimeout} :
                 /\ m >= ConnectTimeout /\ m >= PollTimeout
                 /\ m >= QuitTimeout /\ m >= DropTimeout

Later(t) == IF t > MaxTimeout THEN t ELSE t + 1

Flags ==
    /\ autoreap \in BOOLEAN /\ keepLogs \in BOOLEAN
    /\ owned \in BOOLEAN /\ status \in BOOLEAN
    /\ path \in BOOLEAN /\ stale \in BOOLEAN
    /\ sigkill \in BOOLEAN /\ stray \in BOOLEAN /\ shutdown \in BOOLEAN

States ==
    /\ accel \in {"Kvm", "Mshv"}
    /\ pc \in SpawnPC \cup UsePC \cup DropPC \cup {"ended"}
    /\ ~owned => pc \in SpawnPC \cup {"ended"}
    /\ pc \in SpawnPC => ~owned
    /\ child \in {"none", "running", "zombie", "gone"}
    /\ vmm \in {"starting", "bound", "serving", "hung"}
    /\ elapsed \in Nat
    /\ kept \in {"none", "saved", "failed"}
    /\ quitResult \in {"none", "ok", "err"}

TypeOK == Flags /\ States

Init ==
    /\ accel \in {"Kvm", "Mshv"} /\ autoreap \in BOOLEAN
    /\ pc = "spawn" /\ owned = FALSE /\ status = FALSE
    /\ child = "none" /\ vmm = "starting" /\ path = FALSE /\ stale = FALSE
    /\ sigkill = FALSE /\ stray = FALSE /\ elapsed = 0
    /\ shutdown = FALSE /\ keepLogs \in BOOLEAN /\ kept = "none" /\ quitResult = "none"

-----------------------------------------------------------------------------
(* QEMU, the operating system and the user. *)

QemuBinds ==
    /\ child = "running" /\ vmm = "starting"
    /\ vmm' = "bound" /\ path' = TRUE
    /\ UNCHANGED <<env, pc, owned, status, child, stale, sigkill, stray, elapsed,
                   shutdown, kept, quitResult>>

QemuListens ==
    /\ child = "running" /\ vmm = "bound" /\ vmm' = "serving"
    /\ UNCHANGED <<env, pc, owned, status, child, path, stale, sigkill, stray,
                   elapsed, shutdown, kept, quitResult>>

(* QEMU stops answering, for a while or for good. *)
QemuHangs ==
    /\ child = "running"
    /\ \/ vmm = "serving" /\ vmm' = "hung"
       \/ vmm = "hung" /\ vmm' = "serving"
    /\ UNCHANGED <<env, pc, owned, status, child, path, stale, sigkill, stray,
                   elapsed, shutdown, kept, quitResult>>

(* Exit for any reason: quit, guest power-off, crash, SIGKILL. *)
QemuExits ==
    /\ child = "running"
    /\ child' = IF autoreap THEN "gone" ELSE "zombie"
    /\ path' \in BOOLEAN /\ (path' => path)
    /\ UNCHANGED <<env, pc, owned, status, vmm, stale, sigkill, stray, elapsed,
                   shutdown, kept, quitResult>>

Tick ==
    /\ elapsed <= MaxTimeout /\ elapsed' = Later(elapsed)
    /\ pc \in {"exists", "status", "query", "quitPoll", "dropPoll"}
    /\ UNCHANGED <<env, os, pc, owned, status, stale, sigkill, stray, shutdown,
                   kept, quitResult>>

Sigint ==
    /\ ~shutdown /\ shutdown' = TRUE
    /\ UNCHANGED <<env, os, pc, owned, status, stale, sigkill, stray, elapsed,
                   kept, quitResult>>

-----------------------------------------------------------------------------
(* std::process::Child (external). *)

(* Fault: the signal is sent although the child was already collected. *)
Kill_Unchecked ==
    /\ sigkill' = (sigkill \/ child = "running")
    /\ stray' = (stray \/ child = "gone")

(* kill() sends nothing once the exit status is known. *)
Kill ==
    IF status THEN UNCHANGED <<sigkill, stray>>
    ELSE /\ sigkill' = (sigkill \/ child = "running")
         /\ stray' = (stray \/ child = "gone")

(* try_wait() = Ok(Some(_)): collects a zombie, or repeats what it knows. *)
Exited == status \/ child = "zombie"
Collect ==
    /\ status' = TRUE
    /\ child' = "gone"

(* try_wait() = Err(ECHILD). *)
NoChild == ~status /\ child = "gone"

(* try_wait() = Ok(None). *)
StillRuns == ~status /\ child = "running"

-----------------------------------------------------------------------------
(* Qmp::execute (external), once the command was written to the socket. *)

(* An answer is there; a late one to an earlier command looks the same. *)
Replies == (child = "running" /\ vmm = "serving") \/ stale

(* Fault: the read has no timeout. *)
TimesOut_Unbounded == FALSE

(* QMP_IO_TIMEOUT is reached: a QEMU that does not answer holds the caller no longer. *)
TimesOut == child = "running" /\ vmm # "serving"

(* The connection breaks with the process, or the read times out. *)
Fails == child # "running" \/ TimesOut

-----------------------------------------------------------------------------
(* QemuProcess::spawn.  `?` after the fork drops a bare Child: no kill, no wait. *)

(* Fault: the error path runs the cleanup of a process that was never built. *)
SpawnFails_Drops ==
    /\ pc' = "drop"
    /\ UNCHANGED <<env, os, owned, status, stale, sigkill, stray, elapsed,
                   shutdown, kept, quitResult>>

SpawnFails ==
    /\ pc' = "ended"
    /\ UNCHANGED <<env, os, owned, status, stale, sigkill, stray, elapsed,
                   shutdown, kept, quitResult>>

Goto(to) ==
    /\ pc' = to
    /\ UNCHANGED <<env, os, owned, status, stale, sigkill, stray, shutdown,
                   kept, quitResult>>

(* CONFIG.accel() or Command::spawn fails, or the child is forked. *)
Spawn ==
    /\ pc = "spawn"
    /\ \/ SpawnFails
       \/ /\ child' = "running" /\ pc' = "exists" /\ elapsed' = 0
          /\ UNCHANGED <<env, vmm, path, owned, status, stale, sigkill, stray,
                         shutdown, kept, quitResult>>

(* The loop on path.exists(). *)
AwaitSocket ==
    /\ pc = "exists"
    /\ \/ path /\ Goto("connect") /\ UNCHANGED elapsed
       \/ ~path /\ elapsed > ConnectTimeout /\ SpawnFails
       \/ /\ ~path /\ elapsed <= ConnectTimeout
          /\ Goto("exists") /\ elapsed' = Later(elapsed)

(* One UnixStream::connect: refused between bind and listen. *)
Connect ==
    /\ pc = "connect"
    /\ \/ /\ child = "running" /\ path /\ vmm \in {"serving", "hung"}
          /\ Goto("handshake") /\ UNCHANGED elapsed
       \/ ~(child = "running" /\ path /\ vmm = "serving") /\ SpawnFails

(* The greeting and qmp_capabilities, each bounded by QMP_IO_TIMEOUT. *)
Handshake ==
    /\ pc = "handshake"
    /\ \/ /\ child = "running" /\ vmm = "serving"
          /\ Goto("open") /\ UNCHANGED elapsed
       \/ Fails /\ SpawnFails

OpenSerialLog ==
    /\ pc = "open"
    /\ \/ SpawnFails
       \/ /\ pc' = "test" /\ owned' = TRUE
          /\ UNCHANGED <<env, os, status, stale, sigkill, stray, elapsed,
                         shutdown, kept, quitResult>>

-----------------------------------------------------------------------------
(* The test body. *)

(* The body ends, or starts a poll_status or quit_and_wait. *)
Test ==
    /\ pc = "test"
    /\ \/ Goto("drop") /\ UNCHANGED elapsed
       \/ Goto("quit") /\ UNCHANGED elapsed
       \/ Goto("status") /\ elapsed' = 0

(* A round of poll_status: SHUTDOWN and the deadline, then query_status is sent. *)
PollStatus ==
    /\ pc = "status" /\ UNCHANGED elapsed
    /\ \/ (shutdown \/ elapsed > PollTimeout) /\ Goto("drop")
       \/ ~shutdown /\ elapsed <= PollTimeout /\ Goto("query")

(* Its answer is compared with the expected state; an error ends the test. *)
QueryStatus ==
    /\ pc = "query"
    /\ \/ /\ Replies
          /\ \/ Goto("test") /\ UNCHANGED elapsed
             \/ Goto("status") /\ elapsed' = Later(elapsed)
       \/ /\ Fails /\ pc' = "drop" /\ stale' = (stale \/ TimesOut)
          /\ UNCHANGED <<env, os, owned, status, sigkill, stray, elapsed,
                         shutdown, kept, quitResult>>

(***************************************************************************)
(* quit_and_wait: the command; an error, which may also be an answer that  *)
(* cannot be parsed, skips the wait and leaves it to Drop.                 *)
(***************************************************************************)
Quit ==
    /\ pc = "quit"
    /\ \/ Replies /\ Goto("quitPoll") /\ elapsed' = 0
       \/ /\ Replies \/ Fails
          /\ pc' = "drop" /\ quitResult' = "err" /\ stale' = (stale \/ TimesOut)
          /\ UNCHANGED <<env, os, owned, status, sigkill, stray, elapsed,
                         shutdown, kept>>

(* Fault: a child that had to be killed counts as terminated. *)
QuitKilled_Ok ==
    /\ pc = "quitWait" /\ (Exited \/ NoChild)
    /\ pc' = "drop" /\ quitResult' = "ok"
    /\ IF Exited THEN Collect ELSE UNCHANGED <<status, child>>
    /\ UNCHANGED <<env, vmm, path, owned, stale, sigkill, stray, elapsed,
                   shutdown, kept>>

(* One round of the loop on try_wait in quit_and_wait. *)
QuitPoll ==
    /\ pc = "quitPoll"
    /\ \/ /\ Exited /\ Collect /\ pc' = "drop" /\ quitResult' = "ok"
          /\ UNCHANGED <<env, vmm, path, owned, stale, sigkill, stray, elapsed,
                         shutdown, kept>>
       \/ /\ NoChild /\ pc' = "drop" /\ quitResult' = "err"
          /\ UNCHANGED <<env, os, owned, status, stale, sigkill, stray, elapsed,
                         shutdown, kept>>
       \/ StillRuns /\ elapsed > QuitTimeout /\ Goto("quitKill") /\ UNCHANGED elapsed
       \/ StillRuns /\ elapsed <= QuitTimeout /\ Goto("quitPoll") /\ elapsed' = Later(elapsed)

(* child.kill(); the child may have exited since try_wait. *)
QuitKill ==
    /\ pc = "quitKill" /\ pc' = "quitWait" /\ Kill
    /\ UNCHANGED <<env, os, owned, status, stale, elapsed, shutdown, kept,
                   quitResult>>

(* child.wait() blocks until the child can be collected, then bail!. *)
QuitKilled ==
    /\ pc = "quitWait" /\ (Exited \/ NoChild)
    /\ pc' = "drop" /\ quitResult' = "err"
    /\ IF Exited THEN Collect ELSE UNCHANGED <<status, child>>
    /\ UNCHANGED <<env, vmm, path, owned, stale, sigkill, stray, elapsed,
                   shutdown, kept>>

-----------------------------------------------------------------------------
(* Drop. *)

(* save_serial_log, whose errors are only logged; then by accelerator. *)
DropSaves ==
    /\ pc = "drop"
    /\ IF keepLogs THEN kept' \in {"saved", "failed"} ELSE UNCHANGED kept
    /\ \/ accel = "Mshv" /\ pc' = "dropPoll" /\ elapsed' = 0 /\ Kill
       \/ accel = "Kvm" /\ pc' = "dropQuit" /\ UNCHANGED <<elapsed, sigkill, stray>>
    /\ UNCHANGED <<env, os, owned, status, stale, shutdown, quitResult>>

(***************************************************************************)
(* qmp::quit; it may fail although QEMU obeyed (the reply of some QEMU     *)
(* versions cannot be parsed), and succeed although QEMU did not.          *)
(***************************************************************************)
DropQuits ==
    /\ pc = "dropQuit"
    /\ \/ Replies /\ Goto("dropPoll") /\ elapsed' = 0
       \/ (Replies \/ Fails) /\ Goto("dropFallback") /\ UNCHANGED elapsed

(* After 200ms: the fallback kill. *)
DropFallback ==
    /\ pc = "dropFallback" /\ pc' = "dropPoll" /\ elapsed' = 0 /\ Kill
    /\ UNCHANGED <<env, os, owned, status, stale, shutdown, kept, quitResult>>

(* Fault: the deadline ends the wait without a SIGKILL. *)
DropPoll_GivesUp ==
    /\ pc = "dropPoll"
    /\ \/ /\ Exited /\ Collect /\ pc' = "ended"
          /\ UNCHANGED <<env, vmm, path, owned, stale, sigkill, stray, elapsed,
                         shutdown, kept, quitResult>>
       \/ NoChild /\ Goto("ended") /\ UNCHANGED elapsed
       \/ StillRuns /\ elapsed > DropTimeout /\ Goto("ended") /\ UNCHANGED elapsed
       \/ StillRuns /\ elapsed <= DropTimeout /\ Goto("dropPoll") /\ elapsed' = Later(elapsed)

(* Fault: wait() without a deadline. *)
DropPoll_NoDeadline ==
    /\ pc = "dropPoll"
    /\ \/ /\ Exited /\ Collect /\ pc' = "ended"
          /\ UNCHANGED <<env, vmm, path, owned, stale, sigkill, stray, elapsed,
                         shutdown, kept, quitResult>>
       \/ NoChild /\ Goto("ended") /\ UNCHANGED elapsed
       \/ StillRuns /\ Goto("dropPoll") /\ elapsed' = Later(elapsed)

(* One round of the loop on try_wait in Drop. *)
DropPoll ==
    /\ pc = "dropPoll"
    /\ \/ /\ Exited /\ Collect /\ pc' = "ended"
          /\ UNCHANGED <<env, vmm, path, owned, stale, sigkill, stray, elapsed,
                         shutdown, kept, quitResult>>
       \/ NoChild /\ Goto("ended") /\ UNCHANGED elapsed
       \/ StillRuns /\ elapsed > DropTimeout /\ Goto("dropKill") /\ UNCHANGED elapsed
       \/ StillRuns /\ elapsed <= DropTimeout /\ Goto("dropPoll") /\ elapsed' = Later(elapsed)

DropKill ==
    /\ pc = "dropKill" /\ pc' = "dropWait" /\ Kill
    /\ UNCHANGED <<env, os, owned, status, stale, elapsed, shutdown, kept,
                   quitResult>>

DropWait ==
    /\ pc = "dropWait" /\ (Exited \/ NoChild) /\ pc' = "ended"
    /\ IF Exited THEN Collect ELSE UNCHANGED <<status, child>>
    /\ UNCHANGED <<env, vmm, path, owned, stale, sigkill, stray, elapsed,
                   shutdown, kept, quitResult>>

-----------------------------------------------------------------------------

QemuStep == QemuBinds \/ QemuListens \/ QemuHangs \/ QemuExits

SpawnStep == Spawn \/ AwaitSocket \/ Connect \/ Handshake \/ OpenSerialLog
UseStep == PollStatus \/ QueryStatus \/ Quit \/ QuitPoll \/ QuitKill \/ QuitKilled
DropStep ==
    \/ DropSaves \/ DropQuits \/ DropFallback
    \/ DropPoll \/ DropKill \/ DropWait

Harness == SpawnStep \/ Test \/ UseStep \/ DropStep

Next == QemuStep \/ Tick \/ Sigint \/ Harness

Spec == Init /\ [][Next]_vars

(***************************************************************************)
(* The test thread runs, a test body comes to its end, and the kernel      *)
(* carries out a SIGKILL.  Nothing is assumed of QEMU.                     *)
(***************************************************************************)
Fairness ==
    /\ WF_vars(SpawnStep) /\ WF_vars(UseStep) /\ WF_vars(DropStep)
    /\ SF_vars(Test /\ pc' = "drop")
    /\ WF_vars(sigkill /\ QemuExits)

FairSpec == Spec /\ Fairness

-----------------------------------------------------------------------------
(* Properties. *)

(***************************************************************************)
(* Once a QemuProcess was built, its Drop leaves no QEMU behind: when it   *)
(* returns the child has exited and was collected, however QEMU behaved,   *)
(* whichever command failed and whether or not quit_and_wait ran before.   *)
(***************************************************************************)
DropLeavesNoChild == owned /\ pc = "ended" => child = "gone"

(***************************************************************************)
(* A late exit may race every decision to kill; still no SIGKILL goes to a *)
(* pid that was given back to the kernel (unless SIGCHLD is ignored, when  *)
(* the kernel takes the pid back by itself).                               *)
(***************************************************************************)
NoStrayKill == ~autoreap => ~stray

(***************************************************************************)
(* quit_and_wait returns Ok only for a QEMU that went away by itself: it   *)
(* was collected, and no SIGKILL was ever sent to it, not by Drop either.  *)
(***************************************************************************)
QuitOkMeansOwnExit == quitResult = "ok" => status /\ ~sigkill

(***************************************************************************)
(* A hung QEMU cannot wedge the test: the test thread gets through spawn,  *)
(* body and Drop even if QEMU never answers and never exits by itself.     *)
(***************************************************************************)
AlwaysEnds == <>(pc = "ended")

(***************************************************************************)
(* main.rs installs the SIGINT handler "for graceful shutdown with proper  *)
(* cleanup": when an interrupted test is over its QEMU no longer runs.     *)
(***************************************************************************)
NoOrphan == shutdown /\ pc = "ended" => child # "running"

(***************************************************************************)
(* README: KEEP_LOGS is the "directory to keep logs of all tests": with it *)
(* set, a test that started a QEMU ends with a copy of its log, or with    *)
(* the failed attempt to make one.                                         *)
(***************************************************************************)
LogsOfAllTests == keepLogs /\ pc = "ended" /\ child # "none" => kept # "none"
=============================================================================
