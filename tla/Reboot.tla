------------------------------- MODULE Reboot -------------------------------
(***************************************************************************)
(* test_os_reboot (tests/full_os.rs) with ssh_command and                  *)
(* ssh_fire_and_forget (ssh.rs): the test watches the serial console for   *)
(* the login banner and talks to the guest through ssh child processes,    *)
(* while the guest boots, goes down and boots again at its own pace.       *)
(*                                                                         *)
(* Of the serial log only the banner lines are modelled; that the poll     *)
(* takes them one by one is SerialReader.  ssh and the guest are external. *)
(***************************************************************************)
EXTENDS Naturals, Sequences

CONSTANTS BootTimeout, RebootTimeout, SshTimeout,  \* in ticks
          UptimeLimit,                             \* 120 s, in ticks
          MaxBoot                                  \* bound: boots of the guest

ASSUME TimeAssumption ==
    /\ {BootTimeout, RebootTimeout, SshTimeout, UptimeLimit, MaxBoot} \subseteq Nat
    /\ MaxBoot # 0

VARIABLES boot,      \* how often the guest was started
          guest,     \* "booting", "up" or "down" (on its way to a reboot)
          age,       \* /proc/uptime, saturating at UptimeLimit
          sshd,      \* the guest's sshd answers
          requested, \* the guest was told to reboot
          log,       \* the banners on the serial console, by boot
          read,      \* how many of them were taken by a poll
          hpc,       \* where the test is
          conn,      \* the ssh child: "none", "trying" or "session"
          answer,    \* the boot and the uptime of the guest that the last
                     \* command was executed by
          elapsed,   \* start.elapsed() of the current wait, saturating
          shutdown   \* SHUTDOWN

machine == <<boot, guest, age, sshd, requested, log>>
vars == <<boot, guest, age, sshd, requested, log, read, hpc, conn, answer,
          elapsed, shutdown>>

MaxTime == BootTimeout + RebootTimeout + SshTimeout + 1
Later(t) == IF t < MaxTime THEN t + 1 ELSE t
Older(a) == IF a < UptimeLimit THEN a + 1 ELSE a

TypeOK ==
    /\ boot \in 1 .. MaxBoot /\ guest \in {"booting", "up", "down"}
    /\ age \in 0 .. UptimeLimit /\ sshd \in BOOLEAN /\ requested \in BOOLEAN
    /\ log \in Seq(1 .. MaxBoot) /\ read \in 0 .. Len(log)
    /\ hpc \in {"boot1", "ssh1", "reboot", "boot2", "ssh2", "uptime", "Ok", "Err"}
    /\ conn \in {"none", "trying", "session"}
    /\ conn # "none" => hpc \in {"ssh1", "reboot", "ssh2"}
    /\ answer \in [boot : 0 .. MaxBoot, age : 0 .. UptimeLimit]
    /\ elapsed \in 0 .. MaxTime /\ shutdown \in BOOLEAN

Init ==
    /\ boot = 1 /\ guest = "booting" /\ age = 0 /\ sshd = FALSE
    /\ requested = FALSE /\ log = << >> /\ read = 0
    /\ hpc = "boot1" /\ conn = "none" /\ answer = [boot |-> 0, age |-> 0]
    /\ elapsed = 0 /\ shutdown = FALSE

-----------------------------------------------------------------------------
(* The guest, the clock and the user. *)

GuestReady ==
    /\ guest = "booting" /\ guest' = "up" /\ log' = Append(log, boot)
    /\ UNCHANGED <<boot, age, sshd, requested, read, hpc, conn, answer, elapsed, shutdown>>

(* sshd may be there before the banner or come after it. *)
SshdStarts ==
    /\ ~sshd /\ guest # "down" /\ sshd' = TRUE
    /\ UNCHANGED <<boot, guest, age, requested, log, read, hpc, conn, answer,
                   elapsed, shutdown>>

GuestGoesDown ==
    /\ requested /\ guest = "up" /\ guest' = "down" /\ requested' = FALSE
    /\ UNCHANGED <<boot, age, sshd, log, read, hpc, conn, answer, elapsed, shutdown>>

GuestRestarts ==
    /\ guest = "down" /\ boot < MaxBoot
    /\ guest' = "booting" /\ boot' = boot + 1 /\ age' = 0 /\ sshd' = FALSE
    /\ UNCHANGED <<requested, log, read, hpc, conn, answer, elapsed, shutdown>>

Tick ==
    /\ hpc \notin {"Ok", "Err"} /\ elapsed < MaxTime
    /\ elapsed' = Later(elapsed) /\ age' = Older(age)
    /\ UNCHANGED <<boot, guest, sshd, requested, log, read, hpc, conn, answer, shutdown>>

Sigint ==
    /\ ~shutdown /\ shutdown' = TRUE
    /\ UNCHANGED <<machine, read, hpc, conn, answer, elapsed>>

-----------------------------------------------------------------------------
(* The test. *)

(* poll_line_timeout for the banner: the wait begins at `from`, ends at `to`. *)
PollBanner(from, to, timeout) ==
    /\ hpc = from
    /\ \/ (shutdown \/ elapsed > timeout) /\ hpc' = "Err" /\ UNCHANGED <<read, age, elapsed>>
       \/ /\ ~shutdown /\ elapsed <= timeout /\ read < Len(log)
          /\ read' = read + 1 /\ hpc' = to /\ elapsed' = 0 /\ UNCHANGED age
       \/ /\ ~shutdown /\ elapsed <= timeout /\ read = Len(log)
          /\ elapsed' = Later(elapsed) /\ age' = Older(age) /\ UNCHANGED <<read, hpc>>
    /\ UNCHANGED <<boot, guest, sshd, requested, log, conn, answer, shutdown>>

AwaitBoot == PollBanner("boot1", "ssh1", BootTimeout)

(* Fault: the login prompt is not awaited after the reboot command. *)
AwaitReboot_Skipped ==
    /\ hpc = "boot2" /\ hpc' = "ssh2" /\ elapsed' = 0
    /\ UNCHANGED <<machine, read, conn, answer, shutdown>>

AwaitReboot == PollBanner("boot2", "ssh2", RebootTimeout)

(* The head of ssh_command's loop. *)
SshAttempt ==
    /\ hpc \in {"ssh1", "ssh2"} /\ conn = "none"
    /\ \/ shutdown /\ hpc' = "Err" /\ UNCHANGED conn
       \/ ~shutdown /\ conn' = "trying" /\ UNCHANGED hpc
    /\ UNCHANGED <<machine, read, answer, elapsed, shutdown>>

(* ssh_fire_and_forget("sudo reboot"). *)
FireAndForget ==
    /\ hpc = "reboot" /\ conn = "none" /\ conn' = "trying"
    /\ UNCHANGED <<machine, read, hpc, answer, elapsed, shutdown>>

(* sshd accepts the session and executes the command. *)
SshExecutes ==
    /\ conn = "trying" /\ sshd /\ conn' = "session"
    /\ answer' = [boot |-> boot, age |-> age]
    /\ requested' = (requested \/ hpc = "reboot")
    /\ UNCHANGED <<boot, guest, age, sshd, log, read, hpc, elapsed, shutdown>>

(***************************************************************************)
(* How an ssh child may end: 255 when the connection cannot be made or is  *)
(* lost, also after the command was executed; the command's own status if  *)
(* the guest that executed it is still there; no code if ssh was killed or *)
(* could not be started.                                                   *)
(***************************************************************************)
Codes ==
    IF conn = "session" /\ answer.boot = boot THEN {"0", "1", "255", "none"}
    ELSE {"255", "none"}

(* Fault: the loop has no deadline. *)
SshReturns_NoDeadline ==
    /\ hpc \in {"ssh1", "ssh2"} /\ conn # "none" /\ conn' = "none"
    /\ \E code \in Codes :
          \/ /\ code = "0" /\ hpc' = (IF hpc = "ssh1" THEN "reboot" ELSE "uptime")
             /\ elapsed' = 0 /\ UNCHANGED age
          \/ /\ code \in {"1", "none"} /\ hpc' = "Err" /\ UNCHANGED <<elapsed, age>>
          \/ /\ code = "255"
             /\ elapsed' = Later(elapsed) /\ age' = Older(age) /\ UNCHANGED hpc
    /\ UNCHANGED <<boot, guest, sshd, requested, log, read, answer, shutdown>>

(* The rest of ssh_command's loop. *)
SshReturns ==
    /\ hpc \in {"ssh1", "ssh2"} /\ conn # "none" /\ conn' = "none"
    /\ \E code \in Codes :
          \/ /\ code = "0" /\ hpc' = (IF hpc = "ssh1" THEN "reboot" ELSE "uptime")
             /\ elapsed' = 0 /\ UNCHANGED age
          \/ /\ code \in {"1", "none"} \/ (code = "255" /\ elapsed > SshTimeout)
             /\ hpc' = "Err" /\ UNCHANGED <<elapsed, age>>
          \/ /\ code = "255" /\ elapsed <= SshTimeout
             /\ elapsed' = Later(elapsed) /\ age' = Older(age) /\ UNCHANGED hpc
    /\ UNCHANGED <<boot, guest, sshd, requested, log, read, answer, shutdown>>

(* Fault: the reboot command is retried when the connection drops. *)
FireReturns_Retries ==
    /\ hpc = "reboot" /\ conn # "none" /\ conn' = "none"
    /\ \E code \in Codes : hpc' = IF code = "255" THEN "reboot" ELSE "boot2"
    /\ elapsed' = 0
    /\ UNCHANGED <<machine, read, answer, shutdown>>

(* Fault: the child is left running when the call returns. *)
FireReturns_Leaves ==
    /\ hpc = "reboot" /\ conn # "none"
    /\ hpc' = "boot2" /\ elapsed' = 0
    /\ UNCHANGED <<machine, read, conn, answer, shutdown>>

(* ssh_fire_and_forget returns when its ssh child has ended, however it did. *)
FireReturns ==
    /\ hpc = "reboot" /\ conn # "none" /\ conn' = "none"
    /\ hpc' = "boot2" /\ elapsed' = 0
    /\ UNCHANGED <<machine, read, answer, shutdown>>

(* ensure!(uptime_secs < 120.0), if the answer can be parsed at all. *)
CheckUptime ==
    /\ hpc = "uptime"
    /\ \/ answer.age < UptimeLimit /\ hpc' = "Ok"
       \/ hpc' = "Err"
    /\ UNCHANGED <<machine, read, conn, answer, elapsed, shutdown>>

GuestStep == GuestReady \/ SshdStarts \/ GuestGoesDown \/ GuestRestarts
TestStep == AwaitBoot \/ AwaitReboot \/ SshAttempt \/ FireAndForget \/ CheckUptime
SshStep == SshReturns \/ FireReturns

Next == GuestStep \/ Tick \/ Sigint \/ TestStep \/ SshExecutes \/ SshStep

Spec == Init /\ [][Next]_vars

(* Attempts to connect are bounded by ConnectTimeout; a session is not. *)
ConnectFair == WF_vars(TestStep) /\ WF_vars(conn = "trying" /\ SshStep)
HarnessSpec == Spec /\ ConnectFair

(* In addition, every session comes to its end. *)
FairSpec == HarnessSpec /\ WF_vars(SshStep)

-----------------------------------------------------------------------------
(* Properties. *)

(***************************************************************************)
(* The comment in test_os_reboot: the second login prompt "proves the      *)
(* guest rebooted".  A test that passes has spoken to a guest that was     *)
(* started after the reboot command, whatever became of that command's     *)
(* connection and however slowly the guest went down.                      *)
(***************************************************************************)
PassMeansRebooted == hpc = "Ok" => answer.boot = 2

(***************************************************************************)
(* The reboot command drops its own connection and is not retried: the     *)
(* guest is restarted at most once per test.                               *)
(***************************************************************************)
RebootsOnce == boot <= 2 /\ (boot = 2 => ~requested)

(***************************************************************************)
(* The test ends, with or without an answer of the guest: every retry loop *)
(* of ssh_command and every poll has its deadline.                         *)
(***************************************************************************)
RebootEnds == <>(hpc \in {"Ok", "Err"})

(***************************************************************************)
(* The doc comment of ssh_fire_and_forget: "Send an SSH command without    *)
(* waiting for a response": the call comes back even if the guest never    *)
(* closes the session.                                                     *)
(***************************************************************************)
FiredIsForgotten == (hpc = "reboot") ~> (hpc # "reboot")
=============================================================================
