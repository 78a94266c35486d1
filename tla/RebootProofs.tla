---------------------------- MODULE RebootProofs ----------------------------
(***************************************************************************)
(* What test_os_reboot promises, for all timeouts: the guest is restarted  *)
(* at most once, and a test that passes has spoken to the restarted guest. *)
(*                                                                         *)
(* The argument counts banners.  A poll takes banners in order and one per *)
(* wait, so the second wait ends only when the log has two of them; the    *)
(* guest prints one per boot, so it was restarted by then; and it is       *)
(* restarted only by the one session of ssh_fire_and_forget.  From then on *)
(* only the restarted guest can answer.  None of it depends on time.       *)
(***************************************************************************)
EXTENDS Reboot, TLAPS

-----------------------------------------------------------------------------
(* The inductive invariant. *)

(* The guest has printed one banner per boot. *)
Banners == Len(log) = IF guest = "booting" THEN boot - 1 ELSE boot

(* The command is carried out once: it waits, the guest goes down, it is up. *)
Stages ==
    /\ boot \in {1, 2}
    /\ requested => boot = 1 /\ guest # "down"
    /\ guest = "down" => boot = 1

(* Until the session of "sudo reboot" was made, nobody told the guest. *)
Untold ==
    hpc \in {"boot1", "ssh1"} \/ (hpc = "reboot" /\ conn # "session") =>
        boot = 1 /\ ~requested /\ guest # "down"

(* How many banners the test has taken tells the wait that it is in. *)
Taken ==
    /\ hpc = "boot1" => read = 0
    /\ hpc \in {"ssh1", "reboot", "boot2"} => read = 1
    /\ hpc \in {"ssh2", "uptime", "Ok"} => read = 2

(* The last command was answered by the restarted guest. *)
Answered == hpc \in {"uptime", "Ok"} => answer.boot = 2

IInv == TypeOK /\ Banners /\ Stages /\ Untold /\ Taken /\ Answered

-----------------------------------------------------------------------------
(* Facts the steps rest on. *)

(* The bounds are numbers. *)
LEMMA Bounds ==
    /\ UptimeLimit \in Nat /\ MaxTime \in Nat
    /\ MaxBoot \in Nat /\ 1 \in 1 .. MaxBoot /\ 0 \in 0 .. MaxBoot
<1>1. /\ BootTimeout \in Nat /\ RebootTimeout \in Nat /\ SshTimeout \in Nat
      /\ UptimeLimit \in Nat /\ MaxBoot \in Nat /\ MaxBoot # 0
  BY TimeAssumption
<1> QED
  BY <1>1 DEF MaxTime

(* The clocks begin at zero and saturate at their bounds. *)
LEMMA ClockType ==
    /\ 0 \in 0 .. MaxTime /\ 0 \in 0 .. UptimeLimit
    /\ \A t \in 0 .. MaxTime : Later(t) \in 0 .. MaxTime
    /\ \A a \in 0 .. UptimeLimit : Older(a) \in 0 .. UptimeLimit
  BY Bounds DEF Later, Older

(* Whoever has taken two banners knows that the guest was restarted. *)
LEMMA TwoBanners == IInv /\ read = 2 => boot = 2
  BY DEF IInv, TypeOK, Banners, Stages

LEMMA InitIInv == Init => IInv
<1> SUFFICES ASSUME Init PROVE IInv
  OBVIOUS
<1>1. TypeOK
  <2>1. log = << >> /\ log \in Seq(1 .. MaxBoot) /\ read \in 0 .. Len(log)
    BY DEF Init
  <2> QED
    BY <2>1, Bounds, ClockType DEF Init, TypeOK
<1> QED
  BY <1>1 DEF Init, IInv, Banners, Stages, Untold, Taken, Answered

-----------------------------------------------------------------------------
(* The guest, the clock and the user. *)

LEMMA GuestReadyIInv == IInv /\ GuestReady => IInv'
<1> SUFFICES ASSUME IInv, GuestReady PROVE IInv'
  OBVIOUS
<1>1. log' \in Seq(1 .. MaxBoot) /\ Len(log') = Len(log) + 1
  BY DEF IInv, TypeOK, GuestReady
<1>2. TypeOK'
  BY <1>1 DEF IInv, TypeOK, GuestReady
<1> QED
  BY <1>1, <1>2 DEF IInv, TypeOK, GuestReady, Banners, Stages, Untold, Taken, Answered

LEMMA GuestRestartsIInv == IInv /\ GuestRestarts => IInv'
<1> SUFFICES ASSUME IInv, GuestRestarts PROVE IInv'
  OBVIOUS
<1>1. boot' \in 1 .. MaxBoot
  BY Bounds DEF IInv, TypeOK, GuestRestarts
<1>2. TypeOK'
  BY <1>1, Bounds, ClockType DEF IInv, TypeOK, GuestRestarts
<1> QED
  BY <1>1, <1>2 DEF IInv, TypeOK, GuestRestarts, Banners, Stages, Untold, Taken, Answered

LEMMA SurroundingsIInv ==
    IInv /\ (SshdStarts \/ GuestGoesDown \/ Tick \/ Sigint) => IInv'
<1> SUFFICES ASSUME IInv, SshdStarts \/ GuestGoesDown \/ Tick \/ Sigint PROVE IInv'
  OBVIOUS
<1>1. CASE SshdStarts
  BY <1>1 DEF IInv, TypeOK, SshdStarts, Banners, Stages, Untold, Taken, Answered
<1>2. CASE GuestGoesDown
  BY <1>2 DEF IInv, TypeOK, GuestGoesDown, Banners, Stages, Untold, Taken, Answered
<1>3. CASE Tick
  <2>1. TypeOK'
    BY <1>3, ClockType DEF IInv, TypeOK, Tick
  <2>2. Banners' /\ Stages' /\ Untold' /\ Taken' /\ Answered'
    BY <1>3 DEF IInv, Tick, Banners, Stages, Untold, Taken, Answered
  <2> QED
    BY <2>1, <2>2 DEF IInv
<1>4. CASE Sigint
  BY <1>4
     DEF IInv, TypeOK, Sigint, machine, Banners, Stages, Untold, Taken, Answered
<1> QED
  BY <1>1, <1>2, <1>3, <1>4

-----------------------------------------------------------------------------
(* The test. *)

(* A wait ends with one banner more, or the test with an error. *)
LEMMA PollBannerIInv ==
    ASSUME NEW from, NEW to, NEW timeout, IInv, PollBanner(from, to, timeout),
           <<from, to>> \in {<<"boot1", "ssh1">>, <<"boot2", "ssh2">>}
    PROVE  IInv'
<1> USE DEF PollBanner
<1>1. age' \in 0 .. UptimeLimit /\ elapsed' \in 0 .. MaxTime
  BY ClockType DEF IInv, TypeOK
<1>2. conn = "none"
  BY DEF IInv, TypeOK
<1>3. TypeOK'
  <2>1. read' \in 0 .. Len(log)
    BY DEF IInv, TypeOK
  <2> QED
    BY <1>1, <1>2, <2>1 DEF IInv, TypeOK
<1>4. Taken' /\ Untold'
  BY <1>2 DEF IInv, TypeOK, Taken, Untold
<1>5. Banners' /\ Stages' /\ Answered'
  BY DEF IInv, Banners, Stages, Answered
<1> QED
  BY <1>3, <1>4, <1>5 DEF IInv

LEMMA AwaitIInv == IInv /\ (AwaitBoot \/ AwaitReboot) => IInv'
  BY PollBannerIInv DEF AwaitBoot, AwaitReboot

LEMMA AttemptIInv == IInv /\ (SshAttempt \/ FireAndForget) => IInv'
<1> SUFFICES ASSUME IInv, SshAttempt \/ FireAndForget PROVE IInv'
  OBVIOUS
<1>1. CASE SshAttempt
  BY <1>1
     DEF IInv, TypeOK, SshAttempt, machine, Banners, Stages, Untold, Taken, Answered
<1>2. CASE FireAndForget
  BY <1>2
     DEF IInv, TypeOK, FireAndForget, machine, Banners, Stages, Untold, Taken, Answered
<1> QED
  BY <1>1, <1>2

(* The reboot command is executed once: its child is not retried. *)
LEMMA SshExecutesIInv == IInv /\ SshExecutes => IInv'
<1> SUFFICES ASSUME IInv, SshExecutes PROVE IInv'
  OBVIOUS
<1>1. hpc \in {"ssh1", "reboot", "ssh2"}
  BY DEF IInv, TypeOK, SshExecutes
<1>2. answer' \in [boot : 0 .. MaxBoot, age : 0 .. UptimeLimit]
  BY TimeAssumption DEF IInv, TypeOK, SshExecutes
<1>3. TypeOK'
  BY <1>1, <1>2 DEF IInv, TypeOK, SshExecutes
<1>4. Stages' /\ Untold'
  BY <1>1 DEF IInv, TypeOK, SshExecutes, Stages, Untold
<1>5. Banners' /\ Taken' /\ Answered'
  BY <1>1 DEF IInv, SshExecutes, Banners, Taken, Answered
<1> QED
  BY <1>3, <1>4, <1>5 DEF IInv

(* Only a session with the guest as it is now returns 0. *)
LEMMA SshReturnsIInv == IInv /\ SshReturns => IInv'
<1> SUFFICES ASSUME IInv, SshReturns PROVE IInv'
  OBVIOUS
<1>1. hpc \in {"ssh1", "ssh2"} /\ UNCHANGED <<boot, guest, sshd, requested, log, read,
                                              answer, shutdown>> /\ conn' = "none"
  BY DEF SshReturns
<1>2. PICK code \in Codes :
         \/ /\ code = "0" /\ hpc' = (IF hpc = "ssh1" THEN "reboot" ELSE "uptime")
            /\ elapsed' = 0 /\ UNCHANGED age
         \/ /\ code \in {"1", "none"} \/ (code = "255" /\ elapsed > SshTimeout)
            /\ hpc' = "Err" /\ UNCHANGED <<elapsed, age>>
         \/ /\ code = "255" /\ elapsed <= SshTimeout
            /\ elapsed' = Later(elapsed) /\ age' = Older(age) /\ UNCHANGED hpc
  BY DEF SshReturns
<1>3. age' \in 0 .. UptimeLimit /\ elapsed' \in 0 .. MaxTime
  BY <1>2, ClockType DEF IInv, TypeOK
<1>4. TypeOK'
  BY <1>1, <1>2, <1>3 DEF IInv, TypeOK
<1>5. Answered'
  <2>1. CASE hpc' = "uptime"
    <3>1. code = "0" /\ hpc = "ssh2"
      BY <1>1, <1>2, <2>1
    <3>2. answer.boot = boot
      BY <3>1 DEF Codes
    <3>3. boot = 2
      BY <3>1, TwoBanners DEF IInv, Taken
    <3> QED
      BY <1>1, <3>2, <3>3 DEF Answered
  <2>2. CASE hpc' # "uptime"
    BY <1>1, <1>2, <2>2 DEF Answered
  <2> QED
    BY <2>1, <2>2
<1>6. Banners' /\ Stages' /\ Untold' /\ Taken'
  BY <1>1, <1>2 DEF IInv, Banners, Stages, Untold, Taken
<1> QED
  BY <1>4, <1>5, <1>6 DEF IInv

LEMMA LastStepsIInv == IInv /\ (FireReturns \/ CheckUptime) => IInv'
<1> SUFFICES ASSUME IInv, FireReturns \/ CheckUptime PROVE IInv'
  OBVIOUS
<1>1. CASE FireReturns
  BY <1>1, ClockType
     DEF IInv, TypeOK, FireReturns, machine, Banners, Stages, Untold, Taken, Answered
<1>2. CASE CheckUptime
  BY <1>2
     DEF IInv, TypeOK, CheckUptime, machine, Banners, Stages, Untold, Taken, Answered
<1> QED
  BY <1>1, <1>2

LEMMA NextIInv == IInv /\ [Next]_vars => IInv'
<1> SUFFICES ASSUME IInv, [Next]_vars PROVE IInv'
  OBVIOUS
<1>1. CASE GuestStep
  BY <1>1, GuestReadyIInv, GuestRestartsIInv, SurroundingsIInv DEF GuestStep
<1>2. CASE Tick \/ Sigint
  BY <1>2, SurroundingsIInv
<1>3. CASE TestStep
  BY <1>3, AwaitIInv, AttemptIInv, LastStepsIInv DEF TestStep
<1>4. CASE SshExecutes \/ SshStep
  BY <1>4, SshExecutesIInv, SshReturnsIInv, LastStepsIInv DEF SshStep
<1>5. CASE UNCHANGED vars
  BY <1>5 DEF vars, IInv, TypeOK, Banners, Stages, Untold, Taken, Answered
<1> QED
  BY <1>1, <1>2, <1>3, <1>4, <1>5 DEF Next

-----------------------------------------------------------------------------
(* Theorems. *)

LEMMA Invariance == Spec => []IInv
  BY InitIInv, NextIInv, PTL DEF Spec

(* The state of the guest, of the test and of its ssh child is well formed. *)
THEOREM TypeCorrect == Spec => []TypeOK
<1>1. IInv => TypeOK
  BY DEF IInv
<1> QED
  BY Invariance, <1>1, PTL

(***************************************************************************)
(* The second login prompt proves the reboot: a test_os_reboot that passes *)
(* was answered by the guest that was started after the reboot command.    *)
(***************************************************************************)
THEOREM PassProvesReboot == Spec => []PassMeansRebooted
<1>1. IInv => PassMeansRebooted
  BY DEF IInv, Answered, PassMeansRebooted
<1> QED
  BY Invariance, <1>1, PTL

(***************************************************************************)
(* The reboot command is carried out at most once, whatever becomes of its *)
(* connection: ssh_fire_and_forget does not retry.                         *)
(***************************************************************************)
THEOREM AtMostOneReboot == Spec => []RebootsOnce
<1>1. IInv => RebootsOnce
  BY DEF IInv, TypeOK, Stages, RebootsOnce
<1> QED
  BY Invariance, <1>1, PTL
=============================================================================
