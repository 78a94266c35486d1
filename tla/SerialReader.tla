---------------------------- MODULE SerialReader ----------------------------
(***************************************************************************)
(* QemuProcess::poll_line_match_timeout and read_chunk (process.rs): a     *)
(* test thread polls the serial log that QEMU is still appending to.       *)
(*                                                                         *)
(* A byte that was read is represented by its position in the log, so buf, *)
(* partial and line are sets of positions; bytes are read in order and     *)
(* once, so the set determines the string, and a torn, merged or gapped    *)
(* line is a set that is not the positions of a line.                      *)
(***************************************************************************)
EXTENDS Naturals, Sequences

CONSTANTS Byte, NL, Expected,
          Capacity,   \* size of the BufReader's buffer
          Timeout,    \* the poll's timeout, in ticks
          MaxLog      \* bound: bytes the guest prints

ASSUME NLAssumption == NL \in Byte
ASSUME ExpectedAssumption == Expected \subseteq Byte \X Byte /\ Expected # {}
ASSUME CapacityAssumption == Capacity \in Nat \ {0}
ASSUME BoundAssumption == Timeout \in Nat /\ MaxLog \in Nat

VARIABLES log,        \* contents of serial.log
          filled,     \* log positions read into the BufReader so far
          pos,        \* log positions consumed from the BufReader so far
          buf,        \* read_chunk's local buf
          partial,    \* the poll's local partial
          line,       \* the last line handed to expected.matches
          taken,      \* history: end of that line
          from,       \* history: pos when the current poll began
          pc,         \* where the polling thread is
          expected,   \* the argument of the current poll
          elapsed,    \* start.elapsed(), saturating just above Timeout
          shutdown,   \* SHUTDOWN
          result      \* how the last poll ended

reader == <<filled, pos, buf, partial, line, taken>>
vars == <<log, filled, pos, buf, partial, line, taken, from, pc, expected,
          elapsed, shutdown, result>>

Results == {"none", "ok", "interrupted", "timeout", "error"}

TypeOK ==
    /\ log \in Seq(Byte) /\ Len(log) <= MaxLog
    /\ filled \in 0 .. Len(log) /\ pos \in 0 .. filled
    /\ buf \in SUBSET (1 .. pos) /\ partial \in SUBSET (1 .. pos)
    /\ line \in SUBSET (1 .. pos)
    /\ taken \in 0 .. pos /\ from \in 0 .. pos
    /\ pc \in {"idle", "check", "fill", "consume", "chunk", "sleep", "failed"}
    /\ expected \in Expected
    /\ elapsed \in 0 .. Timeout + 1
    /\ shutdown \in BOOLEAN
    /\ result \in Results

-----------------------------------------------------------------------------

IsLine(s, a, e) ==
    /\ e \in DOMAIN s /\ a \in 1 .. e /\ s[e] = NL
    /\ \A i \in a .. e - 1 : s[i] # NL
    /\ a = 1 \/ s[a - 1] = NL

(* ExpectedOutput::matches, for a SubString of two bytes. *)
Matches(x, s, l) ==
    \E i \in l : i + 1 \in l /\ s[i] = x[1] /\ s[i + 1] = x[2]

(* Fault: any bytes that were read count as a line. *)
EndsWithNL_Always(l) == l # {}

(* partial.ends_with(b"\n") *)
EndsWithNL(l) ==
    \E e \in l : log[e] = NL /\ \A i \in l : i <= e

Later(t) == IF t > Timeout THEN t ELSE t + 1

Init ==
    /\ log = << >>
    /\ filled = 0 /\ pos = 0 /\ buf = {} /\ partial = {} /\ line = {}
    /\ taken = 0 /\ from = 0
    /\ pc = "idle" /\ expected \in Expected /\ elapsed = 0
    /\ shutdown = FALSE /\ result = "none"

-----------------------------------------------------------------------------
(* The environment: QEMU's file chardev, the clock, and the SIGINT handler. *)

GuestPrints ==
    /\ Len(log) < MaxLog
    /\ \E b \in Byte : log' = Append(log, b)
    /\ UNCHANGED <<reader, from, pc, expected, elapsed, shutdown, result>>

Tick ==
    /\ pc \notin {"idle", "failed"} /\ elapsed <= Timeout
    /\ elapsed' = Later(elapsed)
    /\ UNCHANGED <<log, reader, from, pc, expected, shutdown, result>>

Sigint ==
    /\ ~shutdown /\ shutdown' = TRUE
    /\ UNCHANGED <<log, reader, from, pc, expected, elapsed, result>>

-----------------------------------------------------------------------------
(* The polling thread. *)

(* A test calls poll_line; after a poll that failed, `?` ends the test. *)
Poll ==
    /\ pc = "idle"
    /\ pc' = "check" /\ expected' \in Expected /\ elapsed' = 0
    /\ partial' = {} /\ from' = pos /\ result' = "none"
    /\ UNCHANGED <<log, filled, pos, buf, line, taken, shutdown>>

(* Fault: the loop has no deadline. *)
Check_NoDeadline ==
    /\ pc = "check"
    /\ \/ shutdown /\ pc' = "failed" /\ result' = "interrupted"
       \/ ~shutdown /\ pc' = "fill" /\ UNCHANGED result
    /\ buf' = {}
    /\ UNCHANGED <<log, filled, pos, partial, line, taken, from, expected,
                   elapsed, shutdown>>

(* The head of the loop: SHUTDOWN, then the deadline, then read_chunk. *)
Check ==
    /\ pc = "check"
    /\ \/ shutdown /\ pc' = "failed" /\ result' = "interrupted"
       \/ ~shutdown /\ elapsed > Timeout /\ pc' = "failed" /\ result' = "timeout"
       \/ ~shutdown /\ elapsed <= Timeout /\ pc' = "fill" /\ UNCHANGED result
    /\ buf' = {}
    /\ UNCHANGED <<log, filled, pos, partial, line, taken, from, expected,
                   elapsed, shutdown>>

(* Fault: the buffer counts as full whatever the read returned. *)
FillBuf_Full ==
    /\ pc = "fill" /\ pc' = "consume"
    /\ filled' = IF pos < filled THEN filled ELSE pos + Capacity
    /\ UNCHANGED <<log, pos, buf, partial, line, taken, from, expected,
                   elapsed, shutdown, result>>

(* BufReader::fill_buf: one read of the file once the buffer is used up. *)
FillBuf ==
    /\ pc = "fill" /\ pc' = "consume"
    /\ filled' = IF pos < filled THEN filled
                 ELSE IF Len(log) < pos + Capacity THEN Len(log)
                 ELSE pos + Capacity
    /\ UNCHANGED <<log, pos, buf, partial, line, taken, from, expected,
                   elapsed, shutdown, result>>

(* The read fails: read_chunk bails, whatever it had gathered is dropped. *)
ReadError ==
    /\ pc = "fill" /\ pos = filled
    /\ pc' = "failed" /\ result' = "error"
    /\ UNCHANGED <<log, reader, from, expected, elapsed, shutdown>>

(***************************************************************************)
(* One round of read_until: consume up to the first newline, or all there  *)
(* is and try to fill again; an empty fill means end of file.              *)
(***************************************************************************)
Consume ==
    /\ pc = "consume"
    /\ \/ \E e \in pos + 1 .. filled :
             /\ log[e] = NL /\ \A i \in pos + 1 .. e - 1 : log[i] # NL
             /\ buf' = buf \cup (pos + 1 .. e) /\ pos' = e /\ pc' = "chunk"
       \/ /\ \A i \in pos + 1 .. filled : log[i] # NL
          /\ buf' = buf \cup (pos + 1 .. filled) /\ pos' = filled
          /\ pc' = IF pos = filled THEN "chunk" ELSE "fill"
    /\ UNCHANGED <<log, filled, partial, line, taken, from, expected, elapsed,
                   shutdown, result>>

(* Fault: an empty read also drops the incomplete line. *)
NoProgress_DropsPartial ==
    /\ pc = "chunk" /\ buf = {} /\ pc' = "sleep" /\ partial' = {}
    /\ UNCHANGED <<log, filled, pos, buf, line, taken, from, expected, elapsed,
                   shutdown, result>>

(* read_until returned Ok(0): ChunkResult::NoProgress. *)
NoProgress ==
    /\ pc = "chunk" /\ buf = {} /\ pc' = "sleep"
    /\ UNCHANGED <<log, reader, from, expected, elapsed, shutdown, result>>

(* Fault: an incomplete line that already matches ends the poll. *)
Progress_MatchesEarly ==
    /\ pc = "chunk" /\ buf # {} /\ ~EndsWithNL(partial \cup buf)
    /\ partial' = partial \cup buf /\ buf' = {}
    /\ \/ Matches(expected, log, partial') /\ pc' = "idle" /\ result' = "ok"
       \/ ~Matches(expected, log, partial') /\ pc' = "check" /\ UNCHANGED result
    /\ UNCHANGED <<log, filled, pos, line, taken, from, expected, elapsed,
                   shutdown>>

(* The line is still incomplete: keep the bytes and read on. *)
Progress ==
    /\ pc = "chunk" /\ buf # {} /\ ~EndsWithNL(partial \cup buf)
    /\ partial' = partial \cup buf /\ buf' = {} /\ pc' = "check"
    /\ UNCHANGED <<log, filled, pos, line, taken, from, expected, elapsed,
                   shutdown, result>>

(* Fault: partial.clear() is missing. *)
Line_NoClear ==
    /\ pc = "chunk" /\ buf # {} /\ EndsWithNL(partial \cup buf)
    /\ line' = partial \cup buf
    /\ partial' = partial \cup buf /\ buf' = {} /\ taken' = pos
    /\ \/ Matches(expected, log, line') /\ pc' = "idle" /\ result' = "ok"
       \/ ~Matches(expected, log, line') /\ pc' = "check" /\ UNCHANGED result
    /\ UNCHANGED <<log, filled, pos, from, expected, elapsed, shutdown>>

(* ChunkResult::Line, and the match that decides whether the poll is done. *)
Line ==
    /\ pc = "chunk" /\ buf # {} /\ EndsWithNL(partial \cup buf)
    /\ line' = partial \cup buf
    /\ partial' = {} /\ buf' = {} /\ taken' = pos
    /\ \/ Matches(expected, log, line') /\ pc' = "idle" /\ result' = "ok"
       \/ ~Matches(expected, log, line') /\ pc' = "check" /\ UNCHANGED result
    /\ UNCHANGED <<log, filled, pos, from, expected, elapsed, shutdown>>

(* sleep(100ms): the only step of the loop that is sure to take time. *)
Sleep ==
    /\ pc = "sleep" /\ pc' = "check" /\ elapsed' = Later(elapsed)
    /\ UNCHANGED <<log, reader, from, expected, shutdown, result>>

PollStep ==
    \/ Check \/ FillBuf \/ ReadError \/ Consume
    \/ NoProgress \/ Progress \/ Line \/ Sleep

Next == GuestPrints \/ Tick \/ Sigint \/ Poll \/ PollStep

Spec == Init /\ [][Next]_vars

(* The thread in the loop is never blocked: a file read returns at once. *)
FairSpec == Spec /\ WF_vars(PollStep)

-----------------------------------------------------------------------------
(* Properties. *)

(***************************************************************************)
(* Whatever the interleaving of the guest's writes with fill_buf, the      *)
(* string handed to expected.matches is one whole line of the log: never   *)
(* a torn one, never two merged, and the bytes that wait in partial and    *)
(* buf are exactly the ones after it.                                      *)
(***************************************************************************)
WholeLines ==
    /\ line # {} => \E a \in 1 .. taken : IsLine(log, a, taken) /\ line = a .. taken
    /\ pc # "failed" => partial \cup buf = taken + 1 .. pos

(***************************************************************************)
(* No match is passed over: of the complete lines a poll has consumed,     *)
(* only the one it returned contains the expected text.                    *)
(***************************************************************************)
FirstMatch ==
    \A e \in from + 1 .. taken : \A a \in from + 1 .. e :
        IsLine(log, a, e) /\ Matches(expected, log, a .. e)
            => pc = "idle" /\ result = "ok" /\ line = a .. e

(***************************************************************************)
(* The next poll of a test starts at the beginning of a line: returning    *)
(* Ok loses no byte although partial lives only as long as the call.       *)
(***************************************************************************)
PollStartsAtLine ==
    pc = "idle" => /\ taken = pos
                   /\ pos > 0 => log[pos] = NL

(* Every poll ends: with a matching line, a timeout, an interruption or an error. *)
PollEnds == (pc = "check") ~> (pc \in {"idle", "failed"})

(* The buffered loop implements the line reader. *)
Abs == INSTANCE LineReader WITH
    next <- taken,
    status <- CASE pc = "idle" -> "idle"
                [] pc = "failed" -> "failed"
                [] OTHER -> "polling"
AbsSpec == Abs!Spec

=============================================================================
