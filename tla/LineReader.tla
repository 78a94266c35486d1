----------------------------- MODULE LineReader -----------------------------
(***************************************************************************)
(* What the serial console promises to a test, with no buffers, chunks or  *)
(* clocks: the guest appends bytes to a log; a poll takes the lines of the *)
(* log one by one, in order and whole, until one contains the expected     *)
(* text, or gives up.  SerialReader, the code's buffered polling loop,     *)
(* implements this specification.                                          *)
(***************************************************************************)
EXTENDS Naturals, Sequences

CONSTANTS Byte,      \* the bytes a guest prints
          NL,        \* the newline byte
          Expected   \* the texts tests wait for, two bytes each

VARIABLES log,       \* serial.log, written by QEMU only
          next,      \* the last position of the log taken by the reader
          line,      \* the positions of the line taken last
          status,    \* "idle", "polling" or "failed"
          expected   \* the text of the current or of the last poll

vars == <<log, next, line, status, expected>>

(***************************************************************************)
(* a .. e are the positions of one complete line of text s.                *)
(***************************************************************************)
IsLine(s, a, e) ==
    /\ e \in DOMAIN s /\ a \in 1 .. e /\ s[e] = NL
    /\ \A i \in a .. e - 1 : s[i] # NL
    /\ a = 1 \/ s[a - 1] = NL

(***************************************************************************)
(* line.contains(x) for the bytes of s at the positions l.                 *)
(***************************************************************************)
Contains(s, l, x) ==
    \E i \in l : i + 1 \in l /\ s[i] = x[1] /\ s[i + 1] = x[2]

Init ==
    /\ log = << >> /\ next = 0 /\ line = {}
    /\ status = "idle" /\ expected \in Expected

Append1 ==
    /\ \E b \in Byte : log' = Append(log, b)
    /\ UNCHANGED <<next, line, status, expected>>

Poll ==
    /\ status = "idle"
    /\ status' = "polling" /\ expected' \in Expected
    /\ UNCHANGED <<log, next, line>>

(***************************************************************************)
(* The poll takes the first line that it has not taken yet and ends there  *)
(* exactly if that line contains the expected text.                        *)
(***************************************************************************)
TakeLine ==
    /\ status = "polling"
    /\ \E e \in DOMAIN log :
          /\ IsLine(log, next + 1, e)
          /\ line' = next + 1 .. e
          /\ next' = e
    /\ status' = IF Contains(log, line', expected) THEN "idle" ELSE "polling"
    /\ UNCHANGED <<log, expected>>

(* Timeout, interruption or a read error: the test does not poll again. *)
GiveUp ==
    /\ status = "polling" /\ status' = "failed"
    /\ UNCHANGED <<log, next, line, expected>>

Next == Append1 \/ Poll \/ TakeLine \/ GiveUp

Spec == Init /\ [][Next]_vars
=============================================================================
