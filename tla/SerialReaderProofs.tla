------------------------- MODULE SerialReaderProofs -------------------------
(***************************************************************************)
(* The polling loop hands over whole lines, passes no match over and       *)
(* implements LineReader, for every buffer size, timeout, alphabet, set of *)
(* expected texts and length of the log.                                   *)
(***************************************************************************)
EXTENDS SerialReader, TLAPS

Inside == {"check", "fill", "consume", "chunk", "sleep"}

(* The integer and set part of TypeOK; shutdown is treated apart. *)
Shape ==
    /\ log \in Seq(Byte) /\ Len(log) <= MaxLog
    /\ filled \in 0 .. Len(log) /\ pos \in 0 .. filled
    /\ buf \in SUBSET (1 .. pos) /\ partial \in SUBSET (1 .. pos)
    /\ line \in SUBSET (1 .. pos)
    /\ taken \in 0 .. pos /\ from \in 0 .. pos
    /\ pc \in Inside \cup {"idle", "failed"}
    /\ expected \in Expected
    /\ elapsed \in 0 .. Timeout + 1
    /\ result \in Results

(* The bytes that wait are the ones after the last line, none of them a newline... *)
Waiting ==
    /\ partial \cup buf = taken + 1 .. pos
    /\ pc \in {"idle", "check", "sleep"} => buf = {}
    /\ pc = "idle" => partial = {}
    /\ \A i \in partial : log[i] # NL
    /\ pc \in {"fill", "consume"} => \A i \in buf : log[i] # NL

(* ...but the one that ends the chunk just read; and the last line ended in one. *)
AtNewline ==
    /\ pc = "chunk" => \A i \in buf : log[i] = NL => i = pos
    /\ taken = 0 \/ log[taken] = NL

LastLine ==
    line # {} => \E a \in 1 .. taken : IsLine(log, a, taken) /\ line = a .. taken

IInv == Shape /\ Waiting /\ AtNewline /\ LastLine /\ FirstMatch

-----------------------------------------------------------------------------

LEMMA AppendKeeps ==
    ASSUME NEW s \in Seq(Byte), NEW b \in Byte
    PROVE  /\ Append(s, b) \in Seq(Byte)
           /\ Len(Append(s, b)) = Len(s) + 1
           /\ \A i \in 1 .. Len(s) : Append(s, b)[i] = s[i]
  OBVIOUS

(* What was printed stays: a line of the log remains the same line. *)
LEMMA LinesStay ==
    ASSUME NEW s \in Seq(Byte), NEW b \in Byte,
           NEW e \in 0 .. Len(s), NEW a \in Nat
    PROVE  IsLine(Append(s, b), a, e) <=> IsLine(s, a, e)
  BY AppendKeeps DEF IsLine

LEMMA MatchesStay ==
    ASSUME NEW s \in Seq(Byte), NEW b \in Byte, NEW x,
           NEW l \in SUBSET (1 .. Len(s))
    PROVE  Matches(x, Append(s, b), l) <=> Matches(x, s, l)
  BY AppendKeeps DEF Matches

(* What a complete chunk closes is exactly the next line. *)
LEMMA ChunkIsLine ==
    ASSUME Shape, Waiting, AtNewline,
           pc = "chunk", buf # {}, EndsWithNL(partial \cup buf)
    PROVE  /\ pos > taken
           /\ IsLine(log, taken + 1, pos)
           /\ \A a \in Nat, e \in taken + 1 .. pos :
                 IsLine(log, a, e) => a = taken + 1 /\ e = pos
<1>1. PICK m \in partial \cup buf : log[m] = NL /\ \A i \in partial \cup buf : i <= m
  BY DEF EndsWithNL
<1>2. m \in taken + 1 .. pos /\ pos \in Nat /\ taken \in Nat
  BY <1>1 DEF Waiting, Shape
<1>3. m = pos
  <2>1. pos \in partial \cup buf
    BY <1>2 DEF Waiting
  <2> QED
    BY <1>1, <1>2, <2>1
<1>4. \A i \in taken + 1 .. pos - 1 : log[i] # NL
  <2> SUFFICES ASSUME NEW i \in taken + 1 .. pos - 1 PROVE log[i] # NL
    OBVIOUS
  <2>1. i \in partial \cup buf /\ i # pos
    BY <1>2 DEF Waiting
  <2> QED
    BY <2>1 DEF Waiting, AtNewline
<1>5. pos > taken /\ log[pos] = NL /\ pos \in DOMAIN log
  BY <1>1, <1>2, <1>3 DEF Shape
<1>6. IsLine(log, taken + 1, pos)
  <2>1. taken + 1 = 1 \/ log[(taken + 1) - 1] = NL
    BY <1>2 DEF AtNewline
  <2> QED
    BY <1>2, <1>4, <1>5, <2>1 DEF IsLine
<1>7. ASSUME NEW a \in Nat, NEW e \in taken + 1 .. pos, IsLine(log, a, e)
      PROVE  a = taken + 1 /\ e = pos
  <2>1. e = pos
    BY <1>2, <1>4, <1>7 DEF IsLine
  <2>2. a \in 1 .. pos /\ \A i \in a .. pos - 1 : log[i] # NL
    BY <1>7, <2>1 DEF IsLine
  <2>3. ~(a <= taken)
    <3> SUFFICES ASSUME a <= taken PROVE FALSE
      OBVIOUS
    <3>1. taken \in a .. pos - 1 /\ taken # 0
      BY <1>2, <1>5, <2>2
    <3> QED
      BY <2>2, <3>1 DEF AtNewline
  <2>4. ~(a > taken + 1)
    <3> SUFFICES ASSUME a > taken + 1 PROVE FALSE
      OBVIOUS
    <3>1. log[a - 1] = NL
      BY <1>2, <1>7 DEF IsLine
    <3>2. a - 1 \in taken + 1 .. pos - 1
      BY <1>2, <2>2
    <3> QED
      BY <1>4, <3>1, <3>2
  <2> QED
    BY <1>2, <2>1, <2>2, <2>3, <2>4
<1> QED
  BY <1>5, <1>6, <1>7
-----------------------------------------------------------------------------

LEMMA InitIInv == Init => IInv
  BY BoundAssumption
  DEF Init, IInv, Shape, Waiting, AtNewline, LastLine, FirstMatch, Inside, Results

LEMMA GuestPrintsIInv == IInv /\ GuestPrints => IInv'
<1> SUFFICES ASSUME IInv, GuestPrints PROVE IInv'
  OBVIOUS
<1>1. PICK b \in Byte : log' = Append(log, b)
  BY DEF GuestPrints
<1> USE DEF IInv, GuestPrints, reader
<1>2. /\ log' \in Seq(Byte) /\ Len(log') = Len(log) + 1
      /\ \A i \in 1 .. Len(log) : log'[i] = log[i]
      /\ Len(log) \in Nat /\ pos \in 0 .. Len(log)
  BY <1>1, AppendKeeps DEF Shape
<1>3. Shape'
  BY <1>2, BoundAssumption DEF Shape
<1>4. Waiting' /\ AtNewline'
  BY <1>2 DEF Shape, Waiting, AtNewline
<1>5. LastLine'
  <2> SUFFICES ASSUME line # {}
               PROVE  \E a \in 1 .. taken : IsLine(log', a, taken) /\ line = a .. taken
    BY DEF LastLine, IsLine
  <2>1. PICK a \in 1 .. taken : IsLine(log, a, taken) /\ line = a .. taken
    BY DEF LastLine
  <2>2. IsLine(log', a, taken)
    BY <1>1, <1>2, <2>1, LinesStay DEF Shape
  <2> QED
    BY <2>1, <2>2
<1>6. FirstMatch'
  <2> SUFFICES ASSUME NEW e \in from + 1 .. taken, NEW a \in from + 1 .. e,
                      IsLine(log', a, e), Matches(expected, log', a .. e)
               PROVE  pc = "idle" /\ result = "ok" /\ line = a .. e
    BY DEF FirstMatch, IsLine, Matches
  <2>1. e \in 0 .. Len(log) /\ a \in Nat /\ a .. e \in SUBSET (1 .. Len(log))
    BY <1>2 DEF Shape
  <2>2. IsLine(log, a, e) /\ Matches(expected, log, a .. e)
    BY <1>1, <2>1, LinesStay, MatchesStay DEF Shape
  <2> QED
    BY <2>2 DEF FirstMatch
<1> QED
  BY <1>3, <1>4, <1>5, <1>6

LEMMA LineIInv == IInv /\ Line => IInv'
<1> SUFFICES ASSUME IInv, Line PROVE IInv'
  OBVIOUS
<1> USE DEF IInv
<1>1. /\ pos > taken
      /\ IsLine(log, taken + 1, pos)
      /\ \A a \in Nat, e \in taken + 1 .. pos :
            IsLine(log, a, e) => a = taken + 1 /\ e = pos
  BY ChunkIsLine DEF Line
<1>2. /\ line' = taken + 1 .. pos /\ taken' = pos
      /\ UNCHANGED <<log, filled, pos, from, expected, elapsed>>
      /\ partial' = {} /\ buf' = {}
      /\ pos \in Nat /\ taken \in Nat /\ from \in Nat
  BY DEF Line, Waiting, Shape
<1>3. Shape'
  BY <1>1, <1>2 DEF Line, Shape, Inside, Results
<1>4. Waiting'
  BY <1>1, <1>2 DEF Waiting
<1>5. AtNewline'
  BY <1>1, <1>2 DEF AtNewline, IsLine
<1>6. LastLine'
  BY <1>1, <1>2 DEF LastLine, IsLine
<1>7. FirstMatch'
  <2> SUFFICES ASSUME NEW e \in from + 1 .. pos, NEW a \in from + 1 .. e,
                      IsLine(log, a, e), Matches(expected, log, a .. e)
               PROVE  pc' = "idle" /\ result' = "ok" /\ line' = a .. e
    BY <1>2 DEF FirstMatch, IsLine, Matches
  <2>1. CASE e <= taken
    BY <1>2, <2>1 DEF FirstMatch, Line
  <2>2. CASE e > taken
    <3>1. a = taken + 1 /\ e = pos
      BY <1>1, <1>2, <2>2
    <3> QED
      BY <1>2, <3>1 DEF Line
  <2> QED
    BY <1>2, <2>1, <2>2
<1> QED
  BY <1>3, <1>4, <1>5, <1>6, <1>7

(* The steps inside a poll that hand over no line. *)
LEMMA QuietSteps ==
    ASSUME LastLine, FirstMatch, pc # "idle",
           UNCHANGED <<log, line, taken, from, expected>>
    PROVE  LastLine' /\ FirstMatch'
  BY DEF LastLine, FirstMatch, IsLine, Matches

LEMMA NextIInv == IInv /\ [Next]_vars => IInv'
<1> SUFFICES ASSUME IInv, [Next]_vars PROVE IInv'
  OBVIOUS
<1>0. Shape /\ Waiting /\ AtNewline /\ LastLine /\ FirstMatch
  BY DEF IInv
<1>1. CASE GuestPrints
  BY <1>1, GuestPrintsIInv
<1>2. CASE Tick \/ Sigint \/ UNCHANGED vars
  <2>1. UNCHANGED <<log, reader, from, pc, expected, result>>
    BY <1>2 DEF Tick, Sigint, vars, reader
  <2>2. elapsed' \in 0 .. Timeout + 1
    BY <1>0, <1>2, BoundAssumption DEF Tick, Sigint, vars, Later, Shape
  <2> QED
    BY <1>0, <2>1, <2>2
    DEF IInv, Shape, Waiting, AtNewline, LastLine, FirstMatch, IsLine, Matches, reader
<1>3. CASE Poll
  <2>1. Shape'
    BY <1>0, <1>3, BoundAssumption DEF Poll, Shape, Inside, Results
  <2>2. Waiting' /\ AtNewline' /\ LastLine'
    BY <1>0, <1>3 DEF Poll, Shape, Waiting, AtNewline, LastLine, IsLine
  <2>3. taken \in Nat /\ pos \in Nat /\ taken = pos
    BY <1>0, <1>3 DEF Poll, Shape, Waiting
  <2>4. FirstMatch'
    BY <1>3, <2>3 DEF Poll, FirstMatch
  <2> QED
    BY <2>1, <2>2, <2>4 DEF IInv
<1>4. CASE Check
  <2>1. Shape'
    BY <1>0, <1>4 DEF Check, Shape, Inside, Results
  <2>2. Waiting' /\ AtNewline'
    BY <1>0, <1>4 DEF Check, Waiting, AtNewline
  <2> QED
    BY <1>0, <1>4, <2>1, <2>2, QuietSteps DEF Check, IInv
<1>5. CASE FillBuf
  <2>1. Shape'
    BY <1>0, <1>5, CapacityAssumption DEF FillBuf, Shape, Inside
  <2>2. Waiting' /\ AtNewline'
    BY <1>0, <1>5 DEF FillBuf, Waiting, AtNewline
  <2> QED
    BY <1>0, <1>5, <2>1, <2>2, QuietSteps DEF FillBuf, IInv
<1>6. CASE ReadError
  <2>1. Shape' /\ Waiting' /\ AtNewline'
    BY <1>0, <1>6 DEF ReadError, Shape, Inside, Results, Waiting, AtNewline, reader
  <2> QED
    BY <1>0, <1>6, <2>1, QuietSteps DEF ReadError, IInv, reader
<1>7. CASE Consume
  <2>1. PICK e \in pos .. filled :
           /\ buf' = buf \cup (pos + 1 .. e) /\ pos' = e
           /\ \A i \in pos + 1 .. e - 1 : log[i] # NL
           /\ pc' = "chunk" \/ (pc' = "fill" /\ log[e] # NL /\ e > pos)
           /\ e = pos => pc' = "chunk"
    BY <1>0, <1>7 DEF Consume, Shape
  <2>2. UNCHANGED <<log, filled, partial, line, taken, from, expected, elapsed, result>>
    BY <1>7 DEF Consume
  <2>3. Shape'
    BY <1>0, <2>1, <2>2 DEF Shape, Inside
  <2>4. Waiting' /\ AtNewline'
    BY <1>0, <1>7, <2>1, <2>2 DEF Consume, Shape, Waiting, AtNewline
  <2> QED
    BY <1>0, <1>7, <2>2, <2>3, <2>4, QuietSteps DEF Consume, IInv
<1>8. CASE NoProgress \/ Sleep
  <2>0. /\ UNCHANGED <<log, reader, from, expected, result>>
        /\ pc' \in {"sleep", "check"}
    BY <1>8 DEF NoProgress, Sleep, reader
  <2>1. Shape'
    <3>1. elapsed' \in 0 .. Timeout + 1
      BY <1>0, <1>8, BoundAssumption DEF NoProgress, Sleep, Later, Shape
    <3> QED
      BY <1>0, <2>0, <3>1 DEF Shape, Inside, reader
  <2>2. Waiting' /\ AtNewline'
    BY <1>0, <1>8 DEF NoProgress, Sleep, Waiting, AtNewline, reader
  <2> QED
    BY <1>0, <1>8, <2>1, <2>2, QuietSteps DEF NoProgress, Sleep, IInv, reader
<1>9. CASE Progress
  <2>1. Shape'
    BY <1>0, <1>9 DEF Progress, Shape, Inside
  <2>2. \A i \in partial \cup buf : log[i] # NL
    <3> SUFFICES ASSUME NEW i \in partial \cup buf, log[i] = NL
                 PROVE  EndsWithNL(partial \cup buf)
      BY <1>9 DEF Progress
    <3>1. i = pos
      BY <1>0, <1>9 DEF Progress, Waiting, AtNewline
    <3>2. \A j \in partial \cup buf : j <= pos
      BY <1>0 DEF Shape
    <3> QED
      BY <3>1, <3>2 DEF EndsWithNL
  <2>3. Waiting' /\ AtNewline'
    BY <1>0, <1>9, <2>2 DEF Progress, Waiting, AtNewline
  <2> QED
    BY <1>0, <1>9, <2>1, <2>3, QuietSteps DEF Progress, IInv
<1>10. CASE Line
  BY <1>10, LineIInv
<1> QED
  BY <1>1, <1>2, <1>3, <1>4, <1>5, <1>6, <1>7, <1>8, <1>9, <1>10 DEF Next, PollStep

(* At every moment of every poll the inductive invariant holds. *)
THEOREM Invariance == Spec => []IInv
  BY InitIInv, NextIInv, PTL DEF Spec

(* The loop keeps its buffers, positions and control state well formed. *)
THEOREM TypeCorrect == Spec => []TypeOK
<1>1. Init => shutdown \in BOOLEAN
  BY Zenon DEF Init
<1>2. shutdown \in BOOLEAN /\ [Next]_vars => (shutdown \in BOOLEAN)'
  BY Zenon DEF Next, PollStep, vars, reader, GuestPrints, Tick, Sigint, Poll, Check,
               FillBuf, ReadError, Consume, NoProgress, Progress, Line, Sleep
<1>3. IInv /\ shutdown \in BOOLEAN => TypeOK
  BY DEF IInv, Shape, TypeOK, Inside
<1> QED
  BY Invariance, <1>1, <1>2, <1>3, PTL DEF Spec

(***************************************************************************)
(* Only whole lines of the log are matched, and what is kept for the next  *)
(* read_chunk is exactly what follows the last of them.                    *)
(***************************************************************************)
THEOREM LinesAreWhole == Spec => []WholeLines
<1>1. IInv => WholeLines
  BY DEF IInv, Waiting, LastLine, WholeLines
<1> QED
  BY Invariance, <1>1, PTL

(* No complete line with the expected text is read without ending the poll. *)
THEOREM NoMatchIsMissed == Spec => []FirstMatch
<1>1. IInv => FirstMatch
  BY DEF IInv
<1> QED
  BY Invariance, <1>1, PTL

(* Between two polls of a test no byte is lost. *)
THEOREM NoByteIsLost == Spec => []PollStartsAtLine
<1>1. IInv => PollStartsAtLine
  BY DEF IInv, Shape, Waiting, AtNewline, PollStartsAtLine
<1> QED
  BY Invariance, <1>1, PTL

-----------------------------------------------------------------------------

LEMMA AbsInit == Init => Abs!Init
  BY DEF Init, Abs!Init

LEMMA AbsNext == IInv /\ [Next]_vars => [Abs!Next]_(Abs!vars)
<1> SUFFICES ASSUME IInv, [Next]_vars PROVE [Abs!Next]_(Abs!vars)
  OBVIOUS
<1>1. CASE GuestPrints
  BY <1>1 DEF GuestPrints, reader, Abs!Next, Abs!Append1
<1>2. CASE Poll
  BY <1>2 DEF Poll, Abs!Next, Abs!Poll
<1>3. CASE Line
  <2>1. pos > taken /\ IsLine(log, taken + 1, pos)
    BY <1>3, ChunkIsLine DEF Line, IInv
  <2>2. line' = taken + 1 .. pos /\ taken' = pos /\ pos \in DOMAIN log
    BY <1>3, <2>1 DEF Line, IInv, Waiting, IsLine
  <2>3. Abs!TakeLine
    BY <1>3, <2>1, <2>2 DEF Line, Abs!TakeLine, Abs!IsLine, IsLine, Abs!Contains, Matches
  <2> QED
    BY <2>3 DEF Abs!Next
<1>4. CASE Check
  BY <1>4 DEF Check, Abs!Next, Abs!GiveUp, Abs!vars
<1>5. CASE ReadError
  BY <1>5 DEF ReadError, reader, Abs!Next, Abs!GiveUp
<1>6. CASE FillBuf \/ Consume \/ NoProgress \/ Progress \/ Sleep
  BY <1>6 DEF FillBuf, Consume, NoProgress, Progress, Sleep, reader, Abs!vars
<1>7. CASE Tick \/ Sigint \/ UNCHANGED vars
  BY <1>7 DEF Tick, Sigint, vars, reader, Abs!vars
<1> QED
  BY <1>1, <1>2, <1>3, <1>4, <1>5, <1>6, <1>7 DEF Next, PollStep

(***************************************************************************)
(* The buffered loop over a growing file implements the reader that takes  *)
(* the lines of the log one by one.                                        *)
(***************************************************************************)
THEOREM Refinement == Spec => AbsSpec
  BY Invariance, AbsInit, AbsNext, PTL DEF Spec, AbsSpec, Abs!Spec
=============================================================================
