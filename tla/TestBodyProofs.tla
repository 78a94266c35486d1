--------------------------- MODULE TestBodyProofs ---------------------------
(***************************************************************************)
(* Nothing a QEMU uses goes before its QemuProcess, nothing is shared and  *)
(* nothing stays behind but the child of a failed spawn, for every test    *)
(* function of the kinds Plans allows, at whichever operation it fails and *)
(* whatever runs in parallel.                                              *)
(*                                                                         *)
(* The argument is one about order.  The operations that acquire something *)
(* come in the same order in every body; so the stack of locals is sorted  *)
(* by it, and what is dropped last-in first-out was needed by nobody left. *)
(*                                                                         *)
(* The two command lines of a migration agree on what the guest sees: part *)
(* by part, and then as a whole.                                           *)
(*                                                                         *)
(* For ssh, where a body copies the files of the disk is known by          *)
(* position; so the disk holds as many files as were copied, all of them   *)
(* when QEMU is spawned, and the guest keeps what it booted from when it   *)
(* moves to the destination.                                               *)
(*                                                                         *)
(* At the end, what a test has at each of its operations tells which step  *)
(* of TestRunner the operation is.                                         *)
(***************************************************************************)
EXTENDS TestBody, SequenceTheorems, FiniteSetTheorems, TLAPS

PoolThms == INSTANCE TapPoolProofs WITH Worker <- Test

Op == {"src_dir", "dst_dir", "mig_dir", "payload", "taps", "keygen", "stage", "mkdosfs",
       "mcopy", "spawn", "port", "await", "ssh", "reboot", "dest", "migrate"}

(* The order in which a body acquires things; 0 for what may come anywhere. *)
Rank(op) ==
    CASE op = "src_dir" -> 1 [] op = "dst_dir" -> 2 [] op = "mig_dir" -> 3
      [] op = "payload" -> 4 [] op = "taps" -> 5 [] op = "keygen" -> 6
      [] op = "stage" -> 7 [] op = "mkdosfs" -> 8 [] op = "spawn" -> 9
      [] op = "dest" -> 10 [] op = "migrate" -> 11 [] OTHER -> 0

Local == {"src_dir", "dst_dir", "mig_dir", "taps", "ci", "src", "dst"}

(* The operation that declares a local. *)
Maker(x) == CASE x = "ci" -> "keygen" [] x = "src" -> "spawn" [] x = "dst" -> "dest"
              [] OTHER -> x

-----------------------------------------------------------------------------
(* Sequences and the sets of their elements. *)

(* s is a sequence of exactly the elements of S. *)
Lists(s, S) == s \in Seq(S) /\ ToSet(s) = S

LEMMA ToSetElements ==
    ASSUME NEW S, NEW s \in Seq(S)
    PROVE  /\ ToSet(s) \subseteq S
           /\ \A i \in 1 .. Len(s) : s[i] \in ToSet(s)
           /\ \A x \in ToSet(s) : \E i \in 1 .. Len(s) : s[i] = x
  BY DEF ToSet

LEMMA EmptyLists == Lists(<< >>, {})
  BY DEF Lists, ToSet

LEMMA LiteralLists ==
    /\ \A x : Lists(<<x>>, {x})
    /\ \A x, y : Lists(<<x, y>>, {x, y})
    /\ \A x, y, z : Lists(<<x, y, z>>, {x, y, z})
<1>1. \A x : Lists(<<x>>, {x})
  <2> SUFFICES ASSUME NEW x PROVE Lists(<<x>>, {x})
    OBVIOUS
  <2>1. <<x>> \in Seq({x}) /\ DOMAIN <<x>> = {1} /\ <<x>>[1] = x
    OBVIOUS
  <2> QED
    BY <2>1 DEF Lists, ToSet
<1>2. \A x, y : Lists(<<x, y>>, {x, y})
  <2> SUFFICES ASSUME NEW x, NEW y PROVE Lists(<<x, y>>, {x, y})
    OBVIOUS
  <2>1. /\ <<x, y>> \in Seq({x, y}) /\ DOMAIN <<x, y>> = {1, 2}
        /\ <<x, y>>[1] = x /\ <<x, y>>[2] = y
    OBVIOUS
  <2> QED
    BY <2>1 DEF Lists, ToSet
<1>3. \A x, y, z : Lists(<<x, y, z>>, {x, y, z})
  <2> SUFFICES ASSUME NEW x, NEW y, NEW z PROVE Lists(<<x, y, z>>, {x, y, z})
    OBVIOUS
  <2>1. /\ <<x, y, z>> \in Seq({x, y, z}) /\ DOMAIN <<x, y, z>> = {1, 2, 3}
        /\ <<x, y, z>>[1] = x /\ <<x, y, z>>[2] = y /\ <<x, y, z>>[3] = z
    OBVIOUS
  <2> QED
    BY <2>1 DEF Lists, ToSet
<1> QED
  BY <1>1, <1>2, <1>3

LEMMA ConcatLists ==
    ASSUME NEW s, NEW S, NEW t, NEW T, Lists(s, S), Lists(t, T)
    PROVE  Lists(s \o t, S \cup T)
<1> DEFINE U == S \cup T
<1>1. s \in Seq(U) /\ t \in Seq(U)
  BY SeqMonotonic DEF Lists
<1>2. /\ s \o t \in Seq(U) /\ Len(s \o t) = Len(s) + Len(t)
      /\ \A i \in 1 .. Len(s) + Len(t) :
            (s \o t)[i] = IF i <= Len(s) THEN s[i] ELSE t[i - Len(s)]
  BY <1>1, ConcatProperties
<1>3. ASSUME NEW x \in U
      PROVE  x \in ToSet(s \o t)
  <2>1. CASE x \in S
    <3>1. PICK i \in 1 .. Len(s) : s[i] = x
      BY <2>1, ToSetElements DEF Lists
    <3>2. Len(s) \in Nat /\ Len(t) \in Nat
      BY <1>1
    <3>3. i \in 1 .. Len(s \o t) /\ (s \o t)[i] = x
      BY <3>1, <3>2, <1>2
    <3> QED
      BY <3>3, <1>2, ToSetElements
  <2>2. CASE x \in T
    <3>1. PICK i \in 1 .. Len(t) : t[i] = x
      BY <2>2, ToSetElements DEF Lists
    <3>2. Len(s) \in Nat /\ Len(t) \in Nat
      BY <1>1
    <3>3. i + Len(s) \in 1 .. Len(s \o t) /\ (s \o t)[i + Len(s)] = x
      BY <3>1, <3>2, <1>2
    <3> QED
      BY <3>3, <1>2, ToSetElements
  <2> QED
    BY <2>1, <2>2
<1> QED
  BY <1>2, <1>3, ToSetElements DEF Lists

(* What remains after the first element, and before the last one. *)
LEMMA HeadAndTail ==
    ASSUME NEW S, NEW s \in Seq(S), s # << >>
    PROVE  /\ Head(s) \in ToSet(s) /\ Tail(s) \in Seq(S)
           /\ ToSet(s) = ToSet(Tail(s)) \cup {Head(s)}
<1>1. /\ Len(s) \in Nat \ {0} /\ Head(s) = s[1] /\ Tail(s) \in Seq(S)
      /\ Len(Tail(s)) = Len(s) - 1
      /\ \A i \in 1 .. Len(Tail(s)) : Tail(s)[i] = s[i + 1]
  BY HeadTailProperties, EmptySeq
<1>2. ASSUME NEW x \in ToSet(s) PROVE x \in ToSet(Tail(s)) \cup {Head(s)}
  <2>1. PICK i \in 1 .. Len(s) : s[i] = x
    BY ToSetElements
  <2>2. CASE i = 1
    BY <2>1, <2>2, <1>1
  <2>3. CASE i # 1
    <3>1. i - 1 \in 1 .. Len(Tail(s)) /\ Tail(s)[i - 1] = x
      BY <2>1, <2>3, <1>1
    <3> QED
      BY <3>1, <1>1, ToSetElements
  <2> QED
    BY <2>2, <2>3
<1>3. ASSUME NEW x \in ToSet(Tail(s)) PROVE x \in ToSet(s)
  <2> DEFINE r == Tail(s)
  <2>1. PICK i \in 1 .. Len(r) : r[i] = x
    <3>1. r \in Seq(S) /\ x \in ToSet(r)
      BY <1>1
    <3> HIDE DEF r
    <3> QED
      BY <3>1, ToSetElements
  <2>2. i + 1 \in 1 .. Len(s) /\ s[i + 1] = x
    BY <2>1, <1>1
  <2> QED
    BY <2>2, ToSetElements
<1>4. 1 \in 1 .. Len(s) /\ s[1] \in ToSet(s)
  BY <1>1, ToSetElements
<1> QED
  BY <1>1, <1>2, <1>3, <1>4

LEMMA Pushed ==
    ASSUME NEW S, NEW s \in Seq(S), NEW x \in S
    PROVE  /\ Append(s, x) \in Seq(S) /\ ToSet(Append(s, x)) = ToSet(s) \cup {x}
           /\ Len(Append(s, x)) = Len(s) + 1 /\ Len(s) \in Nat
           /\ \A i \in 1 .. Len(s) : Append(s, x)[i] = s[i]
           /\ Append(s, x)[Len(s) + 1] = x
<1>1. /\ Append(s, x) \in Seq(S) /\ Len(Append(s, x)) = Len(s) + 1 /\ Len(s) \in Nat
      /\ \A i \in 1 .. Len(s) : Append(s, x)[i] = s[i]
      /\ Append(s, x)[Len(s) + 1] = x
  OBVIOUS
<1>2. ASSUME NEW y \in ToSet(s) \cup {x} PROVE y \in ToSet(Append(s, x))
  <2>1. PICK i \in 1 .. Len(s) + 1 : Append(s, x)[i] = y
    BY <1>1, ToSetElements
  <2> QED
    BY <2>1, <1>1, ToSetElements
<1>3. ASSUME NEW y \in ToSet(Append(s, x)) PROVE y \in ToSet(s) \cup {x}
  <2>1. PICK i \in 1 .. Len(s) + 1 : Append(s, x)[i] = y
    BY <1>1, ToSetElements
  <2> QED
    BY <2>1, <1>1, ToSetElements
<1> QED
  BY <1>1, <1>2, <1>3

LEMMA Popped ==
    ASSUME NEW S, NEW s \in Seq(S), s # << >>
    PROVE  /\ Len(s) \in Nat \ {0} /\ Last(s) = s[Len(s)] /\ Last(s) \in ToSet(s)
           /\ Front(s) \in Seq(S) /\ Len(Front(s)) = Len(s) - 1
           /\ \A i \in 1 .. Len(s) - 1 : Front(s)[i] = s[i]
           /\ ToSet(s) = ToSet(Front(s)) \cup {Last(s)}
<1>1. Len(s) \in Nat \ {0} /\ \A i \in 1 .. Len(s) : s[i] \in S
  BY EmptySeq, ElementOfSeq
<1>2. /\ Front(s) \in Seq(S) /\ Len(Front(s)) = Len(s) - 1
      /\ \A i \in 1 .. Len(s) - 1 : Front(s)[i] = s[i]
  <2> DEFINE n == Len(s) - 1
  <2>1. n \in Nat /\ \A i \in 1 .. n : s[i] \in S
    BY <1>1
  <2> HIDE DEF n
  <2>2. SubSeq(s, 1, n) \in Seq(S) /\ Len(SubSeq(s, 1, n)) = n
    BY <2>1
  <2>3. \A i \in 1 .. n : SubSeq(s, 1, n)[i] = s[i]
    BY <2>1
  <2> QED
    BY <2>2, <2>3 DEF Front, n
<1>3. ToSet(s) \subseteq ToSet(Front(s)) \cup {Last(s)}
  <2> SUFFICES ASSUME NEW x \in ToSet(s) PROVE x \in ToSet(Front(s)) \cup {Last(s)}
    OBVIOUS
  <2>1. PICK i \in 1 .. Len(s) : s[i] = x
    BY ToSetElements
  <2>2. CASE i = Len(s)
    BY <2>1, <2>2 DEF Last
  <2>3. CASE i # Len(s)
    <3>1. i \in 1 .. Len(Front(s)) /\ Front(s)[i] = x
      BY <2>1, <2>3, <1>1, <1>2
    <3> QED
      BY <3>1, <1>2, ToSetElements
  <2> QED
    BY <2>2, <2>3
<1>4. ToSet(Front(s)) \subseteq ToSet(s)
  <2> SUFFICES ASSUME NEW x \in ToSet(Front(s)) PROVE x \in ToSet(s)
    OBVIOUS
  <2>1. PICK i \in 1 .. Len(Front(s)) : Front(s)[i] = x
    BY <1>2, ToSetElements
  <2>2. i \in 1 .. Len(s) /\ s[i] = x
    BY <2>1, <1>1, <1>2
  <2> QED
    BY <2>2, ToSetElements
<1>5. Last(s) = s[Len(s)] /\ Last(s) \in ToSet(s)
  BY <1>1, ToSetElements DEF Last
<1> QED
  BY <1>1, <1>2, <1>3, <1>4, <1>5

-----------------------------------------------------------------------------
(* The order of operations in a body. *)

(* What is acquired once is acquired in the order of Rank. *)
Ordered(s) ==
    \A i, j \in 1 .. Len(s) :
        i < j /\ Rank(s[i]) # 0 /\ Rank(s[j]) # 0 => Rank(s[i]) < Rank(s[j])

(* s is an ordered sequence of the operations in S, with ranks from lo to hi. *)
Segment(s, S, lo, hi) ==
    /\ s \in Seq(Op) /\ ToSet(s) = S /\ Ordered(s)
    /\ \A x \in S : Rank(x) = 0 \/ (lo <= Rank(x) /\ Rank(x) <= hi)

LEMMA RankType == \A op : Rank(op) \in Nat
  BY DEF Rank

LEMMA ConcatSegments ==
    ASSUME NEW s, NEW S, NEW t, NEW T, NEW a \in Nat, NEW b \in Nat, NEW c \in Nat,
           NEW d \in Nat, Segment(s, S, a, b), Segment(t, T, c, d),
           a <= c, b < c, b <= d
    PROVE  Segment(s \o t, S \cup T, a, d)
<1>1. Lists(s, S) /\ Lists(t, T)
  <2>1. \A r, R : r \in Seq(Op) /\ ToSet(r) = R => r \in Seq(R)
    <3> SUFFICES ASSUME NEW r \in Seq(Op) PROVE r \in Seq(ToSet(r))
      OBVIOUS
    <3>1. Len(r) \in Nat /\ r \in [1 .. Len(r) -> Op]
      BY LenProperties
    <3>2. r \in [1 .. Len(r) -> ToSet(r)]
      BY <3>1, ToSetElements
    <3> QED
      BY <3>1, <3>2, SeqDef
  <2> QED
    BY <2>1 DEF Segment, Lists
<1>2. /\ s \o t \in Seq(Op) /\ Len(s \o t) = Len(s) + Len(t)
      /\ Len(s) \in Nat /\ Len(t) \in Nat
      /\ \A i \in 1 .. Len(s) + Len(t) :
            (s \o t)[i] = IF i <= Len(s) THEN s[i] ELSE t[i - Len(s)]
  BY ConcatProperties DEF Segment
<1>3. ToSet(s \o t) = S \cup T
  <2>1. Lists(s \o t, S \cup T)
    BY <1>1, ConcatLists
  <2> QED
    BY <2>1 DEF Lists
<1>4. Ordered(s \o t)
  <2> SUFFICES ASSUME NEW i \in 1 .. Len(s) + Len(t), NEW j \in 1 .. Len(s) + Len(t),
                      i < j, Rank((s \o t)[i]) # 0, Rank((s \o t)[j]) # 0
               PROVE  Rank((s \o t)[i]) < Rank((s \o t)[j])
    BY <1>2 DEF Ordered
  <2>1. CASE j <= Len(s)
    <3>1. i \in 1 .. Len(s) /\ j \in 1 .. Len(s) /\ (s \o t)[i] = s[i] /\ (s \o t)[j] = s[j]
      BY <1>2, <2>1
    <3> QED
      BY <3>1 DEF Segment, Ordered
  <2>2. CASE i > Len(s)
    <3>1. /\ i - Len(s) \in 1 .. Len(t) /\ j - Len(s) \in 1 .. Len(t)
          /\ i - Len(s) < j - Len(s)
          /\ (s \o t)[i] = t[i - Len(s)] /\ (s \o t)[j] = t[j - Len(s)]
      BY <1>2, <2>2
    <3> QED
      BY <3>1 DEF Segment, Ordered
  <2>3. CASE i <= Len(s) /\ j > Len(s)
    <3>1. /\ i \in 1 .. Len(s) /\ j - Len(s) \in 1 .. Len(t)
          /\ (s \o t)[i] = s[i] /\ (s \o t)[j] = t[j - Len(s)]
      BY <1>2, <2>3
    <3>2. s[i] \in S /\ t[j - Len(s)] \in T
      BY <3>1, ToSetElements DEF Segment
    <3>3. Rank(s[i]) <= b /\ c <= Rank(t[j - Len(s)])
      BY <3>1, <3>2 DEF Segment
    <3> QED
      BY <3>1, <3>3, RankType
  <2> QED
    BY <1>2, <2>1, <2>2, <2>3
<1>5. \A x \in S \cup T : Rank(x) = 0 \/ (a <= Rank(x) /\ Rank(x) <= d)
  <2> SUFFICES ASSUME NEW x \in S \cup T, Rank(x) # 0
               PROVE  a <= Rank(x) /\ Rank(x) <= d
    OBVIOUS
  <2>1. (a <= Rank(x) /\ Rank(x) <= b) \/ (c <= Rank(x) /\ Rank(x) <= d)
    BY DEF Segment
  <2> QED
    BY <2>1, RankType
<1> QED
  BY <1>2, <1>3, <1>4, <1>5 DEF Segment

Given(b, S) == IF b THEN S ELSE {}

LEMMA AppendWhen ==
    ASSUME NEW s, NEW S, NEW t, NEW T, NEW b, NEW lo \in Nat, NEW m \in Nat, NEW n \in Nat,
           NEW hi \in Nat, Segment(s, S, lo, m), Segment(t, T, n, hi),
           lo <= n, m < n, m <= hi
    PROVE  Segment(s \o When(b, t), S \cup Given(b, T), lo, hi)
<1>1. CASE b
  BY <1>1, ConcatSegments DEF When, Given
<1>2. CASE ~b
  <2>1. Segment(<< >>, {}, n, hi)
    BY EmptyLists DEF Segment, Ordered, Lists
  <2> QED
    BY <1>2, <2>1, ConcatSegments DEF When, Given
<1> QED
  BY <1>1, <1>2

(* The operations of each part of a body. *)
LEMMA Parts ==
    /\ Segment(<<"src_dir">>, {"src_dir"}, 1, 1)
    /\ Segment(<<"dst_dir", "mig_dir">>, {"dst_dir", "mig_dir"}, 2, 3)
    /\ Segment(<<"payload">>, {"payload"}, 4, 4)
    /\ Segment(<<"taps">>, {"taps"}, 5, 5)
    /\ Segment(<<"keygen", "stage", "mkdosfs", "mcopy", "mcopy", "mcopy">>,
               {"keygen", "stage", "mkdosfs", "mcopy"}, 6, 8)
    /\ Segment(<<"spawn">>, {"spawn"}, 9, 9)
    /\ \A op \in {"port", "await", "ssh"} : Segment(<<op>>, {op}, 10, 9)
    /\ Segment(<<"reboot", "await", "ssh">>, {"reboot", "await", "ssh"}, 10, 9)
    /\ Segment(<<"dest", "migrate">>, {"dest", "migrate"}, 10, 11)
    /\ \A op \in {"await", "ssh"} : Segment(<<op>>, {op}, 12, 11)
<1>1. ASSUME NEW op \in Op, NEW lo \in Nat, NEW hi \in Nat,
             Rank(op) = 0 \/ (lo <= Rank(op) /\ Rank(op) <= hi)
      PROVE  Segment(<<op>>, {op}, lo, hi)
  BY <1>1, LiteralLists DEF Segment, Lists, Ordered
<1>2. Segment(<<"dst_dir", "mig_dir">>, {"dst_dir", "mig_dir"}, 2, 3)
  BY LiteralLists DEF Segment, Lists, Ordered, Rank, Op
<1>3. Segment(<<"keygen", "stage", "mkdosfs", "mcopy", "mcopy", "mcopy">>,
             {"keygen", "stage", "mkdosfs", "mcopy"}, 6, 8)
  <2> DEFINE s == <<"keygen", "stage", "mkdosfs", "mcopy", "mcopy", "mcopy">>
  <2>1. s \in Seq(Op) /\ Len(s) = 6 /\ DOMAIN s = 1 .. 6
    BY DEF Op
  <2>2. /\ s[1] = "keygen" /\ s[2] = "stage" /\ s[3] = "mkdosfs"
        /\ s[4] = "mcopy" /\ s[5] = "mcopy" /\ s[6] = "mcopy"
    OBVIOUS
  <2> HIDE DEF s
  <2>3. ToSet(s) = {"keygen", "stage", "mkdosfs", "mcopy"}
    BY <2>1, <2>2 DEF ToSet
  <2>4. Ordered(s)
    BY <2>1, <2>2 DEF Ordered, Rank
  <2> QED
    BY <2>1, <2>3, <2>4 DEF Segment, Rank, s
<1>4. Segment(<<"reboot", "await", "ssh">>, {"reboot", "await", "ssh"}, 10, 9)
  BY LiteralLists DEF Segment, Lists, Ordered, Rank, Op
<1>5. Segment(<<"dest", "migrate">>, {"dest", "migrate"}, 10, 11)
  BY LiteralLists DEF Segment, Lists, Ordered, Rank, Op
<1>6. /\ Segment(<<"src_dir">>, {"src_dir"}, 1, 1) /\ Segment(<<"payload">>, {"payload"}, 4, 4)
      /\ Segment(<<"taps">>, {"taps"}, 5, 5) /\ Segment(<<"spawn">>, {"spawn"}, 9, 9)
  BY <1>1 DEF Op, Rank
<1>7. ASSUME NEW op \in {"port", "await", "ssh"}
      PROVE  Segment(<<op>>, {op}, 10, 9) /\ Segment(<<op>>, {op}, 12, 11)
  <2>1. op \in Op /\ Rank(op) = 0
    BY DEF Op, Rank
  <2> QED
    BY <1>1, <2>1
<1> QED
  BY <1>2, <1>3, <1>4, <1>5, <1>6, <1>7

(* Every body is ordered, and these are its operations. *)
BodyOps(p) ==
    {"src_dir"}
    \cup Given(p.migrates, {"dst_dir", "mig_dir"})
    \cup Given(p.payload = "GuestBin", {"payload"})
    \cup Given(UsesTaps(p), {"taps"})
    \cup Given(p.payload = "DiskImage", {"keygen", "stage", "mkdosfs", "mcopy"})
    \cup {"spawn"}
    \cup Given(p.payload = "DiskImage" /\ ~p.migrates, {"port"})
    \cup Given(p.waits, {"await"})
    \cup Given(p.payload = "DiskImage", {"ssh"})
    \cup Given(p.reboots, {"reboot", "await", "ssh"})
    \cup Given(UsesTaps(p) /\ p.stress # {}, {"ssh"})
    \cup Given(p.migrates, {"dest", "migrate"})
    \cup Given(UsesTaps(p) /\ p.stress # {}, {"ssh"})
    \cup Given(p.migrates /\ p.payload # "DiskImage", {"await"})

LEMMA BodyOrdered ==
    ASSUME NEW p
    PROVE  Segment(Body(p), BodyOps(p), 1, 11)
<1> DEFINE
      s0 == <<"src_dir">>
      S0 == {"src_dir"}
      s1 == s0 \o When(p.migrates, <<"dst_dir", "mig_dir">>)
      S1 == S0 \cup Given(p.migrates, {"dst_dir", "mig_dir"})
      s2 == s1 \o When(p.payload = "GuestBin", <<"payload">>)
      S2 == S1 \cup Given(p.payload = "GuestBin", {"payload"})
      s3 == s2 \o When(UsesTaps(p), <<"taps">>)
      S3 == S2 \cup Given(UsesTaps(p), {"taps"})
      s4 == s3 \o When(p.payload = "DiskImage",
                       <<"keygen", "stage", "mkdosfs", "mcopy", "mcopy", "mcopy">>)
      S4 == S3 \cup Given(p.payload = "DiskImage", {"keygen", "stage", "mkdosfs", "mcopy"})
      s5 == s4 \o <<"spawn">>
      S5 == S4 \cup {"spawn"}
      s6 == s5 \o When(p.payload = "DiskImage" /\ ~p.migrates, <<"port">>)
      S6 == S5 \cup Given(p.payload = "DiskImage" /\ ~p.migrates, {"port"})
      s7 == s6 \o When(p.waits, <<"await">>)
      S7 == S6 \cup Given(p.waits, {"await"})
      s8 == s7 \o When(p.payload = "DiskImage", <<"ssh">>)
      S8 == S7 \cup Given(p.payload = "DiskImage", {"ssh"})
      s9 == s8 \o When(p.reboots, <<"reboot", "await", "ssh">>)
      S9 == S8 \cup Given(p.reboots, {"reboot", "await", "ssh"})
      s10 == s9 \o When(UsesTaps(p) /\ p.stress # {}, <<"ssh">>)
      S10 == S9 \cup Given(UsesTaps(p) /\ p.stress # {}, {"ssh"})
      s11 == s10 \o When(p.migrates, <<"dest", "migrate">>)
      S11 == S10 \cup Given(p.migrates, {"dest", "migrate"})
      s12 == s11 \o When(UsesTaps(p) /\ p.stress # {}, <<"ssh">>)
      S12 == S11 \cup Given(UsesTaps(p) /\ p.stress # {}, {"ssh"})
      s13 == s12 \o When(p.migrates /\ p.payload # "DiskImage", <<"await">>)
      S13 == S12 \cup Given(p.migrates /\ p.payload # "DiskImage", {"await"})
<1>3. Body(p) = s13 /\ BodyOps(p) = S13
  BY DEF Body, BodyOps
<1>4. Segment(s3, S3, 1, 5)
  <2>1. Segment(s1, S1, 1, 3)
    BY AppendWhen, Parts
  <2> HIDE DEF s1, S1
  <2>2. Segment(s2, S2, 1, 4)
    BY AppendWhen, <2>1, Parts
  <2> HIDE DEF s2, S2
  <2> QED
    BY AppendWhen, <2>2, Parts
<1> HIDE DEF s3, S3
<1>5. Segment(s5, S5, 1, 9)
  <2>1. Segment(s4, S4, 1, 8)
    BY AppendWhen, <1>4, Parts
  <2> HIDE DEF s4, S4
  <2> QED
    BY ConcatSegments, <2>1, Parts
<1> HIDE DEF s5, S5
<1>6. Segment(s8, S8, 1, 9)
  <2>1. Segment(s6, S6, 1, 9)
    BY AppendWhen, <1>5, Parts
  <2> HIDE DEF s6, S6
  <2>2. Segment(s7, S7, 1, 9)
    BY AppendWhen, <2>1, Parts
  <2> HIDE DEF s7, S7
  <2> QED
    BY AppendWhen, <2>2, Parts
<1> HIDE DEF s8, S8
<1>7. Segment(s10, S10, 1, 9)
  <2>1. Segment(s9, S9, 1, 9)
    BY AppendWhen, <1>6, Parts
  <2> HIDE DEF s9, S9
  <2> QED
    BY AppendWhen, <2>1, Parts
<1> HIDE DEF s10, S10
<1>8. Segment(s12, S12, 1, 11)
  <2>1. Segment(s11, S11, 1, 11)
    BY AppendWhen, <1>7, Parts
  <2> HIDE DEF s11, S11
  <2> QED
    BY AppendWhen, <2>1, Parts
<1> HIDE DEF s12, S12
<1>9. Segment(s13, S13, 1, 11)
  BY AppendWhen, <1>8, Parts
<1> QED
  BY <1>3, <1>9

-----------------------------------------------------------------------------
(* The options of a command line. *)

PayloadOptions(c) ==
    CASE c.payload = "GuestBin" -> {Drive("disk", File(c.dir[1], "guest.bin"), "rw")}
      [] c.payload = "Kernel" -> {<<"-kernel", "vmlinuz-virt">>, <<"-append", "console">>}
                                 \cup Given(c.initrd # {}, {<<"-initrd", c.initrd>>})
      [] c.payload = "DiskImage" ->
             {Drive("os", <<"payload", "os-image.qcow2">>, "snapshot"),
              Device("virtio-blk", {"os"} \cup (IF c.io_thread THEN {"io0"} ELSE {}), {})}

Options(c) ==
    Given(~c.allow_reboot, {<<"-no-reboot">>})
    \cup Given(c.cpu # {}, {<<"-cpu", c.cpu>>})
    \cup {<<"-qmp", Append(c.dir, "qmp.sock")>>, <<"-serial", Append(c.dir, "serial.log")>>,
          <<"-M", c.machine>>}
    \cup Given(c.io_thread, {<<"-object", "io0">>})
    \cup PayloadOptions(c)
    \cup {<<"-m", c.ram>>}
    \cup Given(c.smp # {}, {<<"-smp", c.smp>>})
    \cup Given(c.incoming, {<<"-incoming", "defer">>})
    \cup Given(c.rtc # {}, {<<"-rtc", c.rtc>>})
    \cup Given(c.ovmf # {}, {Drive("pflash", <<"payload", The(c.ovmf)>>, "readonly")})
    \cup Given(c.cloud_init # {}, {Drive("cidata", The(c.cloud_init), "readonly"),
                                   Device("virtio-blk", {"cidata"}, {})})
    \cup Given(c.net # {}, {<<"-netdev", "net0", The(c.net).ifname>>,
                            Device("virtio-net", {"net0"}, {The(c.net).mac})})

LEMMA AppendWhenLists ==
    ASSUME NEW s, NEW S, NEW b, NEW t, NEW T, Lists(s, S), Lists(t, T)
    PROVE  Lists(s \o When(b, t), S \cup Given(b, T))
<1>1. CASE b
  BY <1>1, ConcatLists DEF When, Given
<1>2. CASE ~b
  BY <1>2, ConcatLists, EmptyLists DEF When, Given
<1> QED
  BY <1>1, <1>2

Payload == {"GuestBin", "Kernel", "DiskImage"}

LEMMA PayloadListed ==
    ASSUME NEW c, c.payload \in Payload
    PROVE  Lists(PayloadArgs(c), PayloadOptions(c))
<1>1. CASE c.payload = "Kernel"
  <2>1. Lists(<< <<"-kernel", "vmlinuz-virt">>, <<"-append", "console">> >>,
              {<<"-kernel", "vmlinuz-virt">>, <<"-append", "console">>})
    BY LiteralLists
  <2>2. Lists(<< <<"-initrd", c.initrd>> >>, {<<"-initrd", c.initrd>>})
    BY LiteralLists
  <2> QED
    BY <1>1, <2>1, <2>2, AppendWhenLists DEF PayloadArgs, PayloadOptions
<1>2. CASE c.payload # "Kernel"
  BY <1>2, LiteralLists DEF PayloadArgs, PayloadOptions, OsDisk, Payload
<1> QED
  BY <1>1, <1>2

LEMMA ArgsAreOptions ==
    ASSUME NEW c, c.payload \in Payload
    PROVE  ToSet(Args(c)) = Options(c)
<1> DEFINE
      s1 == When(~c.allow_reboot, << <<"-no-reboot">> >>)
      S1 == Given(~c.allow_reboot, {<<"-no-reboot">>})
      s2 == s1 \o When(c.cpu # {}, << <<"-cpu", c.cpu>> >>)
      S2 == S1 \cup Given(c.cpu # {}, {<<"-cpu", c.cpu>>})
      s3 == s2 \o << <<"-qmp", Append(c.dir, "qmp.sock")>>,
                    <<"-serial", Append(c.dir, "serial.log")>>, <<"-M", c.machine>> >>
      S3 == S2 \cup {<<"-qmp", Append(c.dir, "qmp.sock")>>,
                     <<"-serial", Append(c.dir, "serial.log")>>, <<"-M", c.machine>>}
      s4 == s3 \o When(c.io_thread, << <<"-object", "io0">> >>)
      S4 == S3 \cup Given(c.io_thread, {<<"-object", "io0">>})
      s5 == s4 \o PayloadArgs(c)
      S5 == S4 \cup PayloadOptions(c)
      s6 == s5 \o << <<"-m", c.ram>> >>
      S6 == S5 \cup {<<"-m", c.ram>>}
      s7 == s6 \o When(c.smp # {}, << <<"-smp", c.smp>> >>)
      S7 == S6 \cup Given(c.smp # {}, {<<"-smp", c.smp>>})
      s8 == s7 \o When(c.incoming, << <<"-incoming", "defer">> >>)
      S8 == S7 \cup Given(c.incoming, {<<"-incoming", "defer">>})
      s9 == s8 \o When(c.rtc # {}, << <<"-rtc", c.rtc>> >>)
      S9 == S8 \cup Given(c.rtc # {}, {<<"-rtc", c.rtc>>})
      s10 == s9 \o When(c.ovmf # {}, <<Drive("pflash", <<"payload", The(c.ovmf)>>, "readonly")>>)
      S10 == S9 \cup Given(c.ovmf # {}, {Drive("pflash", <<"payload", The(c.ovmf)>>, "readonly")})
      s11 == s10 \o When(c.cloud_init # {}, <<Drive("cidata", The(c.cloud_init), "readonly"),
                                              Device("virtio-blk", {"cidata"}, {})>>)
      S11 == S10 \cup Given(c.cloud_init # {}, {Drive("cidata", The(c.cloud_init), "readonly"),
                                                Device("virtio-blk", {"cidata"}, {})})
      s12 == s11 \o When(c.net # {}, NetArgs(The(c.net)))
      S12 == S11 \cup Given(c.net # {}, {<<"-netdev", "net0", The(c.net).ifname>>,
                                         Device("virtio-net", {"net0"}, {The(c.net).mac})})
<1>1. Args(c) = s12 /\ Options(c) = S12
  BY DEF Args, Options, Objects
<1>2. Lists(PayloadArgs(c), PayloadOptions(c))
  BY PayloadListed
<1>3. Lists(NetArgs(The(c.net)), {<<"-netdev", "net0", The(c.net).ifname>>,
                                  Device("virtio-net", {"net0"}, {The(c.net).mac})})
  BY LiteralLists DEF NetArgs
<1>4. Lists(s3, S3)
  <2>1. Lists(s1, S1)
    BY LiteralLists, EmptyLists DEF When, Given
  <2> HIDE DEF s1, S1
  <2>2. Lists(s2, S2)
    BY AppendWhenLists, <2>1, LiteralLists
  <2> HIDE DEF s2, S2
  <2> QED
    BY ConcatLists, <2>2, LiteralLists
<1> HIDE DEF s3, S3
<1>5. Lists(s6, S6)
  <2>1. Lists(s4, S4)
    BY AppendWhenLists, <1>4, LiteralLists
  <2> HIDE DEF s4, S4
  <2>2. Lists(s5, S5)
    BY ConcatLists, <2>1, <1>2
  <2> HIDE DEF s5, S5
  <2> QED
    BY ConcatLists, <2>2, LiteralLists
<1> HIDE DEF s6, S6
<1>6. Lists(s9, S9)
  <2>1. Lists(s7, S7)
    BY AppendWhenLists, <1>5, LiteralLists
  <2> HIDE DEF s7, S7
  <2>2. Lists(s8, S8)
    BY AppendWhenLists, <2>1, LiteralLists
  <2> HIDE DEF s8, S8
  <2> QED
    BY AppendWhenLists, <2>2, LiteralLists
<1> HIDE DEF s9, S9
<1>7. Lists(s12, S12)
  <2>1. Lists(s10, S10)
    BY AppendWhenLists, <1>6, LiteralLists
  <2> HIDE DEF s10, S10
  <2>2. Lists(s11, S11)
    BY AppendWhenLists, <2>1, LiteralLists
  <2> HIDE DEF s11, S11
  <2> QED
    BY AppendWhenLists, <2>2, <1>3
<1> QED
  BY <1>1, <1>7 DEF Lists

(* What the options refer to on the host. *)
LEMMA HostSide ==
    ASSUME NEW q, NEW c, c.payload \in Payload, q.args = Args(c)
    PROVE  /\ Logs(q) = {Append(c.dir, "qmp.sock"), Append(c.dir, "serial.log")}
           /\ TapsOf(q) = IF c.net = {} THEN {} ELSE The(c.net).ifname
           /\ Images(q, {"rw"}) =
                 IF c.payload = "GuestBin" THEN {File(c.dir[1], "guest.bin")} ELSE {}
           /\ Images(q, {"rw", "readonly"}) \subseteq
                 {File(c.dir[1], "guest.bin"), <<"payload", The(c.ovmf)>>}
                 \cup (IF c.cloud_init = {} THEN {} ELSE {The(c.cloud_init)})
<1>1. \A opts : Having(q, opts) = {a \in Options(c) : a[1] \in opts}
  BY ArgsAreOptions DEF Having
<1> USE DEF Given, Drive, Device
<1>2. Having(q, {"-qmp", "-serial"}) = {<<"-qmp", Append(c.dir, "qmp.sock")>>,
                                        <<"-serial", Append(c.dir, "serial.log")>>}
  BY <1>1 DEF Options, PayloadOptions, Payload
<1>3. Having(q, {"-netdev"}) =
          IF c.net = {} THEN {} ELSE {<<"-netdev", "net0", The(c.net).ifname>>}
  <2>1. CASE c.net = {}
    BY <1>1, <2>1 DEF Options, PayloadOptions, Payload
  <2>2. CASE c.net # {}
    <3> DEFINE o == <<"-netdev", "net0", The(c.net).ifname>>
    <3>1. o \in Options(c) /\ o[1] = "-netdev"
      BY <2>2 DEF Options
    <3>2. \A a \in Options(c) : a[1] = "-netdev" => a = o
      BY <2>2 DEF Options, PayloadOptions, Payload
    <3> HIDE DEF o
    <3>3. Having(q, {"-netdev"}) = {o}
      BY <1>1, <3>1, <3>2
    <3> QED
      BY <2>2, <3>3 DEF o
  <2> QED
    BY <2>1, <2>2
<1>4. Logs(q) = {Append(c.dir, "qmp.sock"), Append(c.dir, "serial.log")}
  <2>1. \A x, y : {a[2] : a \in {x, y}} = {x[2], y[2]}
    OBVIOUS
  <2> DEFINE
        x == <<"-qmp", Append(c.dir, "qmp.sock")>>
        y == <<"-serial", Append(c.dir, "serial.log")>>
  <2>2. x[2] = Append(c.dir, "qmp.sock") /\ y[2] = Append(c.dir, "serial.log")
    OBVIOUS
  <2>3. Having(q, {"-qmp", "-serial"}) = {x, y}
    BY <1>2
  <2> HIDE DEF x, y
  <2>4. Logs(q) = {x[2], y[2]}
    BY <2>1, <2>3 DEF Logs
  <2> QED
    BY <2>2, <2>4
<1>5. TapsOf(q) = IF c.net = {} THEN {} ELSE The(c.net).ifname
  <2>1. CASE c.net = {}
    BY <1>3, <2>1 DEF TapsOf
  <2>2. CASE c.net # {}
    <3>1. {a[3] : a \in Having(q, {"-netdev"})} = {The(c.net).ifname}
      <4>1. Having(q, {"-netdev"}) = {<<"-netdev", "net0", The(c.net).ifname>>}
        BY <1>3, <2>2
      <4>2. \A o : {a[3] : a \in {o}} = {o[3]}
        OBVIOUS
      <4> QED
        BY <4>1, <4>2
    <3> QED
      BY <2>2, <3>1 DEF TapsOf
  <2> QED
    BY <2>1, <2>2
<1> DEFINE
      Pflash == Given(c.ovmf # {}, {Drive("pflash", <<"payload", The(c.ovmf)>>, "readonly")})
      Cidata == Given(c.cloud_init # {}, {Drive("cidata", The(c.cloud_init), "readonly")})
<1>6. Having(q, {"-drive"}) =
          {a \in PayloadOptions(c) : a[1] = "-drive"} \cup Pflash \cup Cidata
  <2>1. ASSUME NEW a \in Options(c), a[1] = "-drive"
        PROVE  a \in PayloadOptions(c) \cup Pflash \cup Cidata
    BY <2>1 DEF Options
  <2>2. \A a \in Pflash \cup Cidata : a \in Options(c) /\ a[1] = "-drive"
    BY DEF Options
  <2>3. PayloadOptions(c) \subseteq Options(c)
    BY DEF Options
  <2> HIDE DEF Pflash, Cidata
  <2> QED
    BY <1>1, <2>1, <2>2, <2>3
<1>7. {a \in PayloadOptions(c) : a[1] = "-drive"} =
          CASE c.payload = "GuestBin" -> {Drive("disk", File(c.dir[1], "guest.bin"), "rw")}
            [] c.payload = "Kernel" -> {}
            [] c.payload = "DiskImage" ->
                   {Drive("os", <<"payload", "os-image.qcow2">>, "snapshot")}
  BY DEF PayloadOptions, Payload
<1>8. Images(q, {"rw"}) =
          IF c.payload = "GuestBin" THEN {File(c.dir[1], "guest.bin")} ELSE {}
  <2>1. ASSUME NEW d \in Having(q, {"-drive"}), d[4] = "rw"
        PROVE  c.payload = "GuestBin" /\ d[3] = File(c.dir[1], "guest.bin")
    BY <1>6, <1>7, <2>1 DEF Payload
  <2>2. ASSUME c.payload = "GuestBin"
        PROVE  \E d \in Having(q, {"-drive"}) : d[4] = "rw" /\ d[3] = File(c.dir[1], "guest.bin")
    <3>1. Drive("disk", File(c.dir[1], "guest.bin"), "rw") \in Having(q, {"-drive"})
      BY <1>6, <1>7, <2>2
    <3> QED
      BY <3>1
  <2> QED
    BY <2>1, <2>2 DEF Images
<1>9. Images(q, {"rw", "readonly"}) \subseteq
          {File(c.dir[1], "guest.bin"), <<"payload", The(c.ovmf)>>}
          \cup (IF c.cloud_init = {} THEN {} ELSE {The(c.cloud_init)})
  <2>1. ASSUME NEW d \in Having(q, {"-drive"}), d[4] \in {"rw", "readonly"}
        PROVE  d[3] \in {File(c.dir[1], "guest.bin"), <<"payload", The(c.ovmf)>>}
                        \cup (IF c.cloud_init = {} THEN {} ELSE {The(c.cloud_init)})
    BY <1>6, <1>7, <2>1 DEF Payload
  <2> QED
    BY <2>1 DEF Images
<1> QED
  BY <1>4, <1>5, <1>8, <1>9

-----------------------------------------------------------------------------
(* The pool. *)

(* The assumptions of TapPoolProofs, and its names for the pool's operations. *)
LEMMA PoolNames ==
    /\ Jobs \in Nat /\ Existing \subseteq Nat
    /\ PoolThms!IsFiniteSet(Test) /\ Test # {}
    /\ Pool!Spec <=> PoolThms!Spec
<1>1. PoolThms!IsFiniteSet(Test)
  BY PoolAssumption DEF PoolThms!IsFiniteSet, IsFiniteSet
<1>2. Pool!Init <=> PoolThms!Init
  BY DEF Pool!Init, PoolThms!Init
<1>3. [Pool!Next]_(Pool!vars) <=> [PoolThms!Next]_(PoolThms!vars)
  BY DEF Pool!Next, PoolThms!Next, Pool!vars, PoolThms!vars, Pool!Allocate,
         PoolThms!Allocate, Pool!AllocateFails, PoolThms!AllocateFails, Pool!Release,
         PoolThms!Release, Pool!Opened, PoolThms!Opened, Pool!FullPools,
         PoolThms!FullPools, Pool!Valid, PoolThms!Valid, Pool!Cardinality,
         PoolThms!Cardinality
<1> QED
  BY <1>1, <1>2, <1>3, PoolAssumption, PTL DEF Pool!Spec, PoolThms!Spec

Step(t) ==
    \/ Claim(t) \/ Start(t) \/ TempDir(t) \/ AllocateTaps(t) \/ NoTaps(t)
    \/ WritePayload(t) \/ KeyGen(t) \/ StageFiles(t) \/ MakeImage(t) \/ CopyFile(t)
    \/ SpawnSrc(t) \/ SpawnDst(t) \/ Migrate(t) \/ Observe(t)
    \/ Fails(t) \/ Succeeds(t) \/ Drop(t) \/ Return(t) \/ Report(t)

LEMMA StepUsesPool ==
    ASSUME NEW t \in Test, Step(t)
    PROVE  [Pool!Next]_(Pool!vars)
<1>1. \/ UNCHANGED taps \/ Pool!Allocate(t) \/ Pool!AllocateFails(t) \/ Pool!Release(t)
  BY Zenon DEF Step, Claim, Start, TempDir, AllocateTaps, NoTaps, WritePayload, KeyGen,
     StageFiles, MakeImage, CopyFile, SpawnSrc, SpawnDst, Migrate, Observe, Fails,
     Succeeds, Drop, Return, Report
<1> QED
  BY <1>1 DEF taps, Pool!vars, Pool!Next

(***************************************************************************)
(* The tests use TAP_POOL as TapPool allows: only by allocate_taps and by  *)
(* the drop of the TapPair.                                                *)
(***************************************************************************)
LEMMA BodiesUsePool == Spec => Pool!Spec
<1>1. Init => Pool!Init
  BY DEF Init
<1>2. [Next]_vars => [Pool!Next]_(Pool!vars)
  <2>1. UNCHANGED vars => UNCHANGED Pool!vars
    BY DEF vars, taps, Pool!vars
  <2>2. Next => \E t \in Test : Step(t)
    BY DEF Next, Step
  <2> QED
    BY <2>1, <2>2, StepUsesPool
<1> QED
  BY <1>1, <1>2, PTL DEF Spec, Pool!Spec

(* What TapPoolProofs shows of the pool, in the names of this module. *)
PoolInv ==
    /\ Pool!TypeOK /\ Pool!Conserved
    /\ \A t \in Test : \A i, j \in held[t] : i = j

LEMMA PoolInvariance == Spec => []PoolInv
<1>1. PoolThms!IInv => PoolInv
  BY DEF PoolInv, Pool!TypeOK, Pool!Conserved, Pool!Valid, Pool!Free,
         PoolThms!IInv, PoolThms!TypeOK, PoolThms!Conserved, PoolThms!Valid,
         PoolThms!Free, PoolThms!Single
<1>2. PoolThms!Spec => []PoolThms!IInv
  BY PoolNames, PoolThms!Invariance
<1> QED
  BY BodiesUsePool, PoolNames, <1>1, <1>2, PTL

(* A step of the pool for one test leaves the pairs of the others alone. *)
LEMMA PoolFrame ==
    ASSUME PoolInv, NEW t \in Test,
           \/ UNCHANGED taps \/ Pool!Allocate(t) \/ Pool!AllocateFails(t) \/ Pool!Release(t)
    PROVE  /\ \A u \in Test : u # t => held'[u] = held[u]
           /\ Pool!Allocate(t) => held'[t] # {}
           /\ Pool!Release(t) => held'[t] = {}
           /\ Pool!AllocateFails(t) \/ UNCHANGED taps => held'[t] = held[t]
<1>1. DOMAIN held = Test
  BY DEF PoolInv, Pool!TypeOK
<1> QED
  BY <1>1 DEF taps, Pool!Allocate, Pool!AllocateFails, Pool!Release

-----------------------------------------------------------------------------
(* The inductive invariant, test by test. *)

Have(t) == ToSet(locals[t])

Left(t) == ToSet(todo[t])

LocalRank(x) == Rank(Maker(x))

Phase == {"queued", "claimed", "run", "unwind", "returned", "reported"}

Shape ==
    /\ plan \in Plans /\ phase \in [Test -> Phase]
    /\ todo \in [Test -> Seq(Op)] /\ locals \in [Test -> Seq(Local)]
    /\ ok \in [Test -> BOOLEAN] /\ DOMAIN disk = Test
    /\ \A f \in files : f[1] \in Test
    /\ \A q \in vms : q.test \in Test
    /\ \A o \in orphans : o.test \in Test

(* What is left to do is the end of the body, and all of it before the start. *)
Rest(t) ==
    LET body == Body(plan[t])
    IN /\ Len(todo[t]) <= Len(body)
       /\ \A i \in 1 .. Len(todo[t]) : todo[t][i] = body[i + (Len(body) - Len(todo[t]))]
       /\ phase[t] \in {"queued", "claimed"} => todo[t] = body
       /\ phase[t] \in {"unwind", "returned", "reported"} => todo[t] = << >>

(***************************************************************************)
(* The locals were declared in the order of the body: all that is declared *)
(* comes before what is left, while the body runs nothing was skipped, and *)
(* on the way out no local is left that was declared after one that went.  *)
(***************************************************************************)
Stacked(t) ==
    /\ \A i, j \in 1 .. Len(locals[t]) :
          i < j => LocalRank(locals[t][i]) < LocalRank(locals[t][j])
    /\ \A x \in Have(t) : \A op \in Left(t) : Rank(op) # 0 => LocalRank(x) < Rank(op)
    /\ phase[t] \in {"queued", "claimed", "run"} =>
          \A x \in Local : Maker(x) \in BodyOps(plan[t]) => x \in Have(t) \/ Maker(x) \in Left(t)
    /\ \A x \in Have(t), y \in Local :
          Maker(y) \in BodyOps(plan[t]) /\ LocalRank(y) < LocalRank(x) => y \in Have(t)
    /\ phase[t] \in {"queued", "claimed", "returned", "reported"} => locals[t] = << >>

(* A test has a pair exactly while the TapPair is one of its locals. *)
HoldsTaps(t) == "taps" \in Have(t) <=> held[t] # {}

(* Directories and the files in them. *)
Path(t, d) == <<t, d>>

PathTo(t, d, n) == <<t, d, n>>

(* A file is in a directory that is still a local of its test. *)
Homes(t) ==
    \A f \in files : f[1] = t =>
        \E d \in Dirs : d \in Have(t) /\ SubSeq(f, 1, 2) = Path(t, d)

Config(t, role) == IF role = "src" THEN SrcConfig(t) ELSE DstConfig(t)

Fields == {"test", "role", "state", "args", "guest"}

(* The QEMUs of a test are its locals, and were started as configured. *)
Machines(t) ==
    /\ \A q \in vms : q.test = t =>
          /\ DOMAIN q = Fields
          /\ q.role \in {"src", "dst"} /\ q.role \in Have(t)
          /\ q.state \in {"running", "inmigrate", "postmigrate"}
          /\ q.args = Args(Config(t, q.role))
    /\ \A q, r \in vms : q.test = t /\ r.test = t /\ q.role = r.role => q = r
    /\ \A x \in {"src", "dst"} : x \in Have(t) => \E q \in vms : q.test = t /\ q.role = x

(* What a QEMU uses on disk. *)
Uses(q) == Logs(q) \cup {f \in Images(q, {"rw", "readonly"}) : OnDisk(f)}

Present(t) == \A q \in vms : q.test = t => Uses(q) \subseteq files

Dir(role) == IF role = "src" THEN "src_dir" ELSE "dst_dir"

Tap(t, role) ==
    IF role = "src" THEN Pool!SrcTap(The(held[t])) ELSE Pool!DstTap(The(held[t]))

(***************************************************************************)
(* What the child of a failed spawn has opened, if it came that far: files *)
(* in its test's directory, and the tap of its role while its test holds   *)
(* the pair.                                                               *)
(***************************************************************************)
Abandoned(t, o) ==
    /\ o.role \in {"src", "dst"}
    /\ Logs(o) = {PathTo(t, Dir(o.role), "qmp.sock"), PathTo(t, Dir(o.role), "serial.log")}
    /\ Images(o, {"rw"}) \subseteq {File(t, "guest.bin")}
    /\ held[t] # {} => TapsOf(o) \subseteq {Tap(t, o.role)}

(***************************************************************************)
(* Only a test that failed leaves a child behind, and only the one of the  *)
(* spawn that failed, which no QemuProcess of the test was made for.       *)
(***************************************************************************)
Blamed(t) ==
    \A o \in orphans : o.test = t =>
        /\ ok[t] = FALSE /\ phase[t] \in {"unwind", "returned", "reported"}
        /\ Abandoned(t, o)
        /\ \A p \in orphans : p.test = t => o = p
        /\ \A q \in vms : q.test = t => q.role # o.role

Own(t) ==
    /\ Rest(t) /\ Stacked(t) /\ HoldsTaps(t) /\ Homes(t) /\ Machines(t)
    /\ Present(t) /\ Blamed(t)

IInv == Shape /\ \A t \in Test : Own(t)

-----------------------------------------------------------------------------
(* What a QEMU uses, by its test and role. *)

LEMMA SamePath ==
    ASSUME NEW S, NEW r \in Seq(S), NEW s \in Seq(S), Len(r) = Len(s), Len(r) \in {2, 3},
           r[1] = s[1], r[2] = s[2], Len(r) = 3 => r[3] = s[3]
    PROVE  r = s
<1>1. \A i \in 1 .. Len(r) : i = 1 \/ i = 2 \/ (i = 3 /\ Len(r) = 3)
  OBVIOUS
<1> QED
  BY <1>1, SeqEqual

LEMMA Shortened ==
    ASSUME NEW S, NEW s \in Seq(S), Len(s) = 3
    PROVE  /\ SubSeq(s, 1, 2) \in Seq(S) /\ Len(SubSeq(s, 1, 2)) = 2
           /\ SubSeq(s, 1, 2)[1] = s[1] /\ SubSeq(s, 1, 2)[2] = s[2]
  OBVIOUS

LEMMA Lengthened ==
    ASSUME NEW S, NEW s \in Seq(S), NEW x \in S
    PROVE  Len(s) = 2 =>
               /\ Append(s, x) \in Seq(S) /\ Len(Append(s, x)) = 3
               /\ Append(s, x)[1] = s[1] /\ Append(s, x)[2] = s[2] /\ Append(s, x)[3] = x
<1> DEFINE r == Append(s, x)
<1>1. /\ r \in Seq(S) /\ Len(r) = Len(s) + 1 /\ Len(s) \in Nat
      /\ \A i \in 1 .. Len(s) : r[i] = s[i]
      /\ r[Len(s) + 1] = x
  BY Pushed
<1> HIDE DEF r
<1>2. ASSUME Len(s) = 2 PROVE r[1] = s[1] /\ r[2] = s[2]
  BY <1>1, <1>2
<1>3. ASSUME Len(s) = 2 PROVE r \in Seq(S) /\ Len(r) = 3
  BY <1>1, <1>3
<1>4. ASSUME Len(s) = 2 PROVE r[3] = x
  <2>1. Len(s) + 1 = 3
    BY <1>4
  <2> QED
    BY <1>1, <2>1
<1> QED
  BY <1>2, <1>3, <1>4 DEF r

LEMMA PathsByElement ==
    ASSUME NEW S, NEW two \in Seq(S), NEW three \in Seq(S), NEW n \in S,
           Len(two) = 2, Len(three) = 3,
           three[1] = two[1], three[2] = two[2], three[3] = n
    PROVE  /\ Append(two, n) = three
           /\ SubSeq(two, 1, 2) = two /\ SubSeq(three, 1, 2) = two
           /\ ~OnDisk(two)
<1>1. Append(two, n) = three
  BY Lengthened, SamePath
<1>2. SubSeq(three, 1, 2) = two
  BY Shortened, SamePath
<1>3. SubSeq(two, 1, 2) = two
  BY SubSeqFull
<1>4. ~OnDisk(two)
  BY DEF OnDisk
<1> QED
  BY <1>1, <1>2, <1>3, <1>4

LEMMA Paths ==
    ASSUME NEW t, NEW d, NEW n
    PROVE  /\ Append(Path(t, d), n) = PathTo(t, d, n)
           /\ SubSeq(Path(t, d), 1, 2) = Path(t, d)
           /\ SubSeq(PathTo(t, d, n), 1, 2) = Path(t, d)
           /\ Path(t, d)[1] = t /\ Path(t, d)[2] = d /\ PathTo(t, d, n)[1] = t
           /\ PathTo(t, d, n)[2] = d /\ PathTo(t, d, n)[3] = n
           /\ ~OnDisk(Path(t, d)) /\ OnDisk(PathTo(t, d, n))
<1> DEFINE S == {t, d, n}
<1>1. /\ Path(t, d) \in Seq(S) /\ Len(Path(t, d)) = 2
      /\ Path(t, d)[1] = t /\ Path(t, d)[2] = d
  BY DEF Path
<1>2. /\ PathTo(t, d, n) \in Seq(S) /\ Len(PathTo(t, d, n)) = 3
      /\ PathTo(t, d, n)[1] = t /\ PathTo(t, d, n)[2] = d /\ PathTo(t, d, n)[3] = n
  BY DEF PathTo
<1>3. n \in S
  OBVIOUS
<1> HIDE DEF S
<1>4. OnDisk(PathTo(t, d, n))
  BY <1>2 DEF OnDisk
<1> QED
  BY <1>1, <1>2, <1>3, <1>4, PathsByElement

LEMMA ConfigFields ==
    ASSUME NEW t \in Test, Shape
    PROVE  LET p == plan[t]
               s == SrcConfig(t)
               d == DstConfig(t)
           IN /\ p \in Plan
              /\ s.payload = p.payload /\ d.payload = p.payload
              /\ s.dir = Path(t, "src_dir") /\ d.dir = Path(t, "dst_dir")
              /\ s.cloud_init = Given(p.payload = "DiskImage", {File(t, "cidata.img")})
              /\ d.cloud_init = s.cloud_init
              /\ s.net = Given(p.payload = "DiskImage", {SrcNet(t)})
              /\ d.net = IF UsesTaps(p) THEN {DstNet(t)} ELSE s.net
<1>1. plan[t] \in Plan
  BY PlanAssumption DEF Shape
<1>2. /\ SrcConfig(t).payload = plan[t].payload /\ SrcConfig(t).dir = Path(t, "src_dir")
      /\ SrcConfig(t).cloud_init = Given(plan[t].payload = "DiskImage", {File(t, "cidata.img")})
      /\ SrcConfig(t).net = Given(plan[t].payload = "DiskImage", {SrcNet(t)})
  BY DEF SrcConfig, Default, Given, Path
<1>3. /\ DstConfig(t).payload = SrcConfig(t).payload /\ DstConfig(t).dir = Path(t, "dst_dir")
      /\ DstConfig(t).cloud_init = SrcConfig(t).cloud_init
      /\ DstConfig(t).net = IF UsesTaps(plan[t]) THEN {DstNet(t)} ELSE SrcConfig(t).net
  BY DEF DstConfig, SrcConfig, Default, Path
<1> QED
  BY <1>1, <1>2, <1>3

LEMMA Chosen == \A x : The({x}) = x
  BY DEF The

LEMMA QemuUses ==
    ASSUME IInv, NEW t \in Test, NEW q, NEW role \in {"src", "dst"},
           q.args = Args(Config(t, role))
    PROVE  /\ Logs(q) = {PathTo(t, Dir(role), "qmp.sock"), PathTo(t, Dir(role), "serial.log")}
           /\ Uses(q) \subseteq Logs(q) \cup {File(t, "guest.bin"), File(t, "cidata.img")}
           /\ Images(q, {"rw"}) \subseteq {File(t, "guest.bin")}
           /\ TapsOf(q) = IF UsesTaps(plan[t]) THEN {Tap(t, role)} ELSE {}
<1> DEFINE c == Config(t, role)
           p == plan[t]
<1>1. /\ p \in Plan /\ c.payload = p.payload /\ c.dir = Path(t, Dir(role))
      /\ c.cloud_init = Given(p.payload = "DiskImage", {File(t, "cidata.img")})
      /\ c.net = IF UsesTaps(p) /\ role = "dst" THEN {DstNet(t)}
                 ELSE Given(p.payload = "DiskImage", {SrcNet(t)})
  BY ConfigFields DEF IInv, Config, Dir
<1>2. c.payload \in Payload
  BY <1>1 DEF Plan, Payload
<1>3. q.args = Args(c)
  OBVIOUS
<1>4. c.dir[1] = t /\ Append(c.dir, "qmp.sock") = PathTo(t, Dir(role), "qmp.sock")
      /\ Append(c.dir, "serial.log") = PathTo(t, Dir(role), "serial.log")
  <2>1. c.dir = Path(t, Dir(role))
    BY <1>1
  <2> HIDE DEF c
  <2> QED
    BY <2>1, Paths
<1> HIDE DEF c, p
<1>5. /\ Logs(q) = {Append(c.dir, "qmp.sock"), Append(c.dir, "serial.log")}
      /\ TapsOf(q) = IF c.net = {} THEN {} ELSE The(c.net).ifname
      /\ Images(q, {"rw"}) =
            IF c.payload = "GuestBin" THEN {File(c.dir[1], "guest.bin")} ELSE {}
      /\ Images(q, {"rw", "readonly"}) \subseteq
            {File(c.dir[1], "guest.bin"), <<"payload", The(c.ovmf)>>}
            \cup (IF c.cloud_init = {} THEN {} ELSE {The(c.cloud_init)})
  BY <1>2, <1>3, HostSide
<1>6. Uses(q) \subseteq Logs(q) \cup {File(t, "guest.bin"), File(t, "cidata.img")}
  <2>1. c.cloud_init = {} \/ The(c.cloud_init) = File(t, "cidata.img")
    BY <1>1, Chosen DEF Given
  <2>2. ~OnDisk(<<"payload", The(c.ovmf)>>)
    <3>1. \A d : ~OnDisk(Path("payload", d))
      BY Paths
    <3> QED
      BY <3>1 DEF Path
  <2>3. Images(q, {"rw", "readonly"}) \subseteq
            {File(t, "guest.bin"), <<"payload", The(c.ovmf)>>, File(t, "cidata.img")}
    BY <1>4, <1>5, <2>1
  <2> QED
    BY <2>2, <2>3 DEF Uses
<1>7. TapsOf(q) = IF UsesTaps(plan[t]) THEN {Tap(t, role)} ELSE {}
  <2>1. SrcNet(t).ifname = IF UsesTaps(p) THEN {Pool!SrcTap(The(held[t]))} ELSE {}
    BY DEF SrcNet, TapNet, UserNet, p
  <2>2. DstNet(t).ifname = {Pool!DstTap(The(held[t]))}
    BY DEF DstNet, TapNet
  <2>3. UsesTaps(p) => p.payload = "DiskImage"
    BY DEF UsesTaps
  <2>4. CASE UsesTaps(p) /\ role = "dst"
    <3>1. c.net = {DstNet(t)} /\ The(c.net) = DstNet(t)
      BY <1>1, <2>4, Chosen
    <3> QED
      BY <1>5, <2>2, <2>4, <3>1 DEF Tap, p
  <2>5. CASE ~(UsesTaps(p) /\ role = "dst") /\ p.payload = "DiskImage"
    <3>1. c.net = {SrcNet(t)} /\ The(c.net) = SrcNet(t)
      BY <1>1, <2>5, Chosen DEF Given
    <3> QED
      BY <1>5, <2>1, <2>5, <3>1 DEF Tap, p
  <2>6. CASE ~(UsesTaps(p) /\ role = "dst") /\ p.payload # "DiskImage"
    BY <1>1, <1>5, <2>3, <2>6 DEF Given, p
  <2> QED
    BY <2>4, <2>5, <2>6
<1> QED
  BY <1>4, <1>5, <1>6, <1>7

-----------------------------------------------------------------------------
(* The other tests. *)

(* A step of t leaves the other tests and what they have alone. *)
LeavesOthers(t) ==
    /\ plan' = plan
    /\ \A u \in Test \ {t} :
          /\ phase'[u] = phase[u] /\ todo'[u] = todo[u] /\ locals'[u] = locals[u]
          /\ held'[u] = held[u] /\ ok'[u] = ok[u] /\ disk'[u] = disk[u]
    /\ \A f : f[1] # t => (f \in files' <=> f \in files)
    /\ \A q : q.test # t => (q \in vms' <=> q \in vms)
    /\ \A o : o.test # t => (o \in orphans' <=> o \in orphans)

LEMMA ConfigStable ==
    ASSUME NEW t, plan' = plan, held'[t] = held[t]
    PROVE  \A role : Config(t, role)' = Config(t, role)
<1>1. SrcNet(t)' = SrcNet(t) /\ DstNet(t)' = DstNet(t)
  BY DEF SrcNet, DstNet
<1>2. SrcConfig(t)' = SrcConfig(t)
  BY <1>1 DEF SrcConfig
<1>3. DstConfig(t)' = DstConfig(t)
  BY <1>1, <1>2 DEF DstConfig
<1> QED
  BY <1>2, <1>3 DEF Config

(* A QEMU uses only files of its own test. *)
LEMMA UsesOwn ==
    ASSUME IInv, NEW q \in vms
    PROVE  q.test \in Test /\ \A f \in Uses(q) : f[1] = q.test
<1> DEFINE t == q.test
<1>1. t \in Test /\ q.role \in {"src", "dst"} /\ q.args = Args(Config(t, q.role))
  BY DEF IInv, Shape, Own, Machines
<1> HIDE DEF t
<1>2. /\ Logs(q) = {PathTo(t, Dir(q.role), "qmp.sock"), PathTo(t, Dir(q.role), "serial.log")}
      /\ Uses(q) \subseteq Logs(q) \cup {File(t, "guest.bin"), File(t, "cidata.img")}
  BY <1>1, QemuUses
<1>3. \A n : File(t, n)[1] = t
  BY DEF File
<1> QED
  BY <1>1, <1>2, <1>3, Paths DEF t

(* A child left behind stays as it is while its test unwinds. *)
LEMMA BlameStays ==
    ASSUME NEW t, Blamed(t), \A o : o.test = t => (o \in orphans' <=> o \in orphans),
           ok'[t] = ok[t], held'[t] = held[t] \/ held'[t] = {},
           phase[t] \in {"unwind", "returned", "reported"} =>
               phase'[t] \in {"unwind", "returned", "reported"},
           \A q : q.test = t /\ q \in vms' => q \in vms
    PROVE  Blamed(t)'
<1> SUFFICES ASSUME NEW o \in orphans', o.test = t
             PROVE  /\ ok'[t] = FALSE /\ phase'[t] \in {"unwind", "returned", "reported"}
                    /\ Abandoned(t, o)'
                    /\ \A p \in orphans' : p.test = t => o = p
                    /\ \A q \in vms' : q.test = t => q.role # o.role
  BY DEF Blamed
<1>1. o \in orphans /\ \A p \in orphans' : p.test = t => p \in orphans
  OBVIOUS
<1>2. /\ ok[t] = FALSE /\ phase[t] \in {"unwind", "returned", "reported"}
      /\ Abandoned(t, o)
      /\ \A p \in orphans : p.test = t => o = p
      /\ \A q \in vms : q.test = t => q.role # o.role
  BY <1>1 DEF Blamed
<1>3. Abandoned(t, o)'
  BY <1>2 DEF Abandoned, Tap
<1> QED
  BY <1>1, <1>2, <1>3

(* As long as the body runs there is none. *)
LEMMA NoneYet ==
    ASSUME IInv, NEW t \in Test, UNCHANGED orphans,
           phase[t] \notin {"unwind", "returned", "reported"}
    PROVE  Blamed(t)'
<1>1. Blamed(t)
  BY DEF IInv, Own
<1> QED
  BY <1>1 DEF Blamed

LEMMA OnlyOne ==
    ASSUME IInv, NEW t \in Test, LeavesOthers(t), Shape', Own(t)'
    PROVE  IInv'
<1> SUFFICES ASSUME NEW u \in Test \ {t} PROVE Own(u)'
  BY DEF IInv
<1>1. /\ plan' = plan /\ phase'[u] = phase[u] /\ todo'[u] = todo[u] /\ locals'[u] = locals[u]
      /\ held'[u] = held[u] /\ ok'[u] = ok[u]
      /\ \A o : o.test = u => (o \in orphans' <=> o \in orphans)
  BY DEF LeavesOthers
<1>2. \A f : f[1] = u => (f \in files' <=> f \in files)
  BY DEF LeavesOthers
<1>3. \A q : q.test = u => (q \in vms' <=> q \in vms)
  BY DEF LeavesOthers
<1>4. Own(u)
  BY DEF IInv
<1>5. Rest(u)'
  BY <1>1, <1>4 DEF Own, Rest
<1>6. Stacked(u)' /\ HoldsTaps(u)'
  BY <1>1, <1>4 DEF Own, Stacked, HoldsTaps, Have, Left
<1>10. Blamed(u)'
  BY <1>1, <1>3, <1>4, BlameStays DEF Own
<1>7. Homes(u)'
  BY <1>1, <1>2, <1>4 DEF Own, Homes, Have
<1>8. Machines(u)'
  BY <1>1, <1>3, <1>4, ConfigStable DEF Own, Machines, Have
<1>9. Present(u)'
  <2> SUFFICES ASSUME NEW q \in vms', q.test = u, NEW f \in Uses(q) PROVE f \in files'
    BY DEF Present
  <2>1. q \in vms
    BY <1>3
  <2>2. f \in files /\ f[1] = u
    BY <2>1, <1>4, UsesOwn DEF Own, Present
  <2> QED
    BY <2>2, <1>2
<1> QED
  BY <1>5, <1>6, <1>7, <1>8, <1>9, <1>10 DEF Own

-----------------------------------------------------------------------------
(* One operation of a body. *)

(* What is left of a body is ordered like the body. *)
LEMMA LeftOrdered ==
    ASSUME IInv, NEW t \in Test
    PROVE  Left(t) \subseteq BodyOps(plan[t]) /\ Ordered(todo[t])
<1> DEFINE body == Body(plan[t])
           k == Len(body) - Len(todo[t])
<1>1. /\ body \in Seq(Op) /\ Ordered(body) /\ ToSet(body) = BodyOps(plan[t])
      /\ todo[t] \in Seq(Op)
  BY BodyOrdered DEF Segment, IInv, Shape
<1>2. Len(todo[t]) <= Len(body) /\ \A i \in 1 .. Len(todo[t]) : todo[t][i] = body[i + k]
  BY DEF IInv, Own, Rest
<1> HIDE DEF body
<1>3. k \in Nat /\ Len(todo[t]) \in Nat /\ Len(body) = k + Len(todo[t])
  BY <1>1, <1>2
<1> HIDE DEF k
<1>4. Left(t) \subseteq BodyOps(plan[t])
  <2> SUFFICES ASSUME NEW x \in Left(t) PROVE x \in BodyOps(plan[t])
    OBVIOUS
  <2>1. PICK i \in 1 .. Len(todo[t]) : todo[t][i] = x
    BY <1>1, ToSetElements DEF Left
  <2>2. i + k \in 1 .. Len(body) /\ body[i + k] = x
    BY <1>2, <1>3, <2>1
  <2> QED
    BY <1>1, <2>2, ToSetElements
<1>5. Ordered(todo[t])
  <2> SUFFICES ASSUME NEW i \in 1 .. Len(todo[t]), NEW j \in 1 .. Len(todo[t]), i < j,
                      Rank(todo[t][i]) # 0, Rank(todo[t][j]) # 0
               PROVE  Rank(todo[t][i]) < Rank(todo[t][j])
    BY DEF Ordered
  <2>1. i + k \in 1 .. Len(body) /\ j + k \in 1 .. Len(body) /\ i + k < j + k
    BY <1>3
  <2>2. todo[t][i] = body[i + k] /\ todo[t][j] = body[j + k]
    BY <1>2
  <2> QED
    BY <1>1, <2>1, <2>2 DEF Ordered
<1> QED
  BY <1>4, <1>5

LEMMA DidOp ==
    ASSUME IInv, NEW t \in Test, NEW op, Did(t, op), plan' = plan, phase' = phase
    PROVE  /\ phase[t] = "run" /\ op \in Left(t) /\ op \in BodyOps(plan[t])
           /\ todo' \in [Test -> Seq(Op)] /\ \A u \in Test \ {t} : todo'[u] = todo[u]
           /\ Rest(t)' /\ Left(t) = Left(t)' \cup {op}
           /\ Rank(op) # 0 => \A o \in Left(t)' : Rank(o) # 0 => Rank(op) < Rank(o)
<1> DEFINE s == todo[t]
           r == Tail(s)
<1>1. /\ phase[t] = "run" /\ s \in Seq(Op) /\ s # << >> /\ Head(s) = op
      /\ todo' = [todo EXCEPT ![t] = r] /\ todo \in [Test -> Seq(Op)]
  BY DEF Did, At, IInv, Shape
<1>2. todo'[t] = r /\ \A u \in Test \ {t} : todo'[u] = todo[u]
  BY <1>1
<1>3. op \in Left(t) /\ r \in Seq(Op) /\ Left(t) = Left(t)' \cup {op}
  BY <1>1, <1>2, HeadAndTail DEF Left
<1>4. todo' \in [Test -> Seq(Op)]
  BY <1>1, <1>3
<1>5. /\ Len(s) \in Nat \ {0} /\ Len(r) = Len(s) - 1 /\ op = s[1]
      /\ \A i \in 1 .. Len(r) : r[i] = s[i + 1]
  BY <1>1, HeadTailProperties, EmptySeq
<1>6. Rest(t)'
  <2> DEFINE body == Body(plan[t])
             k == Len(body) - Len(s)
  <2>1. Len(s) <= Len(body) /\ \A i \in 1 .. Len(s) : s[i] = body[i + k]
    BY DEF IInv, Own, Rest
  <2>2. Body(plan[t])' = body
    OBVIOUS
  <2>3. body \in Seq(Op)
    BY BodyOrdered DEF Segment
  <2> HIDE DEF body, r, s
  <2>4. Len(body) \in Nat
    BY <2>3
  <2>5. Len(r) <= Len(body)
    BY <1>5, <2>1, <2>4
  <2>6. \A i \in 1 .. Len(r) : r[i] = body[i + (Len(body) - Len(r))]
    <3> SUFFICES ASSUME NEW i \in 1 .. Len(r)
                 PROVE  r[i] = body[i + (Len(body) - Len(r))]
      OBVIOUS
    <3>1. i + 1 \in 1 .. Len(s) /\ i + 1 + k = i + (Len(body) - Len(r))
      BY <1>5, <2>4
    <3> QED
      BY <1>5, <2>1, <3>1
  <2>7. phase'[t] = "run"
    BY <1>1
  <2> HIDE DEF k
  <2> QED
    BY <1>2, <2>2, <2>5, <2>6, <2>7 DEF Rest
<1>7. ASSUME Rank(op) # 0, NEW o \in Left(t)', Rank(o) # 0
      PROVE  Rank(op) < Rank(o)
  <2> HIDE DEF r
  <2>1. PICK i \in 1 .. Len(r) : r[i] = o
    BY <1>2, <1>3, ToSetElements DEF Left
  <2>2. /\ 1 \in 1 .. Len(s) /\ i + 1 \in 1 .. Len(s) /\ 1 < i + 1
        /\ s[i + 1] = o /\ s[1] = op
    BY <1>5, <2>1
  <2>3. Ordered(s)
    BY LeftOrdered
  <2> HIDE DEF s
  <2> QED
    BY <1>7, <2>2, <2>3 DEF Ordered
<1>8. op \in BodyOps(plan[t])
  BY <1>3, LeftOrdered
<1> QED
  BY <1>1, <1>2, <1>3, <1>4, <1>6, <1>7, <1>8

(* What a body has made when it comes to an operation, and what not yet. *)
LEMMA MadeBefore ==
    ASSUME IInv, NEW t \in Test, NEW op, Did(t, op), plan' = plan, phase' = phase,
           Rank(op) # 0, NEW x \in Local
    PROVE  /\ Maker(x) \in BodyOps(plan[t]) /\ LocalRank(x) < Rank(op) => x \in Have(t)
           /\ Rank(op) <= LocalRank(x) => x \notin Have(t)
<1>1. /\ phase[t] = "run" /\ op \in Left(t) /\ Left(t) = Left(t)' \cup {op}
      /\ \A o \in Left(t)' : Rank(o) # 0 => Rank(op) < Rank(o)
  BY DidOp
<1>2. /\ \A y \in Have(t) : LocalRank(y) < Rank(op)
      /\ Maker(x) \in BodyOps(plan[t]) => x \in Have(t) \/ Maker(x) \in Left(t)
  BY <1>1 DEF IInv, Own, Stacked
<1>3. LocalRank(x) \in Nat \ {0} /\ Rank(op) \in Nat
  BY RankType DEF LocalRank, Local, Maker, Rank
<1>4. ASSUME Maker(x) \in Left(t), LocalRank(x) < Rank(op) PROVE FALSE
  BY <1>1, <1>3, <1>4, RankType DEF LocalRank
<1> QED
  BY <1>2, <1>3, <1>4

(* An operation that declares no local. *)
LEMMA Quiet ==
    ASSUME IInv, NEW t \in Test, NEW op, Did(t, op), plan' = plan, phase' = phase,
           locals' = locals, \A x \in Local : Maker(x) # op
    PROVE  Stacked(t)' /\ Have(t)' = Have(t)
<1>1. phase[t] = "run" /\ Left(t) = Left(t)' \cup {op}
  BY DidOp
<1>2. Have(t)' = Have(t) /\ locals'[t] = locals[t]
  BY DEF Have
<1>3. Stacked(t)
  BY DEF IInv, Own
<1>4. Left(t)' \subseteq Left(t) /\ \A x \in Local : Maker(x) \in Left(t) => Maker(x) \in Left(t)'
  BY <1>1
<1> QED
  BY <1>2, <1>3, <1>4 DEF Stacked

(* An operation that declares the local x. *)
LEMMA Declares ==
    ASSUME IInv, NEW t \in Test, NEW op, Did(t, op), plan' = plan, phase' = phase,
           NEW x \in Local, Maker(x) = op, Declare(t, x)
    PROVE  /\ locals' \in [Test -> Seq(Local)] /\ \A u \in Test \ {t} : locals'[u] = locals[u]
           /\ Stacked(t)' /\ Have(t)' = Have(t) \cup {x} /\ x \notin Have(t)
<1> DEFINE s == locals[t]
           r == Append(s, x)
<1>1. /\ phase[t] = "run" /\ op \in Left(t) /\ Left(t) = Left(t)' \cup {op}
      /\ Rank(op) # 0 => \A o \in Left(t)' : Rank(o) # 0 => Rank(op) < Rank(o)
  BY DidOp
<1>2. Rank(op) # 0 /\ LocalRank(x) = Rank(op)
  BY DEF LocalRank, Local, Maker, Rank
<1>3. s \in Seq(Local) /\ locals \in [Test -> Seq(Local)]
  BY DEF IInv, Shape
<1>4. /\ r \in Seq(Local) /\ ToSet(r) = ToSet(s) \cup {x}
      /\ Len(r) = Len(s) + 1 /\ Len(s) \in Nat
      /\ \A i \in 1 .. Len(s) : r[i] = s[i]
      /\ r[Len(s) + 1] = x
  BY <1>3, Pushed
<1>5. /\ locals' = [locals EXCEPT ![t] = r] /\ locals'[t] = r
      /\ \A u \in Test \ {t} : locals'[u] = locals[u]
  BY <1>3 DEF Declare
<1>6. locals' \in [Test -> Seq(Local)]
  BY <1>3, <1>4, <1>5
<1>7. /\ \A i, j \in 1 .. Len(s) : i < j => LocalRank(s[i]) < LocalRank(s[j])
      /\ \A y \in Have(t) : \A o \in Left(t) : Rank(o) # 0 => LocalRank(y) < Rank(o)
      /\ \A y \in Local : Maker(y) \in BodyOps(plan[t]) => y \in Have(t) \/ Maker(y) \in Left(t)
  BY <1>1 DEF IInv, Own, Stacked
<1>8. Have(t) = ToSet(s) /\ Have(t)' = Have(t) \cup {x}
  BY <1>4, <1>5 DEF Have
<1> HIDE DEF r
<1>9. ASSUME NEW i \in 1 .. Len(r), NEW j \in 1 .. Len(r), i < j
      PROVE  LocalRank(r[i]) < LocalRank(r[j])
  <2>1. i \in 1 .. Len(s) /\ r[i] = s[i] /\ s[i] \in Have(t)
    <3>1. i \in 1 .. Len(s)
      BY <1>4, <1>9
    <3> QED
      BY <3>1, <1>3, <1>4, <1>8, ToSetElements
  <2>2. CASE j \in 1 .. Len(s)
    BY <1>4, <1>7, <1>9, <2>1, <2>2
  <2>3. CASE j = Len(s) + 1
    BY <1>1, <1>2, <1>4, <1>7, <2>1, <2>3
  <2> QED
    BY <1>4, <2>2, <2>3
<1>10. \A y \in Have(t)' : \A o \in Left(t)' : Rank(o) # 0 => LocalRank(y) < Rank(o)
  BY <1>1, <1>2, <1>7, <1>8
<1>11. \A y \in Local : Maker(y) \in BodyOps(plan[t]) => y \in Have(t)' \/ Maker(y) \in Left(t)'
  <2>1. \A y \in Local : Maker(y) = op => y = x
    BY DEF Local, Maker
  <2> QED
    BY <1>1, <1>7, <1>8, <2>1
<1>12. \A y \in Have(t)', z \in Local :
           Maker(z) \in BodyOps(plan[t]) /\ LocalRank(z) < LocalRank(y) => z \in Have(t)'
  <2>1. \A y \in Have(t), z \in Local :
            Maker(z) \in BodyOps(plan[t]) /\ LocalRank(z) < LocalRank(y) => z \in Have(t)
    BY DEF IInv, Own, Stacked
  <2>2. \A z \in Local : Maker(z) \in BodyOps(plan[t]) /\ LocalRank(z) < LocalRank(x) => z \in Have(t)
    BY <1>2, MadeBefore
  <2> QED
    BY <1>8, <2>1, <2>2
<1>13. Stacked(t)'
  BY <1>1, <1>5, <1>9, <1>10, <1>11, <1>12 DEF Stacked
<1>14. x \notin Have(t)
  BY <1>1, <1>2, <1>7, RankType DEF LocalRank
<1> QED
  BY <1>5, <1>6, <1>8, <1>13, <1>14

(* What holds on while a test keeps its locals, its pair and its QEMUs. *)
LEMMA KeepsThings ==
    ASSUME IInv, NEW t \in Test, plan' = plan, vms' = vms, held'[t] = held[t],
           Have(t)' = Have(t), files \subseteq files'
    PROVE  HoldsTaps(t)' /\ Machines(t)' /\ Present(t)'
<1>1. HoldsTaps(t) /\ Machines(t) /\ Present(t)
  BY DEF IInv, Own
<1>2. HoldsTaps(t)'
  BY <1>1 DEF HoldsTaps
<1>3. Machines(t)'
  BY <1>1, ConfigStable DEF Machines
<1>4. Present(t)'
  BY <1>1 DEF Present
<1> QED
  BY <1>2, <1>3, <1>4

-----------------------------------------------------------------------------
(* Every action preserves the invariant. *)

Proceeds(t) == Claim(t) \/ Start(t) \/ Succeeds(t) \/ Return(t) \/ Report(t)

LEMMA ProceedsInv ==
    ASSUME IInv, NEW t \in Test, Proceeds(t)
    PROVE  LeavesOthers(t) /\ IInv'
<1>1. UNCHANGED <<taps, plan, todo, locals, files, disk, vms, ok, orphans>>
  BY DEF Proceeds, Claim, Start, Succeeds, Return, Report
<1>2. Shape /\ Own(t)
  BY DEF IInv
<1>3. PICK to \in Phase : phase' = [phase EXCEPT ![t] = to]
  BY DEF Proceeds, Claim, Start, Succeeds, Return, Report, Goto, Phase
<1>4. Shape'
  BY <1>1, <1>2, <1>3 DEF Shape
<1>5. LeavesOthers(t)
  BY <1>1, <1>2, <1>3 DEF LeavesOthers, Shape, taps
<1>6. Stacked(t)' /\ Rest(t)'
  <2>1. phase[t] \in Phase /\ phase'[t] = to
    BY <1>2, <1>3 DEF Shape
  <2>2. \/ phase[t] = "queued" /\ to = "claimed"
        \/ phase[t] = "claimed" /\ to = "run"
        \/ phase[t] = "run" /\ todo[t] = << >> /\ to = "unwind"
        \/ phase[t] = "unwind" /\ locals[t] = << >> /\ to = "returned"
        \/ phase[t] = "returned" /\ to = "reported"
    BY <1>2, <2>1 DEF Proceeds, Claim, Start, Succeeds, Return, Report, Goto, Shape
  <2>3. Have(t)' = Have(t) /\ Left(t)' = Left(t)
    BY <1>1 DEF Have, Left
  <2>4. Stacked(t)'
    BY <1>1, <1>2, <2>1, <2>2, <2>3 DEF Own, Stacked
  <2>5. Rest(t)'
    BY <1>1, <1>2, <2>1, <2>2 DEF Own, Rest
  <2> QED
    BY <2>4, <2>5
<1>7. Homes(t)' /\ Have(t)' = Have(t)
  BY <1>1, <1>2 DEF Own, Homes, Have
<1>8. HoldsTaps(t)' /\ Machines(t)' /\ Present(t)'
  BY <1>1, <1>7, KeepsThings DEF taps
<1>9. Blamed(t)'
  <2>1. phase[t] \in {"unwind", "returned", "reported"} =>
            phase'[t] \in {"unwind", "returned", "reported"}
    BY <1>2, <1>3 DEF Shape, Proceeds, Claim, Start, Succeeds, Return, Report, Goto
  <2>2. Blamed(t) /\ ok' = ok /\ held' = held /\ orphans' = orphans /\ vms' = vms
    BY <1>1, <1>2 DEF Own, taps
  <2> QED
    BY <2>1, <2>2, BlameStays
<1> QED
  BY <1>4, <1>5, <1>6, <1>7, <1>8, <1>9, OnlyOne DEF Own

LEMMA GivesUpInv ==
    ASSUME IInv, PoolInv, NEW t \in Test, NoTaps(t) \/ Fails(t)
    PROVE  LeavesOthers(t) /\ IInv'
<1>1. /\ UNCHANGED <<plan, locals, files, disk, vms>>
      /\ phase' = [phase EXCEPT ![t] = "unwind"] /\ ok' = [ok EXCEPT ![t] = FALSE]
      /\ todo' = [todo EXCEPT ![t] = << >>] /\ phase[t] = "run" /\ todo[t] # << >>
      /\ UNCHANGED taps \/ Pool!AllocateFails(t)
      /\ \/ orphans' = orphans
         \/ \E role \in {"src", "dst"} :
               /\ Head(todo[t]) = Maker(role)
               /\ orphans' = orphans \cup {Orphan(t, role, Config(t, role))}
  BY DEF NoTaps, Fails, Goto, At, Maker, Config
<1>2. Shape /\ Own(t)
  BY DEF IInv
<1>3. \A u \in Test : held'[u] = held[u]
  BY <1>1, PoolFrame
<1>4. << >> \in Seq(Op) /\ ToSet(<< >>) = {} /\ Len(<< >>) = 0
  BY EmptyLists DEF Lists
<1>13. \A o \in orphans' : o \in orphans \/ o.test = t
  BY <1>1 DEF Orphan
<1>5. Shape'
  BY <1>1, <1>2, <1>4, <1>13 DEF Shape, Phase
<1>6. LeavesOthers(t)
  <2>1. orphans \subseteq orphans'
    BY <1>1
  <2> QED
    BY <1>1, <1>2, <1>3, <1>13, <2>1 DEF LeavesOthers, Shape
<1>7. phase'[t] = "unwind" /\ todo'[t] = << >> /\ ok'[t] = FALSE
  BY <1>1, <1>2 DEF Shape
<1>8. Have(t)' = Have(t) /\ Left(t)' = {} /\ locals'[t] = locals[t]
  BY <1>1, <1>4, <1>7 DEF Have, Left
<1>9. Rest(t)'
  <2>1. Body(plan[t]) \in Seq(Op)
    BY BodyOrdered DEF Segment
  <2>2. Len(Body(plan[t])) \in Nat /\ Body(plan[t])' = Body(plan[t])
    BY <2>1, <1>1
  <2> QED
    BY <1>4, <1>7, <2>2 DEF Rest
<1>10. Stacked(t)'
  BY <1>1, <1>2, <1>7, <1>8 DEF Own, Stacked
<1>11. Homes(t)'
  BY <1>1, <1>2, <1>8 DEF Own, Homes
<1>12. HoldsTaps(t)' /\ Machines(t)' /\ Present(t)'
  BY <1>1, <1>3, <1>8, KeepsThings
<1>14. Blamed(t)'
  <2>1. \A o \in orphans : o.test # t
    BY <1>1, <1>2 DEF Own, Blamed
  <2>2. CASE orphans' = orphans
    BY <2>1, <2>2 DEF Blamed
  <2>3. CASE orphans' # orphans
    <3>0. PICK role \in {"src", "dst"} :
              /\ Head(todo[t]) = Maker(role)
              /\ orphans' = orphans \cup {Orphan(t, role, Config(t, role))}
      BY <1>1, <2>3
    <3>1. PICK c : /\ Head(todo[t]) = Maker(role) /\ orphans' = orphans \cup {c}
                   /\ c = Orphan(t, role, Config(t, role))
      BY <3>0
    <3>2. c.test = t /\ c.role = role /\ c.args = Args(Config(t, role))
      BY <3>1 DEF Orphan
    <3>3. \A o \in orphans' : o.test = t => o = c
      BY <2>1, <3>1
    <3>4. Abandoned(t, c)'
      <4>1. /\ Logs(c) = {PathTo(t, Dir(role), "qmp.sock"), PathTo(t, Dir(role), "serial.log")}
            /\ Images(c, {"rw"}) \subseteq {File(t, "guest.bin")}
            /\ TapsOf(c) = IF UsesTaps(plan[t]) THEN {Tap(t, role)} ELSE {}
        BY <3>2, QemuUses
      <4>2. Tap(t, role)' = Tap(t, role)
        BY <1>3 DEF Tap
      <4> QED
        BY <3>2, <4>1, <4>2 DEF Abandoned
    <3>5. \A q \in vms' : q.test = t => q.role # role
      <4>1. Maker(role) \in Left(t)
        BY <1>1, <1>2, <3>1, HeadAndTail DEF Left, Shape
      <4>2. Rank(Maker(role)) \in {9, 10}
        BY DEF Rank, Maker
      <4>3. role \notin Have(t)
        BY <1>2, <4>1, <4>2 DEF Own, Stacked, LocalRank
      <4> QED
        BY <1>1, <1>2, <4>3 DEF Own, Machines
    <3> QED
      BY <1>7, <3>2, <3>3, <3>4, <3>5 DEF Blamed
  <2> QED
    BY <2>2, <2>3
<1> QED
  BY <1>5, <1>6, <1>9, <1>10, <1>11, <1>12, <1>14, OnlyOne DEF Own

(* Each local directory that a path of the test is in. *)
LEMMA HomesGrow ==
    ASSUME IInv, NEW t \in Test, Have(t) \subseteq Have(t)',
           \A f \in files' \ files : f[1] = t /\ \E d \in Dirs \cap Have(t)' : SubSeq(f, 1, 2) = Path(t, d)
    PROVE  Homes(t)'
<1>1. Homes(t)
  BY DEF IInv, Own
<1> QED
  BY <1>1 DEF Homes

LEMMA FilesGrow ==
    ASSUME IInv, NEW t \in Test, files \subseteq files', \A f \in files' \ files : f[1] = t
    PROVE  /\ \A f \in files' : f[1] \in Test
           /\ \A f : f[1] # t => (f \in files' <=> f \in files)
  BY DEF IInv, Shape

(* An operation that at most writes files, or looks. *)
Writes(t) ==
    WritePayload(t) \/ StageFiles(t) \/ MakeImage(t) \/ CopyFile(t) \/ Observe(t)

LEMMA WritesInv ==
    ASSUME IInv, NEW t \in Test, Writes(t)
    PROVE  LeavesOthers(t) /\ IInv'
<1>1. PICK op \in {"payload", "stage", "mkdosfs", "mcopy", "await", "port", "ssh", "reboot"} :
          /\ Did(t, op) /\ UNCHANGED <<taps, plan, phase, locals, vms, ok, orphans>>
          /\ disk' = disk \/ \E d : disk' = [disk EXCEPT ![t] = d]
          /\ \/ files' = files
             \/ op \in {"payload", "stage", "mkdosfs"} /\ \E n : files' = files \cup {File(t, n)}
  BY DEF Writes, WritePayload, StageFiles, MakeImage, CopyFile, Observe
<1>2. Shape /\ Own(t)
  BY DEF IInv
<1>3. \A x \in Local : Maker(x) # op
  BY DEF Local, Maker
<1>4. /\ op \in BodyOps(plan[t]) /\ Rest(t)'
      /\ todo' \in [Test -> Seq(Op)] /\ \A u \in Test \ {t} : todo'[u] = todo[u]
  BY <1>1, DidOp
<1>5. Stacked(t)' /\ Have(t)' = Have(t)
  BY <1>1, <1>3, Quiet
<1>6. \A f \in files' \ files : f[1] = t /\ \E d \in Dirs \cap Have(t)' : SubSeq(f, 1, 2) = Path(t, d)
  <2> SUFFICES ASSUME NEW f \in files' \ files
               PROVE  f[1] = t /\ \E d \in Dirs \cap Have(t)' : SubSeq(f, 1, 2) = Path(t, d)
    OBVIOUS
  <2>1. op \in {"payload", "stage", "mkdosfs"} /\ \E n : f = PathTo(t, "src_dir", n)
    BY <1>1 DEF File, PathTo
  <2>2. SubSeq(f, 1, 2) = Path(t, "src_dir") /\ f[1] = t
    BY <2>1, Paths
  <2>3. "src_dir" \in Have(t)
    <3>1. Rank(op) \in {4, 7, 8}
      BY <2>1 DEF Rank
    <3>2. LocalRank("src_dir") = 1 /\ "src_dir" \in Local
      BY DEF Rank, LocalRank, Maker, Local
    <3>3. Rank(op) # 0 /\ LocalRank("src_dir") < Rank(op)
      BY <3>1, <3>2
    <3>4. Maker("src_dir") \in BodyOps(plan[t])
      BY DEF BodyOps, Maker
    <3> QED
      BY <1>1, <3>2, <3>3, <3>4, MadeBefore
  <2> QED
    BY <1>5, <2>2, <2>3 DEF Dirs
<1>7. files \subseteq files'
  BY <1>1
<1>8. /\ Homes(t)'
      /\ \A f \in files' : f[1] \in Test
      /\ \A f : f[1] # t => (f \in files' <=> f \in files)
  BY <1>5, <1>6, <1>7, HomesGrow, FilesGrow
<1>9. HoldsTaps(t)' /\ Machines(t)' /\ Present(t)'
  BY <1>1, <1>5, <1>7, KeepsThings DEF taps
<1>10. Shape'
  BY <1>1, <1>2, <1>4, <1>8 DEF Shape
<1>11. LeavesOthers(t)
  <2>1. \A u \in Test \ {t} : disk'[u] = disk[u]
    BY <1>1, <1>2 DEF Shape
  <2> QED
    BY <1>1, <1>4, <1>8, <2>1 DEF LeavesOthers, taps
<1>12. Blamed(t)'
  BY <1>1, DidOp, NoneYet
<1> QED
  BY <1>4, <1>5, <1>8, <1>9, <1>10, <1>11, <1>12, OnlyOne DEF Own

(* An operation that declares a directory or the cloud-init disk. *)
LEMMA TempDirInv ==
    ASSUME IInv, NEW t \in Test, TempDir(t) \/ KeyGen(t)
    PROVE  LeavesOthers(t) /\ IInv'
<1>1. PICK op \in Dirs \cup {"keygen"}, x \in Dirs \cup {"ci"} :
          /\ Did(t, op) /\ Declare(t, x) /\ Maker(x) = op
          /\ UNCHANGED <<taps, plan, phase, disk, vms, ok, orphans>>
          /\ IF op = "keygen" THEN files' = files \cup {File(t, "id_cloud"), File(t, "id_cloud.pub")}
             ELSE files' = files \cup {<<t, x>>}
  BY DEF TempDir, KeyGen, Maker, Dirs
<1>2. Shape /\ Own(t)
  BY DEF IInv
<1>3. x \in Local
  BY DEF Local, Dirs
<1>4. /\ op \in BodyOps(plan[t]) /\ Rest(t)'
      /\ todo' \in [Test -> Seq(Op)] /\ \A u \in Test \ {t} : todo'[u] = todo[u]
  BY <1>1, DidOp
<1>5. /\ locals' \in [Test -> Seq(Local)] /\ \A u \in Test \ {t} : locals'[u] = locals[u]
      /\ Stacked(t)' /\ Have(t)' = Have(t) \cup {x}
  BY <1>1, <1>3, Declares
<1>6. \A f \in files' \ files : f[1] = t /\ \E d \in Dirs \cap Have(t)' : SubSeq(f, 1, 2) = Path(t, d)
  <2> SUFFICES ASSUME NEW f \in files' \ files
               PROVE  f[1] = t /\ \E d \in Dirs \cap Have(t)' : SubSeq(f, 1, 2) = Path(t, d)
    OBVIOUS
  <2>1. CASE op = "keygen"
    <3>1. \E n : f = PathTo(t, "src_dir", n)
      BY <1>1, <2>1 DEF File, PathTo
    <3>2. SubSeq(f, 1, 2) = Path(t, "src_dir") /\ f[1] = t
      BY <3>1, Paths
    <3>3. "src_dir" \in Have(t)
      <4>1. Rank(op) # 0 /\ LocalRank("src_dir") < Rank(op) /\ "src_dir" \in Local
        BY <2>1 DEF Rank, LocalRank, Maker, Local
      <4>2. Maker("src_dir") \in BodyOps(plan[t])
        BY DEF BodyOps, Maker
      <4> QED
        BY <1>1, <4>1, <4>2, MadeBefore
    <3> QED
      BY <1>5, <3>2, <3>3 DEF Dirs
  <2>2. CASE op # "keygen"
    <3>1. f = Path(t, x) /\ x \in Dirs
      BY <1>1, <2>2 DEF Path, Maker, Dirs
    <3>2. SubSeq(f, 1, 2) = Path(t, x) /\ f[1] = t
      BY <3>1, Paths
    <3> QED
      BY <1>5, <3>1, <3>2
  <2> QED
    BY <2>1, <2>2
<1>7. files \subseteq files'
  BY <1>1
<1>8. /\ Homes(t)'
      /\ \A f \in files' : f[1] \in Test
      /\ \A f : f[1] # t => (f \in files' <=> f \in files)
  BY <1>5, <1>6, <1>7, HomesGrow, FilesGrow
<1>9. x \notin {"taps", "src", "dst"}
  BY DEF Dirs
<1>10. HoldsTaps(t)' /\ Machines(t)' /\ Present(t)'
  <2>1. HoldsTaps(t)'
    BY <1>1, <1>2, <1>5, <1>9 DEF Own, HoldsTaps, taps
  <2>2. Machines(t)'
    BY <1>1, <1>2, <1>5, <1>9, ConfigStable DEF Own, Machines, taps
  <2>3. Present(t)'
    BY <1>1, <1>2, <1>7 DEF Own, Present
  <2> QED
    BY <2>1, <2>2, <2>3
<1>11. Shape'
  BY <1>1, <1>2, <1>4, <1>5, <1>8 DEF Shape
<1>12. LeavesOthers(t)
  BY <1>1, <1>4, <1>5, <1>8 DEF LeavesOthers, taps
<1>13. Blamed(t)'
  BY <1>1, DidOp, NoneYet
<1> QED
  BY <1>4, <1>5, <1>8, <1>10, <1>11, <1>12, <1>13, OnlyOne DEF Own

(* No QEMU of a test lives when its taps are allocated. *)
LEMMA AllocateTapsInv ==
    ASSUME IInv, PoolInv, NEW t \in Test, AllocateTaps(t)
    PROVE  LeavesOthers(t) /\ IInv'
<1>1. /\ Did(t, "taps") /\ Declare(t, "taps") /\ Pool!Allocate(t)
      /\ UNCHANGED <<plan, phase, files, disk, vms, ok, orphans>>
  BY DEF AllocateTaps
<1>2. Shape /\ Own(t)
  BY DEF IInv
<1>3. "taps" \in Local /\ Maker("taps") = "taps" /\ Rank("taps") = 5
  BY DEF Local, Maker, Rank
<1>4. /\ Rest(t)' /\ todo' \in [Test -> Seq(Op)]
      /\ \A u \in Test \ {t} : todo'[u] = todo[u]
  BY <1>1, DidOp
<1>5. /\ locals' \in [Test -> Seq(Local)] /\ \A u \in Test \ {t} : locals'[u] = locals[u]
      /\ Stacked(t)' /\ Have(t)' = Have(t) \cup {"taps"}
  BY <1>1, <1>3, Declares
<1>6. held'[t] # {} /\ \A u \in Test \ {t} : held'[u] = held[u]
  BY <1>1, PoolFrame
<1>7. ASSUME NEW role \in {"src", "dst"} PROVE role \notin Have(t)
  <2>1. role \in Local /\ LocalRank(role) \in {9, 10}
    BY DEF Local, LocalRank, Rank, Maker
  <2>2. Rank("taps") # 0 /\ Rank("taps") <= LocalRank(role)
    BY <1>3, <2>1
  <2> QED
    BY <1>1, <2>1, <2>2, MadeBefore
<1>8. \A q \in vms : q.test # t
  BY <1>2, <1>7 DEF Own, Machines
<1>9. HoldsTaps(t)' /\ Machines(t)' /\ Present(t)'
  BY <1>1, <1>5, <1>6, <1>7, <1>8 DEF HoldsTaps, Machines, Present
<1>10. Homes(t)' /\ Blamed(t)'
  BY <1>1, <1>2, <1>5, DidOp, NoneYet DEF Own, Homes
<1>11. Shape'
  BY <1>1, <1>2, <1>4, <1>5 DEF Shape
<1>12. LeavesOthers(t)
  BY <1>1, <1>4, <1>5, <1>6 DEF LeavesOthers
<1> QED
  BY <1>4, <1>5, <1>9, <1>10, <1>11, <1>12, OnlyOne DEF Own

(* The guard of Started is what makes Present inductive. *)
LEMMA StartedInv ==
    ASSUME IInv, NEW t \in Test, SpawnSrc(t) \/ SpawnDst(t)
    PROVE  LeavesOthers(t) /\ IInv'
<1>1. PICK role, state, guest :
          /\ role \in {"src", "dst"} /\ state \in {"running", "inmigrate"}
          /\ Did(t, Maker(role)) /\ Started(t, role, state, Config(t, role), guest)
          /\ UNCHANGED <<taps, plan, phase, disk, ok, orphans>>
  <2>1. CASE SpawnSrc(t)
    BY <2>1 DEF SpawnSrc, Maker, Config
  <2>2. CASE SpawnDst(t)
    BY <2>2 DEF SpawnDst, Maker, Config
  <2> QED
    BY <2>1, <2>2
<1>0. role \in {"src", "dst"} /\ state \in {"running", "inmigrate"}
  BY <1>1
<1> USE <1>0
<1> DEFINE q == [test |-> t, role |-> role, state |-> state, args |-> Args(Config(t, role)),
                 guest |-> guest]
<1>2. /\ {f \in Images(q, {"rw", "readonly"}) : OnDisk(f)} \subseteq files
      /\ vms' = vms \cup {q} /\ files' = files \cup Logs(q) /\ Declare(t, role)
  BY <1>1 DEF Started
<1>3. /\ q.test = t /\ q.role = role /\ q.state = state /\ q.args = Args(Config(t, role))
      /\ DOMAIN q = Fields
  BY DEF Fields
<1> HIDE DEF q
<1>4. Shape /\ Own(t)
  BY DEF IInv
<1>5. role \in Local
  BY DEF Local
<1>6. /\ Maker(role) \in BodyOps(plan[t]) /\ Rest(t)' /\ todo' \in [Test -> Seq(Op)]
      /\ \A u \in Test \ {t} : todo'[u] = todo[u]
  BY <1>1, DidOp
<1>7. /\ locals' \in [Test -> Seq(Local)] /\ \A u \in Test \ {t} : locals'[u] = locals[u]
      /\ Stacked(t)' /\ Have(t)' = Have(t) \cup {role} /\ role \notin Have(t)
  BY <1>1, <1>2, <1>5, Declares
<1>8. Dir(role) \in Dirs \cap Have(t)
  <2>1. Dir(role) \in Local \cap Dirs /\ LocalRank(Dir(role)) \in {1, 2}
    BY DEF Dir, Local, Dirs, LocalRank, Maker, Rank
  <2>2. Rank(Maker(role)) \in {9, 10}
    BY DEF Maker, Rank
  <2>3. Maker(Dir(role)) \in BodyOps(plan[t])
    BY <1>6 DEF BodyOps, Maker, Dir, Given
  <2>4. Rank(Maker(role)) # 0 /\ LocalRank(Dir(role)) < Rank(Maker(role))
    BY <2>1, <2>2
  <2> QED
    BY <1>1, <2>1, <2>3, <2>4, MadeBefore
<1>9. Logs(q) = {PathTo(t, Dir(role), "qmp.sock"), PathTo(t, Dir(role), "serial.log")}
  BY <1>3, QemuUses
<1>10. \A f \in files' \ files : f[1] = t /\ \E d \in Dirs \cap Have(t)' : SubSeq(f, 1, 2) = Path(t, d)
  BY <1>2, <1>7, <1>8, <1>9, Paths
<1>11. files \subseteq files'
  BY <1>2
<1>12. /\ Homes(t)'
       /\ \A f \in files' : f[1] \in Test
       /\ \A f : f[1] # t => (f \in files' <=> f \in files)
  BY <1>7, <1>10, <1>11, HomesGrow, FilesGrow
<1>13. HoldsTaps(t)'
  BY <1>1, <1>4, <1>7 DEF Own, HoldsTaps, taps
<1>14. Machines(t)'
  <2>1. \A r : Config(t, r)' = Config(t, r)
    BY <1>1, ConfigStable DEF taps
  <2>2. Machines(t)
    BY <1>4 DEF Own
  <2>3. \A r \in vms : r.test = t => r.role # role
    BY <1>7, <2>2 DEF Machines
  <2> QED
    BY <1>2, <1>3, <1>7, <2>1, <2>2, <2>3 DEF Machines
<1>15. Present(t)'
  <2>1. Uses(q) \subseteq files'
    BY <1>2 DEF Uses
  <2> QED
    BY <1>2, <1>4, <2>1 DEF Own, Present
<1>16. Shape'
  BY <1>1, <1>2, <1>3, <1>4, <1>6, <1>7, <1>12 DEF Shape
<1>17. LeavesOthers(t)
  BY <1>1, <1>2, <1>3, <1>6, <1>7, <1>12 DEF LeavesOthers, taps
<1>18. Blamed(t)'
  BY <1>1, DidOp, NoneYet
<1> QED
  BY <1>6, <1>7, <1>12, <1>13, <1>14, <1>15, <1>16, <1>17, <1>18, OnlyOne DEF Own

LEMMA MigrateInv ==
    ASSUME IInv, NEW t \in Test, Migrate(t)
    PROVE  LeavesOthers(t) /\ IInv'
<1>1. /\ Did(t, "migrate") /\ UNCHANGED <<taps, plan, phase, locals, disk, ok, orphans>>
      /\ files' = files \cup {PathTo(t, "mig_dir", "migration.sock")}
  BY DEF Migrate, PathTo
<1>2. PICK s \in Owned(t), d \in Owned(t) :
          /\ s.role = "src" /\ d.role = "dst"
          /\ vms' = (vms \ {s, d}) \cup {[s EXCEPT !.state = "postmigrate"],
                                         [d EXCEPT !.state = "running", !.guest = s.guest]}
  BY DEF Migrate
<1> DEFINE s1 == [s EXCEPT !.state = "postmigrate"]
           d1 == [d EXCEPT !.state = "running", !.guest = s.guest]
<1>3. Shape /\ Own(t)
  BY DEF IInv
<1>4. /\ s \in vms /\ s.test = t /\ d \in vms /\ d.test = t
      /\ DOMAIN s = Fields /\ DOMAIN d = Fields
  BY <1>2, <1>3 DEF Owned, Own, Machines
<1>5. /\ DOMAIN s1 = Fields /\ s1.test = t /\ s1.role = "src" /\ s1.state = "postmigrate"
      /\ s1.args = s.args
      /\ DOMAIN d1 = Fields /\ d1.test = t /\ d1.role = "dst" /\ d1.state = "running"
      /\ d1.args = d.args
  BY <1>2, <1>4 DEF Fields
<1>6. vms' = (vms \ {s, d}) \cup {s1, d1}
  BY <1>2
<1> HIDE DEF s1, d1
<1>7. /\ "migrate" \in BodyOps(plan[t]) /\ Rest(t)' /\ todo' \in [Test -> Seq(Op)]
      /\ \A u \in Test \ {t} : todo'[u] = todo[u]
  BY <1>1, DidOp
<1>8. Stacked(t)' /\ Have(t)' = Have(t)
  <2>1. \A x \in Local : Maker(x) # "migrate"
    BY DEF Local, Maker
  <2> QED
    BY <1>1, <2>1, Quiet
<1>9. "mig_dir" \in Have(t) \cap Dirs
  <2>1. "mig_dir" \in Local \cap Dirs /\ LocalRank("mig_dir") = 3 /\ Rank("migrate") = 11
    BY DEF Local, Dirs, LocalRank, Maker, Rank
  <2>2. Maker("mig_dir") \in BodyOps(plan[t])
    BY <1>7 DEF BodyOps, Maker, Given
  <2>3. Rank("migrate") # 0 /\ LocalRank("mig_dir") < Rank("migrate")
    BY <2>1
  <2> QED
    BY <1>1, <2>1, <2>2, <2>3, MadeBefore
<1>10. \A f \in files' \ files : f[1] = t /\ \E x \in Dirs \cap Have(t)' : SubSeq(f, 1, 2) = Path(t, x)
  BY <1>1, <1>8, <1>9, Paths
<1>11. files \subseteq files'
  BY <1>1
<1>12. /\ Homes(t)'
       /\ \A f \in files' : f[1] \in Test
       /\ \A f : f[1] # t => (f \in files' <=> f \in files)
  BY <1>8, <1>10, <1>11, HomesGrow, FilesGrow
<1>13. HoldsTaps(t)'
  BY <1>1, <1>3, <1>8 DEF Own, HoldsTaps, taps
<1>14. Machines(t)'
  <2>1. \A r : Config(t, r)' = Config(t, r)
    BY <1>1, ConfigStable DEF taps
  <2>2. Machines(t)
    BY <1>3 DEF Own
  <2>3. /\ s.role = "src" /\ d.role = "dst" /\ s.role \in Have(t) /\ d.role \in Have(t)
        /\ s.args = Args(Config(t, "src")) /\ d.args = Args(Config(t, "dst"))
    BY <1>2, <1>4, <2>2 DEF Machines
  <2>4. \A q \in vms \ {s, d} : q.test = t => q.role # "src" /\ q.role # "dst"
    BY <1>4, <2>2, <2>3 DEF Machines
  <2>5. \A q \in vms' : q.test = t => q = s1 \/ q = d1
    BY <1>6, <2>2, <2>4 DEF Machines
  <2>6. s1 \in vms' /\ d1 \in vms'
    BY <1>6
  <2> QED
    BY <1>5, <1>8, <2>1, <2>3, <2>5, <2>6 DEF Machines
<1>15. Present(t)'
  <2>1. Uses(s1) = Uses(s) /\ Uses(d1) = Uses(d)
    BY <1>5 DEF Uses, Logs, Images, Having
  <2> QED
    BY <1>3, <1>4, <1>6, <1>11, <2>1 DEF Own, Present
<1>16. Shape'
  BY <1>1, <1>3, <1>6, <1>5, <1>7, <1>12 DEF Shape
<1>17. LeavesOthers(t)
  BY <1>1, <1>4, <1>6, <1>5, <1>7, <1>12 DEF LeavesOthers, taps
<1>18. Blamed(t)'
  BY <1>1, DidOp, NoneYet
<1> QED
  BY <1>7, <1>8, <1>12, <1>13, <1>14, <1>15, <1>16, <1>17, <1>18, OnlyOne DEF Own

(***************************************************************************)
(* The local that is dropped is the last in the order of the body: no QEMU *)
(* is left that was started after it, and it is needed by none before it.  *)
(***************************************************************************)
LEMMA DropInv ==
    ASSUME IInv, PoolInv, NEW t \in Test, Drop(t)
    PROVE  LeavesOthers(t) /\ IInv'
<1> DEFINE s == locals[t]
           r == Front(s)
           x == Last(s)
<1>1. /\ phase[t] = "unwind" /\ s # << >> /\ locals' = [locals EXCEPT ![t] = r]
      /\ IF x = "taps" THEN Pool!Release(t) ELSE UNCHANGED taps
      /\ files' = {f \in files : SubSeq(f, 1, 2) # Path(t, x)}
      /\ vms' = {q \in vms : <<q.test, q.role>> # <<t, x>>}
      /\ disk' = disk \/ disk' = [disk EXCEPT ![t] = << >>]
      /\ UNCHANGED <<plan, phase, todo, ok, orphans>>
  BY DEF Drop, Path
<1>2. Shape /\ Own(t)
  BY DEF IInv
<1>3. s \in Seq(Local)
  BY <1>2 DEF Shape
<1>4. /\ Len(s) \in Nat \ {0} /\ x = s[Len(s)] /\ x \in ToSet(s)
      /\ r \in Seq(Local) /\ Len(r) = Len(s) - 1
      /\ \A i \in 1 .. Len(s) - 1 : r[i] = s[i]
      /\ ToSet(s) = ToSet(r) \cup {x}
  BY <1>1, <1>3, Popped
<1>5. /\ locals'[t] = r /\ locals' \in [Test -> Seq(Local)]
      /\ \A u \in Test \ {t} : locals'[u] = locals[u]
  BY <1>1, <1>2, <1>4 DEF Shape
<1>6. Have(t) = ToSet(s) /\ Have(t)' = ToSet(r) /\ Have(t) \subseteq Local
  BY <1>3, <1>5, ToSetElements DEF Have
<1>7. \A i, j \in 1 .. Len(s) : i < j => LocalRank(s[i]) < LocalRank(s[j])
  BY <1>2 DEF Own, Stacked
<1> HIDE DEF s, r, x
<1>8. ASSUME NEW y \in Have(t)' PROVE y \in Have(t) /\ y # x /\ LocalRank(y) < LocalRank(x)
  <2>1. PICK i \in 1 .. Len(r) : r[i] = y
    BY <1>4, <1>6, ToSetElements
  <2>2. i \in 1 .. Len(s) - 1 /\ i \in 1 .. Len(s) /\ Len(s) \in 1 .. Len(s) /\ i < Len(s)
    BY <1>4, <2>1
  <2>3. LocalRank(y) < LocalRank(x)
    BY <1>4, <1>7, <2>1, <2>2
  <2> QED
    BY <1>4, <1>6, <2>3, RankType DEF LocalRank
<1>9. Have(t) = Have(t)' \cup {x}
  BY <1>4, <1>6
<1>10. Rest(t)'
  BY <1>1, <1>2 DEF Own, Rest
<1>11. Stacked(t)'
  <2>1. \A i, j \in 1 .. Len(r) : i < j => LocalRank(r[i]) < LocalRank(r[j])
    <3> SUFFICES ASSUME NEW i \in 1 .. Len(r), NEW j \in 1 .. Len(r), i < j
                 PROVE  LocalRank(r[i]) < LocalRank(r[j])
      OBVIOUS
    <3>1. i \in 1 .. Len(s) /\ j \in 1 .. Len(s) /\ r[i] = s[i] /\ r[j] = s[j]
      BY <1>4
    <3> QED
      BY <1>7, <3>1
  <2>2. todo[t] = << >> /\ phase'[t] = "unwind" /\ todo' = todo
    BY <1>1, <1>2 DEF Own, Rest
  <2>3. Left(t)' = {}
    BY <2>2, EmptyLists DEF Left, Lists
  <2>4. ASSUME NEW y \in Have(t)', NEW z \in Local, Maker(z) \in BodyOps(plan[t]),
               LocalRank(z) < LocalRank(y)
        PROVE  z \in Have(t)'
    <3>1. y \in Have(t) /\ LocalRank(y) < LocalRank(x)
      BY <1>8
    <3>2. z \in Have(t)
      BY <1>2, <2>4, <3>1 DEF Own, Stacked
    <3>3. z # x
      BY <2>4, <3>1, RankType DEF LocalRank
    <3> QED
      BY <1>9, <3>2, <3>3
  <2>5. plan' = plan
    BY <1>1
  <2> QED
    BY <1>5, <2>1, <2>2, <2>3, <2>4, <2>5 DEF Stacked
<1>12. /\ \A u \in Test \ {t} : held'[u] = held[u]
       /\ x = "taps" => held'[t] = {}
       /\ x # "taps" => held'[t] = held[t]
  BY <1>1, PoolFrame
<1>13. HoldsTaps(t)'
  BY <1>2, <1>8, <1>9, <1>12 DEF Own, HoldsTaps
<1>14. \A u \in Test, f \in files : f[1] = u => \E d \in Dirs \cap Have(u) : SubSeq(f, 1, 2) = Path(u, d)
  BY DEF IInv, Own, Homes
<1>15. Homes(t)'
  BY <1>1, <1>9, <1>14 DEF Homes
<1>16. ASSUME NEW f, f[1] # t PROVE f \in files' <=> f \in files
  <2>1. ASSUME f \in files PROVE SubSeq(f, 1, 2) # Path(t, x)
    <3>1. f[1] \in Test
      BY <1>2, <2>1 DEF Shape
    <3>2. PICK d \in Dirs : SubSeq(f, 1, 2) = Path(f[1], d)
      BY <1>14, <2>1, <3>1
    <3>3. Path(f[1], d)[1] = f[1] /\ Path(t, x)[1] = t
      BY Paths
    <3> QED
      BY <1>16, <3>2, <3>3
  <2> QED
    BY <1>1, <2>1
<1>17. \A q : q.test # t => (q \in vms' <=> q \in vms)
  BY <1>1
<1>18. ASSUME NEW q \in vms', q.test = t
       PROVE  /\ q \in vms /\ q.role \in {"src", "dst"} /\ q.role \in Have(t)' /\ q.role # x
              /\ x \in {"ci", "src", "dst"}
  <2>1. q \in vms /\ q.role # x
    BY <1>1, <1>18
  <2>2. q.role \in {"src", "dst"} /\ q.role \in Have(t)
    BY <1>2, <1>18, <2>1 DEF Own, Machines
  <2>3. LocalRank(q.role) < LocalRank(x) /\ q.role \in Have(t)'
    BY <1>8, <1>9, <2>1, <2>2
  <2>4. x \in Local /\ LocalRank(q.role) \in {9, 10}
    BY <1>6, <1>9, <2>2 DEF LocalRank, Maker, Rank
  <2>5. LocalRank("src_dir") = 1 /\ LocalRank("dst_dir") = 2 /\ LocalRank("mig_dir") = 3
        /\ LocalRank("taps") = 5
    BY DEF LocalRank, Maker, Rank
  <2>6. x \notin {"src_dir", "dst_dir", "mig_dir", "taps"}
    BY <2>3, <2>4, <2>5
  <2> QED
    BY <2>1, <2>2, <2>3, <2>4, <2>6 DEF Local
<1>19. Machines(t)'
  <2>1. ASSUME NEW q \in vms', q.test = t
        PROVE  /\ DOMAIN q = Fields
               /\ q.role \in {"src", "dst"} /\ q.role \in Have(t)'
               /\ q.state \in {"running", "inmigrate", "postmigrate"}
               /\ q.args = Args(Config(t, q.role)')
    <3>1. held'[t] = held[t] /\ plan' = plan
      BY <1>1, <1>12, <1>18, <2>1
    <3>2. Config(t, q.role)' = Config(t, q.role)
      BY <3>1, ConfigStable
    <3> QED
      BY <1>2, <1>18, <2>1, <3>2 DEF Own, Machines
  <2>2. \A q, p \in vms' : q.test = t /\ p.test = t /\ q.role = p.role => q = p
    BY <1>1, <1>2 DEF Own, Machines
  <2>3. ASSUME NEW y \in {"src", "dst"}, y \in Have(t)'
        PROVE  \E q \in vms' : q.test = t /\ q.role = y
    <3>1. y # x /\ y \in Have(t)
      BY <1>8, <2>3
    <3>2. PICK q \in vms : q.test = t /\ q.role = y
      BY <1>2, <3>1 DEF Own, Machines
    <3> QED
      BY <1>1, <3>1, <3>2
  <2> QED
    BY <2>1, <2>2, <2>3 DEF Machines
<1>20. Present(t)'
  <2> SUFFICES ASSUME NEW q \in vms', q.test = t, NEW f \in Uses(q) PROVE f \in files'
    BY DEF Present
  <2>1. q \in vms /\ q.role \in {"src", "dst"} /\ x \notin {"src_dir", "dst_dir"}
    BY <1>18
  <2>2. f \in files
    BY <1>2, <2>1 DEF Own, Present
  <2>3. q.args = Args(Config(t, q.role))
    BY <1>2, <2>1 DEF Own, Machines
  <2>4. \E d \in {"src_dir", "dst_dir"} : \E n : f = PathTo(t, d, n)
    <3>1. /\ Logs(q) = {PathTo(t, Dir(q.role), "qmp.sock"), PathTo(t, Dir(q.role), "serial.log")}
          /\ Uses(q) \subseteq Logs(q) \cup {File(t, "guest.bin"), File(t, "cidata.img")}
      BY <2>1, <2>3, QemuUses
    <3>2. \A n : File(t, n) = PathTo(t, "src_dir", n)
      BY DEF File, PathTo
    <3>3. Dir(q.role) \in {"src_dir", "dst_dir"}
      BY DEF Dir
    <3>4. \E d \in {"src_dir", Dir(q.role)} : \E n : f = PathTo(t, d, n)
      BY <3>1, <3>2
    <3> QED
      BY <3>3, <3>4
  <2>5. PICK d \in {"src_dir", "dst_dir"} : SubSeq(f, 1, 2) = Path(t, d)
    BY <2>4, Paths
  <2>6. Path(t, d)[2] = d /\ Path(t, x)[2] = x
    BY DEF Path
  <2> QED
    BY <1>1, <2>1, <2>2, <2>5, <2>6
<1>21. Shape'
  BY <1>1, <1>2, <1>5 DEF Shape
<1>22. LeavesOthers(t)
  <2>1. \A u \in Test \ {t} : disk'[u] = disk[u]
    BY <1>1, <1>2 DEF Shape
  <2> QED
    BY <1>1, <1>5, <1>12, <1>16, <1>17, <2>1 DEF LeavesOthers
<1>23. Blamed(t)'
  <2>1. held'[t] = held[t] \/ held'[t] = {}
    BY <1>1, PoolFrame
  <2>2. Blamed(t) /\ ok' = ok /\ phase' = phase /\ orphans' = orphans /\ vms' \subseteq vms
    BY <1>1, <1>2 DEF Own
  <2> QED
    BY <2>1, <2>2, BlameStays
<1> QED
  BY <1>10, <1>11, <1>13, <1>15, <1>19, <1>20, <1>21, <1>22, <1>23, OnlyOne DEF Own

LEMMA InitIInv == Init => IInv
<1> SUFFICES ASSUME Init PROVE IInv
  OBVIOUS
<1>1. << >> \in Seq(Local) /\ ToSet(<< >>) = {} /\ Len(<< >>) = 0
  BY EmptyLists DEF Lists
<1>2. \A t \in Test : Body(plan[t]) \in Seq(Op) /\ ToSet(Body(plan[t])) = BodyOps(plan[t])
  BY BodyOrdered DEF Segment
<1>3. Shape
  BY <1>1, <1>2 DEF Init, Shape, Phase
<1> SUFFICES ASSUME NEW t \in Test PROVE Own(t)
  BY <1>3 DEF IInv
<1>4. /\ phase[t] = "queued" /\ todo[t] = Body(plan[t]) /\ locals[t] = << >> /\ held[t] = {}
      /\ files = {} /\ vms = {} /\ orphans = {}
  BY DEF Init, Pool!Init
<1>5. Have(t) = {} /\ Left(t) = BodyOps(plan[t])
  BY <1>1, <1>2, <1>4 DEF Have, Left
<1>6. Rest(t)
  <2> DEFINE body == Body(plan[t])
  <2>1. Len(body) \in Nat /\ Len(body) - Len(body) = 0
    BY <1>2
  <2> HIDE DEF body
  <2>2. \A i \in 1 .. Len(body) : body[i] = body[i + (Len(body) - Len(body))]
    BY <2>1
  <2> QED
    BY <1>4, <2>1, <2>2 DEF Rest, body
<1>7. Stacked(t)
  BY <1>1, <1>4, <1>5 DEF Stacked
<1> QED
  BY <1>4, <1>5, <1>6, <1>7 DEF Own, HoldsTaps, Homes, Machines, Present, Blamed

(* Each action's lemma, for any step. *)
LEMMA StepInv ==
    ASSUME IInv, PoolInv, NEW t \in Test, Step(t)
    PROVE  LeavesOthers(t) /\ IInv'
<1>1. \/ Proceeds(t) \/ NoTaps(t) \/ Fails(t) \/ Writes(t) \/ TempDir(t) \/ KeyGen(t)
      \/ AllocateTaps(t) \/ SpawnSrc(t) \/ SpawnDst(t) \/ Migrate(t) \/ Drop(t)
  BY DEF Step, Proceeds, Writes
<1> QED
  BY <1>1, ProceedsInv, GivesUpInv, WritesInv, TempDirInv, AllocateTapsInv, StartedInv,
     MigrateInv, DropInv

LEMMA NextIInv == IInv /\ PoolInv /\ [Next]_vars => IInv'
<1> SUFFICES ASSUME IInv, PoolInv, [Next]_vars PROVE IInv'
  OBVIOUS
<1>1. ASSUME NEW t \in Test, Step(t) PROVE IInv'
  BY <1>1, StepInv
<1>2. CASE UNCHANGED vars
  <2> USE <1>2 DEF vars, taps
  <2>1. Shape'
    BY DEF IInv, Shape
  <2> SUFFICES ASSUME NEW t \in Test PROVE Own(t)'
    BY <2>1 DEF IInv
  <2>2. Own(t)
    BY DEF IInv
  <2>3. Have(t)' = Have(t) /\ Left(t)' = Left(t)
    BY DEF Have, Left
  <2>4. Rest(t)' /\ Stacked(t)' /\ Homes(t)'
    BY <2>2, <2>3 DEF Own, Rest, Stacked, Homes
  <2>5. HoldsTaps(t)' /\ Machines(t)' /\ Present(t)'
    BY <2>3, KeepsThings
  <2>6. Blamed(t)'
    BY <2>2, BlameStays DEF Own
  <2> QED
    BY <2>4, <2>5, <2>6 DEF Own
<1>3. Next => \E t \in Test : Step(t)
  BY DEF Next, Step
<1> QED
  BY <1>1, <1>2, <1>3

LEMMA Invariance == Spec => [](IInv /\ PoolInv)
<1>1. Spec => []PoolInv
  BY PoolInvariance
<1> QED
  BY <1>1, InitIInv, NextIInv, PTL DEF Spec

-----------------------------------------------------------------------------
(* What follows from the invariant. *)

LEMMA SuffixByIndex ==
    ASSUME NEW S, NEW s \in Seq(S), NEW b \in Seq(S), Len(s) <= Len(b),
           \A i \in 1 .. Len(s) : s[i] = b[i + (Len(b) - Len(s))]
    PROVE  IsSuffix(s, b)
<1> DEFINE n == Len(s)
           m == Len(b)
           x == [i \in 1 .. n |-> s[(n - i) + 1]]
           y == [i \in 1 .. m |-> b[(m - i) + 1]]
<1>1. n \in Nat /\ m \in Nat /\ n <= m
  OBVIOUS
<1>2. Reverse(s) = x /\ Reverse(b) = y
  BY DEF Reverse
<1> HIDE DEF n, m
<1>3. x \in Seq(S) /\ Len(x) = n /\ y \in Seq(S) /\ Len(y) = m
  <2>1. x \in [1 .. n -> S] /\ y \in [1 .. m -> S]
    BY <1>1, ElementOfSeq DEF n, m
  <2> HIDE DEF x, y
  <2>2. x \in Seq(S) /\ Len(x) = n
    BY <1>1, <2>1
  <2>3. y \in Seq(S) /\ Len(y) = m
    BY <1>1, <2>1
  <2> QED
    BY <2>2, <2>3
<1>4. \A i \in 1 .. n : x[i] = y[i]
  <2> SUFFICES ASSUME NEW i \in 1 .. n PROVE x[i] = y[i]
    OBVIOUS
  <2>1. /\ (n - i) + 1 \in 1 .. n /\ i \in 1 .. m
        /\ ((n - i) + 1) + (m - n) = (m - i) + 1
    BY <1>1
  <2> QED
    BY <2>1 DEF n, m
<1> HIDE DEF x, y
<1>5. SubSeq(x, 1, n) = SubSeq(y, 1, n)
  <2>1. \A i \in 1 .. n : x[i] \in S /\ y[i] \in S
    BY <1>1, <1>3, ElementOfSeq
  <2>2. SubSeq(x, 1, n) = [i \in 1 .. n |-> x[i]] /\ SubSeq(y, 1, n) = [i \in 1 .. n |-> y[i]]
    BY <1>1, <1>3
  <2> QED
    BY <1>4, <2>2
<1> QED
  BY <1>1, <1>2, <1>3, <1>5 DEF IsSuffix, IsPrefix

LEMMA TwoQemus ==
    ASSUME IInv, NEW t \in Test
    PROVE  Cardinality(Owned(t)) <= 2
<1> DEFINE s == CHOOSE q \in Owned(t) : q.role = "src"
           d == CHOOSE q \in Owned(t) : q.role = "dst"
<1>1. /\ \A q \in Owned(t) : q.role \in {"src", "dst"}
      /\ \A q, r \in Owned(t) : q.role = r.role => q = r
  BY DEF Owned, IInv, Own, Machines
<1>2. Owned(t) \subseteq {s, d}
  BY <1>1
<1> HIDE DEF s, d
<1>3. IsFiniteSet({s, d}) /\ Cardinality({s, d}) <= 2
  <2>1. {s, d} = {s} \cup {d} /\ IsFiniteSet({s}) /\ Cardinality({s}) = 1
    BY FS_Singleton
  <2> QED
    BY <2>1, FS_AddElement
<1> QED
  BY <1>2, <1>3, FS_Subset, FS_CardinalityType

(* Type correctness. *)
THEOREM TypeCorrect == Spec => []TypeOK
<1>1. IInv /\ PoolInv => TypeOK
  <2> SUFFICES ASSUME IInv, PoolInv PROVE TypeOK
    OBVIOUS
  <2>1. Shape
    BY DEF IInv
  <2>2. ASSUME NEW t \in Test
        PROVE  /\ IsSuffix(todo[t], Body(plan[t]))
               /\ ToSet(locals[t]) \subseteq Dirs \cup {"taps", "ci", "src", "dst"}
               /\ "taps" \in ToSet(locals[t]) <=> held[t] # {}
               /\ phase[t] \in {"queued", "claimed", "returned", "reported"} => locals[t] = << >>
               /\ {q.role : q \in Owned(t)} = ToSet(locals[t]) \cap {"src", "dst"}
               /\ Cardinality(Owned(t)) <= 2
    <3>1. Own(t)
      BY DEF IInv
    <3>2. IsSuffix(todo[t], Body(plan[t]))
      <4>1. todo[t] \in Seq(Op) /\ Body(plan[t]) \in Seq(Op)
        BY <2>1, BodyOrdered DEF Shape, Segment
      <4> QED
        BY <3>1, <4>1, SuffixByIndex DEF Own, Rest
    <3>3. Have(t) \subseteq Local
      BY <2>1, ToSetElements DEF Shape, Have
    <3>4. ToSet(locals[t]) \subseteq Dirs \cup {"taps", "ci", "src", "dst"}
      BY <3>3 DEF Have, Local, Dirs
    <3>5. /\ "taps" \in ToSet(locals[t]) <=> held[t] # {}
          /\ phase[t] \in {"queued", "claimed", "returned", "reported"} => locals[t] = << >>
      BY <3>1 DEF Own, HoldsTaps, Have, Stacked
    <3>6. {q.role : q \in Owned(t)} = ToSet(locals[t]) \cap {"src", "dst"}
      BY <3>1 DEF Own, Machines, Owned, Have
    <3> QED
      BY <3>2, <3>4, <3>5, <3>6, TwoQemus
  <2>3. \A q \in vms : q.test \in Test /\ q.state \in {"running", "inmigrate", "postmigrate"}
    BY <2>1 DEF Shape, IInv, Own, Machines
  <2>4. \A o \in orphans : o.test \in Test /\ o.role \in {"src", "dst"}
    BY <2>1 DEF Shape, IInv, Own, Blamed, Abandoned
  <2> QED
    BY <2>1, <2>2, <2>3, <2>4 DEF TypeOK, Shape, Phase, PoolInv
<1> QED
  BY <1>1, Invariance, PTL

(***************************************************************************)
(* A test that has returned, whether it failed and wherever, has left no   *)
(* file, no pair of taps and no QemuProcess; what may stay is one QEMU, if *)
(* it failed at the spawn of that QEMU.                                    *)
(***************************************************************************)
THEOREM NothingIsLeftBehind == Spec => []NothingStays
<1>1. IInv => NothingStays
  <2> SUFFICES ASSUME IInv, NEW t \in Test, phase[t] \in {"returned", "reported"}
               PROVE  /\ held[t] = {} /\ Owned(t) = {} /\ \A f \in files : f[1] # t
                      /\ \A o, p \in orphans : o.test = t /\ p.test = t => o = p
                      /\ ok[t] => \A o \in orphans : o.test # t
    BY DEF NothingStays
  <2>1. Own(t)
    BY DEF IInv
  <2>2. Have(t) = {}
    BY <2>1, EmptyLists DEF Own, Stacked, Have, Lists
  <2>3. held[t] = {} /\ Owned(t) = {} /\ \A f \in files : f[1] # t
    BY <2>1, <2>2 DEF Own, HoldsTaps, Machines, Homes, Owned
  <2> QED
    BY <2>1, <2>3 DEF Own, Blamed
<1> QED
  BY <1>1, Invariance, PTL

(* A test that holds pairs holds one. *)
LEMMA HeldIsPair ==
    ASSUME PoolInv, NEW t \in Test, held[t] # {}
    PROVE  LET i == The(held[t]) IN i \in Nat /\ i \in held[t] /\ held[t] = {i}
<1>1. held[t] \subseteq Nat /\ \A i, j \in held[t] : i = j
  BY PoolAssumption DEF PoolInv, Pool!TypeOK, Pool!Valid
<1>2. PICK i \in Nat : held[t] = {i}
  BY <1>1
<1>3. The(held[t]) = i
  BY <1>2, Chosen
<1> QED
  BY <1>2, <1>3

(* A test with a QEMU that uses taps holds exactly one pair. *)
LEMMA PairOfQemu ==
    ASSUME IInv, PoolInv, NEW q \in vms, UsesTaps(plan[q.test])
    PROVE  LET i == The(held[q.test])
           IN i \in Nat /\ held[q.test] = {i}
<1> DEFINE t == q.test
<1>1. t \in Test /\ q.role \in {"src", "dst"} /\ q.role \in Have(t)
  BY DEF IInv, Shape, Own, Machines
<1> HIDE DEF t
<1>2. "taps" \in Local /\ LocalRank("taps") < LocalRank(q.role)
  <2>1. LocalRank("taps") = 5 /\ LocalRank(q.role) \in {9, 10}
    BY <1>1 DEF LocalRank, Maker, Rank
  <2> QED
    BY <2>1 DEF Local
<1>3. Maker("taps") \in BodyOps(plan[t])
  BY DEF BodyOps, Maker, Given, t
<1>4. "taps" \in Have(t)
  BY <1>1, <1>2, <1>3 DEF IInv, Own, Stacked
<1>5. held[t] # {}
  BY <1>1, <1>4 DEF IInv, Own, HoldsTaps
<1> QED
  BY <1>1, <1>5, HeldIsPair DEF t

(***************************************************************************)
(* The socket, the log and the images of a QEMU exist and its tap belongs  *)
(* to the pair its test holds, as long as its QemuProcess lives.  A QEMU   *)
(* without a QemuProcess, which may outlive them, is of a failed test.     *)
(***************************************************************************)
THEOREM UsedOutlivesUser == Spec => []OutlivesQemu
<1>1. IInv /\ PoolInv => OutlivesQemu
  <2>5. ASSUME IInv, NEW o \in orphans PROVE ~ok[o.test]
    BY <2>5 DEF IInv, Shape, Own, Blamed
  <2> SUFFICES ASSUME IInv, PoolInv, NEW q \in vms
               PROVE  /\ Uses(q) \subseteq files
                      /\ TapsOf(q) \subseteq
                             UNION {{Pool!SrcTap(i), Pool!DstTap(i)} : i \in held[q.test]}
    BY <2>5 DEF OutlivesQemu, Uses
  <2> DEFINE t == q.test
  <2>1. t \in Test /\ q.role \in {"src", "dst"} /\ q.args = Args(Config(t, q.role))
    BY DEF IInv, Shape, Own, Machines
  <2>2. Uses(q) \subseteq files
    BY DEF IInv, Own, Present, Shape
  <2>3. TapsOf(q) = IF UsesTaps(plan[t]) THEN {Tap(t, q.role)} ELSE {}
    BY <2>1, QemuUses
  <2>4. UsesTaps(plan[t]) => The(held[t]) \in held[t]
    BY PairOfQemu
  <2> QED
    BY <2>2, <2>3, <2>4 DEF Tap
<1> QED
  BY <1>1, Invariance, PTL

(* A QEMU by the test that started it, its role and what it has open. *)
Placed(q) ==
    /\ q.test \in Test /\ q.role \in {"src", "dst"}
    /\ Logs(q) = {PathTo(q.test, Dir(q.role), "qmp.sock"),
                  PathTo(q.test, Dir(q.role), "serial.log")}
    /\ Images(q, {"rw"}) \subseteq {File(q.test, "guest.bin")}
    /\ held[q.test] # {} \/ q \in vms =>
           /\ TapsOf(q) \subseteq {Tap(q.test, q.role)}
           /\ TapsOf(q) # {} => held[q.test] # {}

LEMMA AllPlaced ==
    ASSUME IInv, PoolInv, NEW q \in Alive
    PROVE  Placed(q)
<1>1. CASE q \in vms
  <2>1. q.test \in Test /\ q.role \in {"src", "dst"} /\ q.args = Args(Config(q.test, q.role))
    BY <1>1 DEF IInv, Shape, Own, Machines
  <2>2. /\ Logs(q) = {PathTo(q.test, Dir(q.role), "qmp.sock"),
                      PathTo(q.test, Dir(q.role), "serial.log")}
        /\ Images(q, {"rw"}) \subseteq {File(q.test, "guest.bin")}
        /\ TapsOf(q) = IF UsesTaps(plan[q.test]) THEN {Tap(q.test, q.role)} ELSE {}
    BY <2>1, QemuUses
  <2>3. UsesTaps(plan[q.test]) => held[q.test] # {}
    BY <1>1, PairOfQemu
  <2> QED
    BY <2>1, <2>2, <2>3 DEF Placed
<1>2. CASE q \in orphans
  <2>1. q.test \in Test /\ Blamed(q.test)
    BY <1>2 DEF IInv, Shape, Own
  <2>2. Abandoned(q.test, q) /\ \A v \in vms : v.test = q.test => v.role # q.role
    BY <1>2, <2>1 DEF Blamed
  <2>3. q \notin vms
    BY <2>2
  <2> QED
    BY <2>1, <2>2, <2>3 DEF Placed, Abandoned
<1> QED
  BY <1>1, <1>2 DEF Alive

(* A test has one QEMU for each role, the one left behind included. *)
LEMMA OneOfEach ==
    ASSUME IInv, NEW q \in Alive, NEW r \in Alive, q.test = r.test, q.role = r.role
    PROVE  q = r
<1> DEFINE t == q.test
<1>1. t \in Test
  BY DEF IInv, Shape, Alive
<1>2. Machines(t) /\ Blamed(t)
  BY <1>1 DEF IInv, Own
<1> HIDE DEF t
<1>3. q.test = t /\ r.test = t
  BY DEF t
<1>4. CASE q \in vms /\ r \in vms
  BY <1>2, <1>3, <1>4 DEF Machines
<1>5. CASE q \in orphans
  BY <1>2, <1>3, <1>5 DEF Blamed, Alive
<1>6. CASE r \in orphans
  BY <1>2, <1>3, <1>6 DEF Blamed, Alive
<1> QED
  BY <1>4, <1>5, <1>6 DEF Alive

(***************************************************************************)
(* QEMUs that live at the same time share neither a socket nor a log nor a *)
(* tap, those left behind by failed spawns included, until the pair of one *)
(* of those is given back; only a test's own files are open for writing.   *)
(***************************************************************************)
THEOREM QemusAreApart == Spec => []NothingShared
<1>1. IInv /\ PoolInv => NothingShared
  <2> SUFFICES ASSUME IInv, PoolInv PROVE NothingShared
    OBVIOUS
  <2>1. ASSUME NEW q \in Alive, NEW r \in Alive, q # r
        PROVE  /\ Logs(q) \cap Logs(r) = {}
               /\ TapsOf(q) \cap TapsOf(r) # {} =>
                     \E o \in {q, r} \cap orphans : held[o.test] = {}
    <3>0. Placed(q) /\ Placed(r)
      BY AllPlaced
    <3>1. q.test # r.test \/ q.role # r.role
      BY <2>1, OneOfEach
    <3>2. q.test # r.test \/ Dir(q.role) # Dir(r.role)
      BY <3>0, <3>1 DEF Dir, Placed
    <3>3. \A f \in Logs(q) : f[1] = q.test /\ f[2] = Dir(q.role)
      BY <3>0, Paths DEF Placed
    <3>4. \A f \in Logs(r) : f[1] = r.test /\ f[2] = Dir(r.role)
      BY <3>0, Paths DEF Placed
    <3>5. Logs(q) \cap Logs(r) = {}
      BY <3>2, <3>3, <3>4
    <3>6. ASSUME held[q.test] # {}, held[r.test] # {}
          PROVE  Tap(q.test, q.role) # Tap(r.test, r.role)
      <4> DEFINE i == The(held[q.test])
                 j == The(held[r.test])
      <4>0. q.test \in Test /\ r.test \in Test
        BY <3>0 DEF Placed
      <4>1. i \in Nat /\ j \in Nat /\ i \in held[q.test] /\ j \in held[r.test]
        BY <3>6, <4>0, HeldIsPair
      <4>2. q.test # r.test => i # j
        BY <4>0, <4>1 DEF PoolInv, Pool!Conserved
      <4>3. Tap(q.test, q.role) \in {2 * i, 2 * i + 1} /\ Tap(r.test, r.role) \in {2 * j, 2 * j + 1}
        BY DEF Tap, Pool!SrcTap, Pool!DstTap
      <4>4. q.role # r.role =>
                \/ Tap(q.test, q.role) = 2 * i /\ Tap(r.test, r.role) = 2 * j + 1
                \/ Tap(q.test, q.role) = 2 * i + 1 /\ Tap(r.test, r.role) = 2 * j
        BY <3>0 DEF Tap, Pool!SrcTap, Pool!DstTap, Placed
      <4>5. q.test = r.test => i = j
        OBVIOUS
      <4> HIDE DEF i, j
      <4> QED
        BY <3>1, <4>1, <4>2, <4>3, <4>4, <4>5
    <3>7. ASSUME NEW x \in {q, r}, held[x.test] = {}, TapsOf(x) # {}
          PROVE  x \in orphans
      BY <3>0, <3>7 DEF Placed, Alive
    <3>8. ASSUME held[q.test] # {}, held[r.test] # {}
          PROVE  TapsOf(q) \cap TapsOf(r) = {}
      BY <3>0, <3>6, <3>8 DEF Placed
    <3> QED
      BY <3>5, <3>7, <3>8
  <2>2. ASSUME NEW q \in Alive, NEW f \in Images(q, {"rw"})
        PROVE  OnDisk(f) /\ f[1] = q.test
    <3>1. f = PathTo(q.test, "src_dir", "guest.bin")
      BY AllPlaced DEF Placed, File, PathTo
    <3> QED
      BY <3>1, Paths
  <2> QED
    BY <2>1, <2>2 DEF NothingShared
<1> QED
  BY <1>1, Invariance, PTL

-----------------------------------------------------------------------------
(* Two command lines for one machine. *)

(***************************************************************************)
(* a and b agree on the options that the guest sees: m takes each of a to  *)
(* its place in b and keeps their order.  That is preserved when command   *)
(* lines are put together from parts, so it needs no induction.            *)
(***************************************************************************)
Matches(a, b, m) ==
    /\ \A n \in GuestSide(a) : m[n] \in GuestSide(b) /\ b[m[n]] = a[n]
    /\ \A n, k \in GuestSide(a) : n < k <=> m[n] < m[k]
    /\ \A k \in GuestSide(b) : \E n \in GuestSide(a) : m[n] = k
Alike(a, b) ==
    /\ \E S : Lists(a, S)
    /\ \E S : Lists(b, S)
    /\ \E m : Matches(a, b, m)

LEMMA Indices ==
    ASSUME NEW a, NEW S, Lists(a, S)
    PROVE  /\ Len(a) \in Nat /\ DOMAIN a = 1 .. Len(a)
           /\ GuestSide(a) \in SUBSET (1 .. Len(a)) /\ IsFiniteSet(GuestSide(a))
           /\ \A n : n \in GuestSide(a) <=> n \in 1 .. Len(a) /\ a[n][1] \notin Backends
<1>1. Len(a) \in Nat /\ DOMAIN a = 1 .. Len(a)
  BY DEF Lists
<1>2. \A n : n \in GuestSide(a) <=> n \in 1 .. Len(a) /\ a[n][1] \notin Backends
  BY <1>1 DEF GuestSide
<1>3. IsFiniteSet(1 .. Len(a)) /\ GuestSide(a) \in SUBSET (1 .. Len(a))
  BY <1>1, <1>2, FS_Interval
<1> QED
  BY <1>1, <1>2, <1>3, FS_Subset

(* Element by element, with backends for backends. *)
InPlace(a, b) ==
    /\ Len(a) = Len(b)
    /\ \A n \in 1 .. Len(a) : a[n] = b[n] \/ (a[n][1] \in Backends /\ b[n][1] \in Backends)

LEMMA AlikeInPlace ==
    ASSUME NEW a, NEW S, Lists(a, S), NEW b, NEW T, Lists(b, T), InPlace(a, b)
    PROVE  Alike(a, b)
<1> DEFINE m == [n \in 1 .. Len(a) |-> n]
<1>1. GuestSide(a) = GuestSide(b) /\ \A n \in GuestSide(a) : a[n] = b[n] /\ m[n] = n
  BY Indices DEF InPlace
<1>2. \A n \in GuestSide(a) : n \in Nat
  BY Indices
<1> HIDE DEF m
<1>3. Matches(a, b, m)
  BY <1>1, <1>2 DEF Matches
<1> QED
  BY <1>3 DEF Alike

LEMMA AlikeSelf ==
    ASSUME NEW a, NEW S, Lists(a, S)
    PROVE  Alike(a, a)
<1>1. InPlace(a, a)
  BY DEF InPlace
<1> QED
  BY <1>1, AlikeInPlace

(* Only the destination has -incoming. *)
LEMMA AlikeBackend ==
    ASSUME NEW x, x[1] \in Backends
    PROVE  Alike(<< >>, <<x>>)
<1>1. Lists(<< >>, {}) /\ Lists(<<x>>, {x}) /\ Len(<<x>>) = 1 /\ <<x>>[1] = x
  BY EmptyLists, LiteralLists
<1>2. GuestSide(<< >>) = {} /\ GuestSide(<<x>>) = {}
  <2>1. Len(<< >>) = 0
    OBVIOUS
  <2> QED
    BY <1>1, <2>1, Indices
<1>3. Matches(<< >>, <<x>>, << >>)
  BY <1>2 DEF Matches
<1> QED
  BY <1>1, <1>3 DEF Alike

LEMMA Parted ==
    ASSUME NEW a, NEW S, Lists(a, S), NEW b, NEW T, Lists(b, T)
    PROVE  /\ Lists(a \o b, S \cup T) /\ Len(a \o b) = Len(a) + Len(b)
           /\ Len(a) \in Nat /\ Len(b) \in Nat
           /\ \A n \in 1 .. Len(a) + Len(b) :
                 (a \o b)[n] = IF n <= Len(a) THEN a[n] ELSE b[n - Len(a)]
<1>1. a \in Seq(S \cup T) /\ b \in Seq(S \cup T)
  BY SeqMonotonic DEF Lists
<1> QED
  BY <1>1, ConcatLists, ConcatProperties

(* The options of two parts: those of the first, then those of the second. *)
LEMMA GuestSideConcat ==
    ASSUME NEW a, NEW S, Lists(a, S), NEW b, NEW T, Lists(b, T)
    PROVE  /\ \A n \in GuestSide(a) : n \in GuestSide(a \o b) /\ (a \o b)[n] = a[n]
           /\ \A n \in GuestSide(b) :
                 n + Len(a) \in GuestSide(a \o b) /\ (a \o b)[n + Len(a)] = b[n]
           /\ \A n \in GuestSide(a \o b) :
                 IF n <= Len(a) THEN n \in GuestSide(a) ELSE n - Len(a) \in GuestSide(b)
<1>1. /\ Lists(a \o b, S \cup T) /\ Len(a \o b) = Len(a) + Len(b)
      /\ Len(a) \in Nat /\ Len(b) \in Nat
      /\ \A n \in 1 .. Len(a) + Len(b) :
            (a \o b)[n] = IF n <= Len(a) THEN a[n] ELSE b[n - Len(a)]
  BY Parted
<1> DEFINE c == a \o b
<1>2. \A n : n \in GuestSide(c) <=> n \in 1 .. Len(a) + Len(b) /\ c[n][1] \notin Backends
  BY <1>1, Indices
<1>3. \A n : n \in GuestSide(a) <=> n \in 1 .. Len(a) /\ a[n][1] \notin Backends
  BY Indices
<1>4. \A n : n \in GuestSide(b) <=> n \in 1 .. Len(b) /\ b[n][1] \notin Backends
  BY Indices
<1>5. /\ \A n \in 1 .. Len(a) : n \in 1 .. Len(a) + Len(b) /\ c[n] = a[n]
      /\ \A n \in 1 .. Len(b) : /\ n + Len(a) \in 1 .. Len(a) + Len(b)
                                /\ c[n + Len(a)] = b[n]
      /\ \A n \in 1 .. Len(a) + Len(b) :
            IF n <= Len(a) THEN n \in 1 .. Len(a) ELSE n - Len(a) \in 1 .. Len(b)
  <2>1. \A n \in 1 .. Len(a) : n \in 1 .. Len(a) + Len(b) /\ n <= Len(a)
    BY <1>1
  <2>2. \A n \in 1 .. Len(b) : /\ n + Len(a) \in 1 .. Len(a) + Len(b)
                               /\ ~(n + Len(a) <= Len(a)) /\ (n + Len(a)) - Len(a) = n
    BY <1>1
  <2>3. \A n \in 1 .. Len(a) + Len(b) :
            IF n <= Len(a) THEN n \in 1 .. Len(a) ELSE n - Len(a) \in 1 .. Len(b)
    BY <1>1
  <2> QED
    BY <1>1, <2>1, <2>2, <2>3
<1>6. \A n \in 1 .. Len(a) + Len(b) :
         c[n] = IF n <= Len(a) THEN a[n] ELSE b[n - Len(a)]
  BY <1>1
<1> HIDE DEF c
<1>7. \A n \in GuestSide(c) :
         IF n <= Len(a) THEN n \in GuestSide(a) ELSE n - Len(a) \in GuestSide(b)
  BY <1>2, <1>3, <1>4, <1>5, <1>6
<1>8. /\ \A n \in GuestSide(a) : n \in GuestSide(c) /\ c[n] = a[n]
      /\ \A n \in GuestSide(b) : n + Len(a) \in GuestSide(c) /\ c[n + Len(a)] = b[n]
  BY <1>2, <1>3, <1>4, <1>5
<1> QED
  BY <1>7, <1>8 DEF c

LEMMA AlikeConcat ==
    ASSUME NEW a, NEW b, NEW c, NEW d, Alike(a, b), Alike(c, d)
    PROVE  Alike(a \o c, b \o d)
<1>1. PICK S : Lists(a, S)
  BY DEF Alike
<1>2. PICK T : Lists(b, T)
  BY DEF Alike
<1>3. PICK U : Lists(c, U)
  BY DEF Alike
<1>4. PICK V : Lists(d, V)
  BY DEF Alike
<1>5. PICK m : Matches(a, b, m)
  BY DEF Alike
<1>6. PICK l : Matches(c, d, l)
  BY DEF Alike
<1> DEFINE x == a \o c
           y == b \o d
           p == Len(a)
           r == Len(b)
           k == [n \in GuestSide(x) |-> IF n <= p THEN m[n] ELSE l[n - p] + r]
<1>7. /\ \E W : Lists(x, W)
      /\ \E W : Lists(y, W)
      /\ p \in Nat /\ r \in Nat
  BY <1>1, <1>2, <1>3, <1>4, Parted
<1>8. /\ \A n \in GuestSide(a) : n \in GuestSide(x) /\ x[n] = a[n]
      /\ \A n \in GuestSide(c) : n + p \in GuestSide(x) /\ x[n + p] = c[n]
      /\ \A n \in GuestSide(x) : IF n <= p THEN n \in GuestSide(a) ELSE n - p \in GuestSide(c)
  BY <1>1, <1>3, GuestSideConcat
<1>9. /\ \A n \in GuestSide(b) : n \in GuestSide(y) /\ y[n] = b[n]
      /\ \A n \in GuestSide(d) : n + r \in GuestSide(y) /\ y[n + r] = d[n]
      /\ \A n \in GuestSide(y) : IF n <= r THEN n \in GuestSide(b) ELSE n - r \in GuestSide(d)
  BY <1>2, <1>4, GuestSideConcat
<1>10. /\ \A n \in GuestSide(a) : n \in Nat /\ n <= p
       /\ \A n \in GuestSide(b) : n \in Nat /\ n <= r
       /\ \A n \in GuestSide(c) : n \in Nat /\ n >= 1
       /\ \A n \in GuestSide(d) : n \in Nat /\ n >= 1
       /\ \A n \in GuestSide(x) : n \in Nat
       /\ \A n \in GuestSide(y) : n \in Nat
  <2>1. \A z, W : Lists(z, W) => \A n \in GuestSide(z) : n \in Nat /\ 1 <= n /\ n <= Len(z)
    <3> SUFFICES ASSUME NEW z, NEW W, Lists(z, W), NEW n \in GuestSide(z)
                 PROVE  n \in Nat /\ 1 <= n /\ n <= Len(z)
      OBVIOUS
    <3>1. Len(z) \in Nat /\ n \in 1 .. Len(z)
      BY Indices
    <3> QED
      BY <3>1
  <2> QED
    BY <1>1, <1>2, <1>3, <1>4, <1>7, <2>1
<1> HIDE DEF x, y, p, r
<1>11. /\ \A n \in GuestSide(x) : n <= p => n \in GuestSide(a) /\ k[n] = m[n]
       /\ \A n \in GuestSide(x) : ~(n <= p) => n - p \in GuestSide(c) /\ k[n] = l[n - p] + r
  BY <1>8
<1> HIDE DEF k
<1>12. ASSUME NEW n \in GuestSide(x) PROVE k[n] \in GuestSide(y) /\ y[k[n]] = x[n]
  <2>1. CASE n <= p
    BY <1>5, <1>8, <1>9, <1>11, <2>1 DEF Matches
  <2>2. CASE ~(n <= p)
    <3>1. n - p \in GuestSide(c) /\ (n - p) + p = n /\ k[n] = l[n - p] + r
      BY <1>7, <1>10, <1>11, <2>2
    <3>2. l[n - p] \in GuestSide(d) /\ d[l[n - p]] = c[n - p]
      BY <1>6, <3>1 DEF Matches
    <3> QED
      BY <1>8, <1>9, <3>1, <3>2
  <2> QED
    BY <2>1, <2>2
<1>13. ASSUME NEW n \in GuestSide(x), NEW o \in GuestSide(x) PROVE n < o <=> k[n] < k[o]
  <2>1. n \in Nat /\ o \in Nat /\ p \in Nat /\ r \in Nat
    BY <1>7, <1>10
  <2>2. n <= p => k[n] \in Nat /\ k[n] <= r
    BY <1>5, <1>10, <1>11 DEF Matches
  <2>3. ~(n <= p) => k[n] \in Nat /\ k[n] > r
    <3> SUFFICES ASSUME ~(n <= p) PROVE k[n] \in Nat /\ k[n] > r
      OBVIOUS
    <3>1. l[n - p] \in GuestSide(d) /\ k[n] = l[n - p] + r
      BY <1>6, <1>11 DEF Matches
    <3>2. l[n - p] \in Nat /\ l[n - p] >= 1
      BY <1>10, <3>1
    <3> QED
      BY <2>1, <3>1, <3>2
  <2>4. o <= p => k[o] \in Nat /\ k[o] <= r
    BY <1>5, <1>10, <1>11 DEF Matches
  <2>5. ~(o <= p) => k[o] \in Nat /\ k[o] > r
    <3> SUFFICES ASSUME ~(o <= p) PROVE k[o] \in Nat /\ k[o] > r
      OBVIOUS
    <3>1. l[o - p] \in GuestSide(d) /\ k[o] = l[o - p] + r
      BY <1>6, <1>11 DEF Matches
    <3>2. l[o - p] \in Nat /\ l[o - p] >= 1
      BY <1>10, <3>1
    <3> QED
      BY <2>1, <3>1, <3>2
  <2>6. CASE n <= p /\ o <= p
    BY <1>5, <1>11, <2>6 DEF Matches
  <2>7. CASE ~(n <= p) /\ ~(o <= p)
    <3>1. /\ n - p \in GuestSide(c) /\ o - p \in GuestSide(c)
          /\ k[n] = l[n - p] + r /\ k[o] = l[o - p] + r
      BY <1>11, <2>7
    <3>2. l[n - p] \in Nat /\ l[o - p] \in Nat /\ (n - p < o - p <=> l[n - p] < l[o - p])
      BY <1>6, <1>10, <3>1 DEF Matches
    <3> QED
      BY <2>1, <3>1, <3>2
  <2>8. CASE n <= p /\ ~(o <= p)
    BY <2>1, <2>2, <2>5, <2>8
  <2>9. CASE ~(n <= p) /\ o <= p
    BY <2>1, <2>3, <2>4, <2>9
  <2> QED
    BY <2>6, <2>7, <2>8, <2>9
<1>14. ASSUME NEW o \in GuestSide(y) PROVE \E n \in GuestSide(x) : k[n] = o
  <2>1. CASE o <= r
    <3>1. PICK n \in GuestSide(a) : m[n] = o
      BY <1>5, <1>9, <2>1 DEF Matches
    <3> QED
      BY <1>8, <1>10, <1>11, <3>1
  <2>2. CASE ~(o <= r)
    <3>1. PICK n \in GuestSide(c) : l[n] = o - r
      BY <1>6, <1>9, <2>2 DEF Matches
    <3>2. n + p \in GuestSide(x) /\ ~(n + p <= p) /\ (n + p) - p = n /\ (o - r) + r = o
      BY <1>7, <1>8, <1>10, <3>1
    <3> QED
      BY <1>11, <3>1, <3>2
  <2> QED
    BY <2>1, <2>2
<1>15. Matches(x, y, k)
  BY <1>12, <1>13, <1>14 DEF Matches
<1> QED
  BY <1>7, <1>15 DEF Alike, x, y

(* As many options before each of them, so the guest sees the same. *)
LEMMA AlikeVisible ==
    ASSUME NEW q, NEW r, Alike(q.args, r.args)
    PROVE  Visible(q) = Visible(r)
<1> DEFINE a == q.args
           b == r.args
           upto(n) == {k \in GuestSide(a) : k < n}
           upto2(n) == {k \in GuestSide(b) : k < n}
<1>1. PICK m : Matches(a, b, m)
  BY DEF Alike
<1>2. PICK S : Lists(a, S)
  BY DEF Alike
<1>3. PICK T : Lists(b, T)
  BY DEF Alike
<1> HIDE DEF a, b
<1>4. /\ IsFiniteSet(GuestSide(a)) /\ \A n \in GuestSide(a) : n \in Nat
      /\ \A n \in GuestSide(b) : n \in Nat
  BY <1>2, <1>3, Indices
<1>5. \A n, k \in GuestSide(a) : m[n] = m[k] => n = k
  <2> SUFFICES ASSUME NEW n \in GuestSide(a), NEW k \in GuestSide(a), m[n] = m[k]
               PROVE  n = k
    OBVIOUS
  <2>1. n \in Nat /\ k \in Nat /\ m[n] \in Nat /\ m[k] \in Nat
    BY <1>1, <1>4 DEF Matches
  <2>2. (n < k <=> m[n] < m[k]) /\ (k < n <=> m[k] < m[n])
    BY <1>1 DEF Matches
  <2> QED
    BY <2>1, <2>2
<1>6. ASSUME NEW n \in GuestSide(a)
      PROVE  Cardinality(upto(n)) = Cardinality(upto2(m[n]))
  <2> DEFINE A == upto(n)
             B == upto2(m[n])
             f == [k \in A |-> m[k]]
  <2>1. IsFiniteSet(A)
    BY <1>4, FS_Subset
  <2>2. \A k : k \in A <=> k \in GuestSide(a) /\ k < n
    OBVIOUS
  <2>3. \A k : k \in B <=> k \in GuestSide(b) /\ k < m[n]
    OBVIOUS
  <2>4. \A k \in A : f[k] = m[k]
    OBVIOUS
  <2>5. f \in [A -> B]
    <3>1. \A k \in A : m[k] \in B
      BY <1>1, <2>2, <2>3 DEF Matches
    <3> HIDE DEF A, B
    <3> QED
      BY <3>1
  <2> HIDE DEF A, B, f
  <2>6. \A k, j \in A : f[k] = f[j] => k = j
    BY <1>5, <2>2, <2>4
  <2>7. ASSUME NEW j \in B PROVE \E k \in A : f[k] = j
    <3>1. PICK k \in GuestSide(a) : m[k] = j
      BY <1>1, <2>3 DEF Matches
    <3>2. k < n
      BY <1>1, <2>3, <3>1 DEF Matches
    <3> QED
      BY <2>2, <2>4, <3>1, <3>2
  <2>8. ExistsBijection(A, B)
    <3>1. f \in Bijection(A, B)
      BY <2>5, <2>6, <2>7 DEF Bijection, Injection, Surjection, IsInjective
    <3> QED
      BY <3>1 DEF ExistsBijection
  <2>9. Cardinality(B) = Cardinality(A)
    BY <2>1, <2>8, FS_Bijection
  <2> QED
    BY <2>9 DEF A, B
<1>7. Visible(q) = {<<Cardinality(upto(n)), a[n]>> : n \in GuestSide(a)}
  BY DEF Visible, a
<1>8. Visible(r) = {<<Cardinality(upto2(n)), b[n]>> : n \in GuestSide(b)}
  BY DEF Visible, b
<1> HIDE DEF upto, upto2
<1>9. \A n \in GuestSide(a) : m[n] \in GuestSide(b) /\ b[m[n]] = a[n]
  BY <1>1 DEF Matches
<1>10. \A k \in GuestSide(b) : \E n \in GuestSide(a) : m[n] = k
  BY <1>1 DEF Matches
<1> QED
  BY <1>6, <1>7, <1>8, <1>9, <1>10

(* Two configurations that differ only where Backends says so. *)
Twins(c, d) ==
    /\ c.payload \in Payload /\ c.payload = d.payload /\ c.dir[1] = d.dir[1]
    /\ c.initrd = d.initrd
    /\ c.allow_reboot = d.allow_reboot /\ c.cpu = d.cpu /\ c.machine = d.machine
    /\ c.io_thread = d.io_thread /\ c.ram = d.ram /\ c.smp = d.smp /\ c.rtc = d.rtc
    /\ c.ovmf = d.ovmf /\ c.cloud_init = d.cloud_init
    /\ (c.net = {}) = (d.net = {})
    /\ c.net # {} => The(c.net).mac = The(d.net).mac
    /\ c.incoming = FALSE /\ d.incoming = TRUE

LEMMA AlikeWhen ==
    ASSUME NEW a, NEW b, NEW s, NEW t, NEW x, Alike(a, b), Alike(s, t)
    PROVE  Alike(a \o When(x, s), b \o When(x, t))
<1>1. Alike(<< >>, << >>)
  BY EmptyLists, AlikeSelf
<1> QED
  BY <1>1, AlikeConcat DEF When

LEMMA AlikeLiteral ==
    /\ \A x : Alike(<<x>>, <<x>>)
    /\ \A x, y : Alike(<<x, y>>, <<x, y>>)
    /\ \A x, y, z :
          x[1] \in Backends /\ y[1] \in Backends => Alike(<<x, z>>, <<y, z>>)
    /\ \A x, y, z, u, v :
          x[1] \in Backends /\ y[1] \in Backends /\ u[1] \in Backends /\ v[1] \in Backends
          => Alike(<<x, u, z>>, <<y, v, z>>)
<1>1. \A x : Alike(<<x>>, <<x>>)
  BY LiteralLists, AlikeSelf
<1>2. \A x, y : Alike(<<x, y>>, <<x, y>>)
  BY LiteralLists, AlikeSelf
<1>3. ASSUME NEW x, NEW y, NEW z, x[1] \in Backends, y[1] \in Backends
      PROVE  Alike(<<x, z>>, <<y, z>>)
  <2> DEFINE a == <<x, z>>
             b == <<y, z>>
  <2>1. Lists(a, {x, z}) /\ Lists(b, {y, z})
    BY LiteralLists
  <2>2. Len(a) = 2 /\ Len(b) = 2 /\ a[1] = x /\ a[2] = z /\ b[1] = y /\ b[2] = z
    OBVIOUS
  <2> HIDE DEF a, b
  <2>3. a[1][1] \in Backends /\ b[1][1] \in Backends /\ a[2] = b[2]
    BY <1>3, <2>2
  <2>4. InPlace(a, b)
    BY <2>2, <2>3 DEF InPlace
  <2>5. Alike(a, b)
    BY <2>1, <2>4, AlikeInPlace
  <2> QED
    BY <2>5 DEF a, b
<1>4. ASSUME NEW x, NEW y, NEW z, NEW u, NEW v, x[1] \in Backends, y[1] \in Backends,
             u[1] \in Backends, v[1] \in Backends
      PROVE  Alike(<<x, u, z>>, <<y, v, z>>)
  <2> DEFINE a == <<x, u, z>>
             b == <<y, v, z>>
  <2>1. Lists(a, {x, u, z}) /\ Lists(b, {y, v, z})
    BY LiteralLists
  <2>2. /\ Len(a) = 3 /\ a[1] = x /\ a[2] = u /\ a[3] = z
        /\ Len(b) = 3 /\ b[1] = y /\ b[2] = v /\ b[3] = z
    OBVIOUS
  <2> HIDE DEF a, b
  <2>3. /\ a[1][1] \in Backends /\ b[1][1] \in Backends
        /\ a[2][1] \in Backends /\ b[2][1] \in Backends /\ a[3] = b[3]
    BY <1>4, <2>2
  <2>4. InPlace(a, b)
    BY <2>2, <2>3 DEF InPlace
  <2>5. Alike(a, b)
    BY <2>1, <2>4, AlikeInPlace
  <2> QED
    BY <2>5 DEF a, b
<1> QED
  BY <1>1, <1>2, <1>3, <1>4

LEMMA TwinsAlike ==
    ASSUME NEW c, NEW d, Twins(c, d)
    PROVE  Alike(Args(c), Args(d))
<1> DEFINE
      host(g) == << <<"-qmp", Append(g.dir, "qmp.sock")>>,
                    <<"-serial", Append(g.dir, "serial.log")>>, <<"-M", g.machine>> >>
      pflash(g) == <<Drive("pflash", <<"payload", The(g.ovmf)>>, "readonly")>>
      cidata(g) == <<Drive("cidata", The(g.cloud_init), "readonly"),
                     Device("virtio-blk", {"cidata"}, {})>>
      r1(g) == When(~g.allow_reboot, << <<"-no-reboot">> >>)
      r2(g) == r1(g) \o When(g.cpu # {}, << <<"-cpu", g.cpu>> >>)
      r3(g) == r2(g) \o host(g)
      r4(g) == r3(g) \o When(g.io_thread, << <<"-object", "io0">> >>)
      r5(g) == r4(g) \o PayloadArgs(g)
      r6(g) == r5(g) \o << <<"-m", g.ram>> >>
      r7(g) == r6(g) \o When(g.smp # {}, << <<"-smp", g.smp>> >>)
      r8(g) == r7(g) \o When(g.incoming, << <<"-incoming", "defer">> >>)
      r9(g) == r8(g) \o When(g.rtc # {}, << <<"-rtc", g.rtc>> >>)
      r10(g) == r9(g) \o When(g.ovmf # {}, pflash(g))
      r11(g) == r10(g) \o When(g.cloud_init # {}, cidata(g))
      r12(g) == r11(g) \o When(g.net # {}, NetArgs(The(g.net)))
<1>1. Args(c) = r12(c)
  BY DEF Args, Objects
<1>2. Args(d) = r12(d)
  BY DEF Args, Objects
<1>3. PayloadArgs(d) = PayloadArgs(c)
  BY DEF Twins, PayloadArgs, File, Payload
<1>4. Alike(PayloadArgs(c), PayloadArgs(d))
  BY <1>3, PayloadListed, AlikeSelf DEF Twins
<1>5. Alike(host(c), host(d))
  BY AlikeLiteral DEF Backends, Twins
<1>6. Alike(r1(c), r1(d))
  <2>1. r1(c) = r1(d)
    BY DEF Twins
  <2> QED
    BY <2>1, AlikeLiteral, EmptyLists, AlikeSelf DEF When
<1> HIDE DEF r1, host
<1>7. Alike(r2(c), r2(d))
  BY <1>6, AlikeLiteral, AlikeWhen DEF Twins
<1> HIDE DEF r2
<1>8. Alike(r3(c), r3(d))
  BY <1>5, <1>7, AlikeConcat
<1> HIDE DEF r3
<1>9. Alike(r4(c), r4(d))
  BY <1>8, AlikeLiteral, AlikeWhen DEF Twins
<1> HIDE DEF r4
<1>10. Alike(r5(c), r5(d))
  BY <1>4, <1>9, AlikeConcat
<1> HIDE DEF r5
<1>11. Alike(r6(c), r6(d))
  BY <1>10, AlikeLiteral, AlikeConcat DEF Twins
<1> HIDE DEF r6
<1>12. Alike(r7(c), r7(d))
  BY <1>11, AlikeLiteral, AlikeWhen DEF Twins
<1> HIDE DEF r7
<1>13. Alike(r8(c), r8(d))
  <2>1. Alike(<< >>, << <<"-incoming", "defer">> >>)
    BY AlikeBackend DEF Backends
  <2>2. Alike(r7(c) \o << >>, r7(d) \o << <<"-incoming", "defer">> >>)
    BY <1>12, <2>1, AlikeConcat
  <2> QED
    BY <2>2 DEF When, Twins
<1> HIDE DEF r8
<1>14. Alike(r9(c), r9(d))
  BY <1>13, AlikeLiteral, AlikeWhen DEF Twins
<1> HIDE DEF r9
<1>15. Alike(r10(c), r10(d))
  BY <1>14, AlikeLiteral, AlikeWhen DEF Twins
<1> HIDE DEF r10
<1>16. Alike(r11(c), r11(d))
  BY <1>15, AlikeLiteral, AlikeWhen DEF Twins
<1> HIDE DEF r11
<1>17. Alike(r12(c), r12(d))
  <2>1. CASE c.net = {}
    BY <1>16, <2>1, EmptyLists, AlikeSelf, AlikeConcat DEF When, Twins
  <2>2. CASE c.net # {}
    <3>1. Alike(NetArgs(The(c.net)), NetArgs(The(d.net)))
      BY <2>2, AlikeLiteral DEF NetArgs, Twins, Backends
    <3> QED
      BY <1>16, <2>2, <3>1, AlikeWhen DEF Twins
  <2> QED
    BY <2>1, <2>2
<1> QED
  BY <1>1, <1>2, <1>17

LEMMA ConfigsAreTwins ==
    ASSUME NEW t \in Test, Shape
    PROVE  Twins(SrcConfig(t), DstConfig(t))
<1> DEFINE s == SrcConfig(t)
           d == DstConfig(t)
           p == plan[t]
<1>1. /\ p \in Plan /\ s.payload = p.payload /\ d.payload = p.payload
      /\ s.dir = Path(t, "src_dir") /\ d.dir = Path(t, "dst_dir")
      /\ d.cloud_init = s.cloud_init
      /\ s.net = Given(p.payload = "DiskImage", {SrcNet(t)})
      /\ d.net = IF UsesTaps(p) THEN {DstNet(t)} ELSE s.net
  BY ConfigFields
<1>2. s.payload \in Payload
  BY <1>1 DEF Plan, Payload
<1>3. s.dir[1] = t /\ d.dir[1] = t
  BY <1>1 DEF Path
<1>4. /\ d.allow_reboot = s.allow_reboot /\ d.cpu = s.cpu /\ d.machine = s.machine
      /\ d.io_thread = s.io_thread /\ d.ram = s.ram /\ d.smp = s.smp /\ d.rtc = s.rtc
      /\ d.ovmf = s.ovmf /\ d.initrd = s.initrd /\ d.incoming = TRUE
  <2>1. DOMAIN s = {"dir", "payload", "initrd", "ram", "incoming", "machine", "smp", "cpu", "cloud_init",
                    "net", "ovmf", "io_thread", "rtc", "allow_reboot"}
    <3>1. DOMAIN s = DOMAIN Default(t, p.payload)
      BY DEF SrcConfig
    <3> QED
      BY <3>1 DEF Default
  <2>2. d = [s EXCEPT !.incoming = TRUE, !.dir = <<t, "dst_dir">>,
                      !.net = IF UsesTaps(p) THEN {DstNet(t)} ELSE @]
    BY DEF DstConfig
  <2> HIDE DEF s, d
  <2> QED
    BY <2>1, <2>2
<1>5. s.incoming = FALSE
  BY DEF SrcConfig, Default
<1> HIDE DEF s, d, p
<1>6. SrcNet(t).mac = Mac(t) /\ DstNet(t).mac = Mac(t)
  BY DEF SrcNet, DstNet, TapNet, UserNet
<1>7. (s.net = {}) = (d.net = {}) /\ (s.net # {} => The(s.net).mac = The(d.net).mac)
  BY <1>1, <1>6, Chosen DEF Given, UsesTaps
<1> QED
  BY <1>1, <1>2, <1>3, <1>4, <1>5, <1>7 DEF Twins, s, d

(***************************************************************************)
(* What a guest sees of source and destination of its migration is the     *)
(* same machine, for every plan and whichever pair of taps the test got.   *)
(***************************************************************************)
THEOREM MigratesToSameMachine == Spec => []SameMachine
<1>1. IInv => SameMachine
  <2> SUFFICES ASSUME IInv, NEW q \in vms, NEW r \in vms, q.test = r.test
               PROVE  Visible(q) = Visible(r)
    BY DEF SameMachine
  <2> DEFINE t == q.test
  <2>1. t \in Test /\ Shape /\ Machines(t)
    BY DEF IInv, Shape, Own
  <2>2. /\ q.role \in {"src", "dst"} /\ q.args = Args(Config(t, q.role))
        /\ r.role \in {"src", "dst"} /\ r.args = Args(Config(t, r.role))
    BY <2>1 DEF Machines
  <2>3. Alike(Args(SrcConfig(t)), Args(DstConfig(t)))
    BY <2>1, ConfigsAreTwins, TwinsAlike
  <2>4. CASE q.role = r.role
    BY <2>1, <2>4 DEF Machines
  <2>5. CASE q.role = "src" /\ r.role = "dst"
    BY <2>2, <2>3, <2>5, AlikeVisible DEF Config
  <2>6. CASE q.role = "dst" /\ r.role = "src"
    BY <2>2, <2>3, <2>6, AlikeVisible DEF Config
  <2> QED
    BY <2>2, <2>4, <2>5, <2>6
<1> QED
  BY <1>1, Invariance, PTL

-----------------------------------------------------------------------------
(* Where in a body the files of a cloud-init disk are copied. *)

(***************************************************************************)
(* The three files are copied after the c-th operation, when the taps are  *)
(* allocated; then QEMU is spawned, and only then ssh is tried.            *)
(***************************************************************************)
CopiesAfter(s, c) ==
    /\ s \in Seq(Op) /\ c \in Nat /\ c + 4 <= Len(s)
    /\ \A i \in 1 .. Len(s) :
          /\ s[i] = "mcopy" <=> i \in c + 1 .. c + 3
          /\ s[i] = "spawn" <=> i = c + 4
          /\ s[i] = "taps" => i <= c
          /\ s[i] = "ssh" => c + 4 < i

(* The elements of a joined sequence, by position. *)
LEMMA Joined ==
    ASSUME NEW S, NEW s \in Seq(S), NEW t \in Seq(S), NEW r, r = s \o t
    PROVE  /\ r \in Seq(S) /\ Len(s) \in Nat /\ Len(t) \in Nat
           /\ Len(r) = Len(s) + Len(t)
           /\ \A i \in 1 .. Len(s) : r[i] = s[i]
           /\ \A i \in 1 .. Len(t) : r[Len(s) + i] = t[i]
<1>1. /\ r \in Seq(S) /\ Len(s) \in Nat /\ Len(t) \in Nat
      /\ Len(r) = Len(s) + Len(t)
      /\ \A i \in 1 .. Len(s) + Len(t) :
            r[i] = IF i <= Len(s) THEN s[i] ELSE t[i - Len(s)]
  BY ConcatProperties
<1>2. ASSUME NEW i \in 1 .. Len(s) PROVE r[i] = s[i]
  BY <1>1
<1>3. ASSUME NEW i \in 1 .. Len(t) PROVE r[Len(s) + i] = t[i]
  <2>1. /\ Len(s) + i \in 1 .. Len(s) + Len(t) /\ ~(Len(s) + i <= Len(s))
        /\ (Len(s) + i) - Len(s) = i
    BY <1>1
  <2> QED
    BY <1>1, <2>1
<1> QED
  BY <1>1, <1>2, <1>3

LEMMA JoinedTwice ==
    ASSUME NEW S, NEW s \in Seq(S), NEW t \in Seq(S), NEW u \in Seq(S),
           NEW m, m = s \o t, NEW r, r = m \o u
    PROVE  /\ r \in Seq(S) /\ Len(s) \in Nat /\ Len(t) \in Nat /\ Len(u) \in Nat
           /\ Len(r) = Len(s) + Len(t) + Len(u)
           /\ \A i \in 1 .. Len(s) : r[i] = s[i]
           /\ \A i \in 1 .. Len(t) : r[Len(s) + i] = t[i]
           /\ \A i \in 1 .. Len(u) : r[Len(s) + Len(t) + i] = u[i]
<1>1. /\ m \in Seq(S) /\ Len(s) \in Nat /\ Len(t) \in Nat
      /\ Len(m) = Len(s) + Len(t)
      /\ \A i \in 1 .. Len(s) : m[i] = s[i]
      /\ \A i \in 1 .. Len(t) : m[Len(s) + i] = t[i]
  BY Joined
<1>2. /\ r \in Seq(S) /\ Len(u) \in Nat
      /\ Len(r) = Len(m) + Len(u)
      /\ \A i \in 1 .. Len(m) : r[i] = m[i]
      /\ \A i \in 1 .. Len(u) : r[Len(m) + i] = u[i]
  BY <1>1, Joined
<1>3. ASSUME NEW i \in 1 .. Len(s) PROVE r[i] = s[i]
  BY <1>1, <1>2
<1>4. ASSUME NEW i \in 1 .. Len(t) PROVE r[Len(s) + i] = t[i]
  <2>1. Len(s) + i \in 1 .. Len(m)
    BY <1>1
  <2> QED
    BY <1>1, <1>2, <2>1
<1> QED
  BY <1>1, <1>2, <1>3, <1>4

(* What the part of a body that makes the disk does, and the spawn after it. *)
MakesDisk(k) ==
    /\ k \in Seq(Op) /\ Len(k) = 6
    /\ k[1] = "keygen" /\ k[2] = "stage" /\ k[3] = "mkdosfs"
    /\ k[4] = "mcopy" /\ k[5] = "mcopy" /\ k[6] = "mcopy"

Spawns(e) == e \in Seq(Op) /\ Len(e) = 1 /\ e[1] = "spawn"

NotAmong(s, X) == s \in Seq(Op) /\ ToSet(s) \cap X = {}

LEMMA NoneAt ==
    ASSUME NEW s, NEW X, NotAmong(s, X)
    PROVE  \A i \in 1 .. Len(s) : s[i] \notin X
<1>1. \A i \in 1 .. Len(s) : s[i] \in ToSet(s)
  BY ToSetElements DEF NotAmong
<1> QED
  BY <1>1 DEF NotAmong

LEMMA CopiesByIndex ==
    ASSUME NEW n \in Nat, NEW r \in Seq(Op), Len(r) = n + 7,
           \A i \in 1 .. n : r[i] \notin {"mcopy", "spawn", "ssh"},
           NEW k, MakesDisk(k), \A i \in 1 .. 6 : r[n + i] = k[i], r[n + 7] = "spawn"
    PROVE  CopiesAfter(r, n + 3)
<1>1. /\ r[n + 1] = "keygen" /\ r[n + 2] = "stage" /\ r[n + 3] = "mkdosfs"
      /\ r[n + 4] = "mcopy" /\ r[n + 5] = "mcopy" /\ r[n + 6] = "mcopy"
  <2>1. \A i \in {1, 2, 3, 4, 5, 6} : r[n + i] = k[i]
    OBVIOUS
  <2> QED
    BY <2>1, Zenon DEF MakesDisk
<1>2. ASSUME NEW i \in 1 .. n + 7
      PROVE  /\ r[i] = "mcopy" <=> i \in {n + 4, n + 5, n + 6}
             /\ r[i] = "spawn" <=> i = n + 7
             /\ r[i] = "taps" => i <= n + 3
             /\ r[i] # "ssh"
  <2>1. CASE i \in 1 .. n
    <3>1. r[i] \notin {"mcopy", "spawn", "ssh"} /\ i <= n
      BY <2>1
    <3> QED
      BY <3>1
  <2>2. CASE i \in {n + 1, n + 2, n + 3}
    <3>1. r[i] \in {"keygen", "stage", "mkdosfs"} /\ i <= n + 3
      BY <1>1, <2>2
    <3> QED
      BY <3>1
  <2>3. CASE i \in {n + 4, n + 5, n + 6}
    <3>1. r[i] = "mcopy"
      BY <1>1, <2>3
    <3> QED
      BY <2>3, <3>1
  <2>4. CASE i = n + 7
    <3>1. r[i] = "spawn"
      BY <2>4
    <3> QED
      BY <2>4, <3>1
  <2> QED
    BY <2>1, <2>2, <2>3, <2>4
<1>3. {n + 4, n + 5, n + 6} = (n + 3) + 1 .. (n + 3) + 3 /\ (n + 3) + 4 = n + 7
  OBVIOUS
<1> QED
  BY <1>2, <1>3 DEF CopiesAfter

(* After n operations that are neither copies nor spawn nor ssh, r is k and then e. *)
InParts(n, r, k, e) ==
    /\ n \in Nat /\ r \in Seq(Op) /\ MakesDisk(k) /\ Spawns(e)
    /\ Len(r) = n + Len(k) + Len(e)
    /\ \A i \in 1 .. n : r[i] \notin {"mcopy", "spawn", "ssh"}
    /\ \A i \in 1 .. Len(k) : r[n + i] = k[i]
    /\ \A i \in 1 .. Len(e) : r[n + Len(k) + i] = e[i]

LEMMA CopiesByPart ==
    ASSUME NEW n, NEW r, NEW k, NEW e, InParts(n, r, k, e)
    PROVE  CopiesAfter(r, n + 3)
<1> USE DEF InParts
<1>1. Len(k) = 6 /\ Len(e) = 1 /\ e[1] = "spawn"
  BY DEF MakesDisk, Spawns
<1>2. Len(r) = n + 6 + 1 /\ \A i \in 1 .. 6 : r[n + i] = k[i]
  BY <1>1, Zenon
<1>3. \A i \in 1 .. 1 : r[n + 6 + i] = e[i]
  BY <1>1, Zenon
<1>4. r[n + 6 + 1] = "spawn"
  BY <1>1, <1>3
<1>5. n + 6 + 1 = n + 7
  OBVIOUS
<1>6. Len(r) = n + 7 /\ r[n + 7] = "spawn"
  BY <1>2, <1>4, <1>5, Zenon
<1> QED
  BY <1>2, <1>6, CopiesByIndex

(* After a beginning without them, the disk and then the spawn come in their places. *)
LEMMA CopiesByPlace ==
    ASSUME NEW s, NotAmong(s, {"mcopy", "spawn", "ssh"}), NEW k, MakesDisk(k), NEW e, Spawns(e)
    PROVE  \A m, r : m = s \o k /\ r = m \o e => CopiesAfter(r, Len(s) + 3)
<1>1. s \in Seq(Op) /\ k \in Seq(Op) /\ e \in Seq(Op)
  BY DEF NotAmong, MakesDisk, Spawns
<1>2. ASSUME NEW m, NEW r, m = s \o k, r = m \o e
      PROVE  CopiesAfter(r, Len(s) + 3)
  <2>1. /\ r \in Seq(Op) /\ Len(s) \in Nat /\ Len(r) = Len(s) + Len(k) + Len(e)
        /\ \A i \in 1 .. Len(s) : r[i] = s[i]
        /\ \A i \in 1 .. Len(k) : r[Len(s) + i] = k[i]
        /\ \A i \in 1 .. Len(e) : r[Len(s) + Len(k) + i] = e[i]
    BY <1>1, <1>2, JoinedTwice
  <2>2. \A i \in 1 .. Len(s) : r[i] \notin {"mcopy", "spawn", "ssh"}
    <3>1. \A i \in 1 .. Len(s) : s[i] \notin {"mcopy", "spawn", "ssh"}
      BY NoneAt
    <3> QED
      BY <2>1, <3>1
  <2>3. InParts(Len(s), r, k, e)
    BY <2>1, <2>2, Zenon DEF InParts
  <2> QED
    BY <2>3, CopiesByPart
<1> QED
  BY <1>2

(* What is appended moves nothing that came before it. *)
LEMMA CopiesStay ==
    ASSUME NEW s, NEW c, CopiesAfter(s, c), NEW t, NEW b,
           NotAmong(t, {"mcopy", "spawn", "taps"})
    PROVE  CopiesAfter(s \o When(b, t), c)
<1>1. CASE b
  <2> DEFINE r == s \o t
  <2>1. s \in Seq(Op) /\ t \in Seq(Op) /\ r = s \o t
    BY DEF CopiesAfter, NotAmong
  <2>2. s \o When(b, t) = r
    BY <1>1 DEF When
  <2> HIDE DEF r
  <2>3. /\ r \in Seq(Op) /\ Len(s) \in Nat /\ Len(t) \in Nat
        /\ Len(r) = Len(s) + Len(t)
        /\ \A i \in 1 .. Len(s) : r[i] = s[i]
        /\ \A i \in 1 .. Len(t) : r[Len(s) + i] = t[i]
    BY <2>1, Joined
  <2>4. c \in Nat /\ c + 4 <= Len(s)
    BY DEF CopiesAfter
  <2>5. ASSUME NEW i \in 1 .. Len(r)
        PROVE  /\ r[i] = "mcopy" <=> i \in c + 1 .. c + 3
               /\ r[i] = "spawn" <=> i = c + 4
               /\ r[i] = "taps" => i <= c
               /\ r[i] = "ssh" => c + 4 < i
    <3>1. CASE i <= Len(s)
      <4>1. i \in 1 .. Len(s) /\ r[i] = s[i]
        BY <2>3, <3>1
      <4> QED
        BY <4>1 DEF CopiesAfter
    <3>2. CASE i > Len(s)
      <4>1. i - Len(s) \in 1 .. Len(t) /\ Len(s) + (i - Len(s)) = i
        BY <2>3, <3>2
      <4>2. r[i] = t[i - Len(s)]
        BY <2>3, <4>1
      <4>3. r[i] \in ToSet(t)
        BY <2>1, <4>1, <4>2, ToSetElements
      <4>4. r[i] \notin {"mcopy", "spawn", "taps"}
        BY <4>3 DEF NotAmong
      <4> QED
        BY <2>4, <3>2, <4>4
    <3> QED
      BY <2>3, <3>1, <3>2
  <2>6. c + 4 <= Len(r)
    BY <2>3, <2>4
  <2> QED
    BY <2>2, <2>3, <2>4, <2>5, <2>6 DEF CopiesAfter
<1>2. CASE ~b
  <2>1. s \o << >> = s
    BY ConcatEmptySeq DEF CopiesAfter
  <2> QED
    BY <1>2, <2>1 DEF When
<1> QED
  BY <1>1, <1>2

(* Joining parts that lack some operations. *)
LEMMA NoneJoined ==
    ASSUME NEW X, NEW s, NotAmong(s, X), NEW t, NotAmong(t, X), NEW b
    PROVE  NotAmong(s \o When(b, t), X)
<1> DEFINE S == ToSet(s)
           T == ToSet(t)
<1>1. s \in Seq(Op) /\ t \in Seq(Op) /\ S \subseteq Op /\ T \subseteq Op
  BY ToSetElements DEF NotAmong
<1>2. Lists(s, S) /\ Lists(t, T)
  BY <1>1, SeqOfRange DEF Lists, ToSet
<1>3. Lists(s \o When(b, t), S \cup Given(b, T))
  BY <1>2, AppendWhenLists
<1>4. S \cup Given(b, T) \subseteq Op /\ (S \cup Given(b, T)) \cap X = {}
  BY <1>1 DEF NotAmong, Given
<1> QED
  BY <1>3, <1>4, SeqMonotonic DEF Lists, NotAmong

LEMMA Few ==
    ASSUME NEW X
    PROVE  /\ \A x \in Op \ X : NotAmong(<<x>>, X)
           /\ \A x, y \in Op \ X : NotAmong(<<x, y>>, X)
           /\ \A x, y, z \in Op \ X : NotAmong(<<x, y, z>>, X)
<1>1. \A x \in Op \ X : <<x>> \in Seq(Op) /\ ToSet(<<x>>) \cap X = {}
  BY LiteralLists DEF Lists
<1>2. \A x, y \in Op \ X : <<x, y>> \in Seq(Op) /\ ToSet(<<x, y>>) \cap X = {}
  BY LiteralLists DEF Lists
<1>3. \A x, y, z \in Op \ X : <<x, y, z>> \in Seq(Op) /\ ToSet(<<x, y, z>>) \cap X = {}
  BY LiteralLists DEF Lists
<1> QED
  BY <1>1, <1>2, <1>3 DEF NotAmong

(* In the body of every test from the OS image the three files are copied between
   the taps and the spawn, and ssh comes after. *)
LEMMA BodyLayout ==
    ASSUME NEW p, p.payload = "DiskImage"
    PROVE  \E c \in Nat : CopiesAfter(Body(p), c)
<1> DEFINE
      k == <<"keygen", "stage", "mkdosfs", "mcopy", "mcopy", "mcopy">>
      e == <<"spawn">>
      s1 == <<"src_dir">> \o When(p.migrates, <<"dst_dir", "mig_dir">>)
      s2 == s1 \o When(p.payload = "GuestBin", <<"payload">>)
      s3 == s2 \o When(UsesTaps(p), <<"taps">>)
      s4 == s3 \o When(p.payload = "DiskImage", k)
      s5 == s4 \o e
      s6 == s5 \o When(p.payload = "DiskImage" /\ ~p.migrates, <<"port">>)
      s7 == s6 \o When(p.waits, <<"await">>)
      s8 == s7 \o When(p.payload = "DiskImage", <<"ssh">>)
      s9 == s8 \o When(p.reboots, <<"reboot", "await", "ssh">>)
      s10 == s9 \o When(UsesTaps(p) /\ p.stress # {}, <<"ssh">>)
      s11 == s10 \o When(p.migrates, <<"dest", "migrate">>)
      s12 == s11 \o When(UsesTaps(p) /\ p.stress # {}, <<"ssh">>)
      s13 == s12 \o When(p.migrates /\ p.payload # "DiskImage", <<"await">>)
      X == {"mcopy", "spawn", "ssh"}
      Y == {"mcopy", "spawn", "taps"}
<1>1. Body(p) = s13
  BY DEF Body
<1>2. MakesDisk(k) /\ Spawns(e)
  BY DEF MakesDisk, Spawns, Op
<1>3. /\ NotAmong(<<"src_dir">>, X) /\ NotAmong(<<"dst_dir", "mig_dir">>, X)
      /\ NotAmong(<<"payload">>, X) /\ NotAmong(<<"taps">>, X)
  <2>1. {"src_dir", "dst_dir", "mig_dir", "payload", "taps"} \subseteq Op \ X
    BY DEF Op
  <2> QED
    BY <2>1, Few
<1>4. /\ NotAmong(<<"port">>, Y) /\ NotAmong(<<"await">>, Y) /\ NotAmong(<<"ssh">>, Y)
      /\ NotAmong(<<"reboot", "await", "ssh">>, Y) /\ NotAmong(<<"dest", "migrate">>, Y)
  <2>1. {"port", "await", "ssh", "reboot", "dest", "migrate"} \subseteq Op \ Y
    BY DEF Op
  <2> QED
    BY <2>1, Few
<1>5. s4 = s3 \o k
  BY DEF When
<1> HIDE DEF k, e, X, Y
<1>6. NotAmong(s3, X)
  <2>1. NotAmong(s1, X)
    BY <1>3, NoneJoined
  <2> HIDE DEF s1
  <2>2. NotAmong(s2, X)
    BY <1>3, <2>1, NoneJoined
  <2> HIDE DEF s2
  <2> QED
    BY <1>3, <2>2, NoneJoined
<1>7. CopiesAfter(s5, Len(s3) + 3)
  <2> HIDE DEF s3, s4
  <2>1. s5 = s4 \o e
    OBVIOUS
  <2> HIDE DEF s5
  <2> QED
    BY <1>2, <1>5, <1>6, <2>1, CopiesByPlace DEF X
<1> DEFINE c == Len(s3) + 3
<1>8. c \in Nat
  BY <1>6 DEF NotAmong
<1>9. CopiesAfter(s5, c)
  BY <1>7
<1> HIDE DEF s5, c
<1>10. CopiesAfter(s8, c)
  <2>1. CopiesAfter(s6, c)
    BY <1>4, <1>9, CopiesStay DEF Y
  <2> HIDE DEF s6
  <2>2. CopiesAfter(s7, c)
    BY <1>4, <2>1, CopiesStay DEF Y
  <2> HIDE DEF s7
  <2> QED
    BY <1>4, <2>2, CopiesStay DEF Y
<1> HIDE DEF s8
<1>11. CopiesAfter(s10, c)
  <2>1. CopiesAfter(s9, c)
    BY <1>4, <1>10, CopiesStay DEF Y
  <2> HIDE DEF s9
  <2> QED
    BY <1>4, <2>1, CopiesStay DEF Y
<1> HIDE DEF s10
<1>12. CopiesAfter(s12, c)
  <2>1. CopiesAfter(s11, c)
    BY <1>4, <1>11, CopiesStay DEF Y
  <2> HIDE DEF s11
  <2> QED
    BY <1>4, <2>1, CopiesStay DEF Y
<1> HIDE DEF s12
<1>13. CopiesAfter(s13, c)
  BY <1>4, <1>12, CopiesStay DEF Y
<1> QED
  BY <1>1, <1>8, <1>13

-----------------------------------------------------------------------------
(* The disk of a test, the guests that booted from it, and the key. *)

(* How many operations of the body are done. *)
Done(t) == Len(Body(plan[t])) - Len(todo[t])

OnImage(t) == plan[t].payload = "DiskImage"

(* Of the files k, n are on the disk d. *)
Copied(d, k, n) ==
    /\ n <= 0 => d = << >>
    /\ n = 1 => d = <<k[1]>>
    /\ n = 2 => d = <<k[1], k[2]>>
    /\ n >= 3 => d = k

(* As many files are on the disk as the body has copied. *)
DiskIs(t) ==
    phase[t] \in {"queued", "claimed", "run"} =>
        IF OnImage(t)
        THEN \E c \in Nat : /\ CopiesAfter(Body(plan[t]), c)
                            /\ Copied(disk[t], Content(t), Done(t) - c)
        ELSE disk[t] = << >>

(* Who runs has booted from the whole disk, and while the body runs one does. *)
GuestIs(t) ==
    /\ \A q \in Owned(t) : q.role = "src" \/ q.state = "running" =>
          q.guest = IF OnImage(t) THEN Content(t) ELSE << >>
    /\ \A q, r \in Owned(t) : q.state = "running" /\ r.state = "running" => q = r
    /\ phase[t] = "run" /\ "src" \in Have(t) => \E q \in Owned(t) : q.state = "running"

KeyIs(t) == phase[t] = "run" /\ "ci" \in Have(t) => File(t, "id_cloud") \in files

Reach == \A t \in Test : DiskIs(t) /\ GuestIs(t) /\ KeyIs(t)

(* What belongs on the disk of a test changes only with its taps. *)
LEMMA ContentStable ==
    ASSUME NEW t, plan' = plan, held'[t] = held[t] \/ ~UsesTaps(plan[t])
    PROVE  Content(t)' = Content(t) /\ OnImage(t)' = OnImage(t)
<1>1. SrcNet(t)' = SrcNet(t)
  BY DEF SrcNet
<1> QED
  BY <1>1 DEF Content, OnImage

LEMMA AtPlace ==
    ASSUME IInv, NEW t \in Test, NEW op, At(t, op)
    PROVE  /\ Done(t) + 1 \in 1 .. Len(Body(plan[t])) /\ Body(plan[t])[Done(t) + 1] = op
           /\ Done(t) \in Nat /\ Len(todo[t]) \in Nat \ {0}
<1> DEFINE s == todo[t]
           body == Body(plan[t])
<1>1. s \in Seq(Op) /\ s # << >> /\ Head(s) = op /\ body \in Seq(Op)
  BY BodyOrdered DEF At, IInv, Shape, Segment
<1>2. Len(s) <= Len(body) /\ \A i \in 1 .. Len(s) : s[i] = body[i + Done(t)]
  BY DEF IInv, Own, Rest, Done
<1>3. Len(s) \in Nat \ {0} /\ op = s[1] /\ Len(body) \in Nat
  BY <1>1, HeadTailProperties, EmptySeq
<1>4. Done(t) = Len(body) - Len(s)
  BY DEF Done
<1> HIDE DEF s, body
<1>5. Done(t) \in Nat /\ Done(t) + 1 \in 1 .. Len(body) /\ 1 \in 1 .. Len(s) /\ 1 + Done(t) = Done(t) + 1
  BY <1>2, <1>3, <1>4
<1>6. body[Done(t) + 1] = op
  BY <1>2, <1>3, <1>5
<1> QED
  BY <1>3, <1>5, <1>6 DEF s, body

LEMMA DidPlace ==
    ASSUME IInv, NEW t \in Test, NEW op, Did(t, op), plan' = plan
    PROVE  Done(t)' = Done(t) + 1
<1> DEFINE s == todo[t]
           body == Body(plan[t])
<1>1. s \in Seq(Op) /\ s # << >> /\ body \in Seq(Op) /\ todo'[t] = Tail(s)
  BY BodyOrdered DEF Did, At, IInv, Shape, Segment
<1>2. Len(s) \in Nat /\ Len(todo'[t]) = Len(s) - 1 /\ Len(body) \in Nat
  BY <1>1, HeadTailProperties
<1>3. Done(t) = Len(body) - Len(s) /\ Done(t)' = Len(body) - Len(todo'[t])
  BY DEF Done
<1> HIDE DEF s, body
<1> QED
  BY <1>2, <1>3

-----------------------------------------------------------------------------
(* A step keeps the disk, the guests and the key of its test. *)

LEMMA CopiedStill ==
    ASSUME NEW d, NEW k, NEW l, NEW n \in Int, Copied(d, k, n),
           n < 0 \/ (n >= 3 /\ l = k)
    PROVE  Copied(d, l, n + 1)
  BY DEF Copied

LEMMA Appended ==
    ASSUME NEW x, NEW y, NEW z
    PROVE  /\ Append(<< >>, x) = <<x>> /\ Append(<<x>>, y) = <<x, y>>
           /\ Append(<<x, y>>, z) = <<x, y, z>>
<1> DEFINE S == {x, y, z}
           one == <<x>>
           two == <<x, y>>
           three == <<x, y, z>>
<1>1. /\ one \in Seq(S) /\ Len(one) = 1 /\ one[1] = x
      /\ two \in Seq(S) /\ Len(two) = 2 /\ two[1] = x /\ two[2] = y
      /\ three \in Seq(S) /\ Len(three) = 3 /\ three[1] = x /\ three[2] = y /\ three[3] = z
  OBVIOUS
<1>2. y \in S /\ z \in S
  OBVIOUS
<1>3. Append(<< >>, x) = one
  OBVIOUS
<1> HIDE DEF S, one, two, three
<1>4. Append(two, z) = three
  BY <1>1, <1>2, Lengthened, SamePath
<1>5. Append(one, y) = two
  <2> DEFINE r == Append(one, y)
  <2>0. one \in Seq(S)
    BY <1>1
  <2>1. r \in Seq(S) /\ Len(r) = Len(one) + 1 /\ r[Len(one) + 1] = y
        /\ \A i \in 1 .. Len(one) : r[i] = one[i]
    BY <1>2, <2>0, Pushed
  <2> HIDE DEF r
  <2>2. Len(r) = 2 /\ r[1] = x /\ r[2] = y
    BY <1>1, <2>1
  <2> QED
    BY <1>1, <2>1, <2>2, SamePath DEF r
<1> QED
  BY <1>3, <1>4, <1>5 DEF one, two, three

(* mcopy copies the next file of the disk. *)
LEMMA CopiedOneMore ==
    ASSUME NEW d, NEW k, NEW n \in {0, 1, 2}, Copied(d, k, n), \E x, y, z : k = <<x, y, z>>
    PROVE  Copied(Append(d, k[Len(d) + 1]), k, n + 1)
<1> DEFINE e == Append(d, k[Len(d) + 1])
<1>1. PICK x, y, z : k = <<x, y, z>>
  OBVIOUS
<1>2. k[1] = x /\ k[2] = y /\ k[3] = z
  BY <1>1
<1>3. CASE n = 0
  <2>1. d = << >>
    BY <1>3 DEF Copied
  <2>2. e = <<x>>
    BY <1>2, <2>1
  <2> HIDE DEF e
  <2> QED
    BY <1>2, <1>3, <2>2 DEF Copied, e
<1>4. CASE n = 1
  <2>1. d = <<x>>
    BY <1>2, <1>4 DEF Copied
  <2>2. Len(d) = 1
    BY <2>1
  <2>3. k[Len(d) + 1] = y
    BY <1>2, <2>2
  <2>4. e = Append(<<x>>, y)
    BY <2>1, <2>3
  <2>5. e = <<x, y>>
    BY <2>4, Appended, Zenon
  <2> HIDE DEF e
  <2> QED
    BY <1>2, <1>4, <2>5 DEF Copied, e
<1>5. CASE n = 2
  <2>1. d = <<x, y>>
    BY <1>2, <1>5 DEF Copied
  <2>2. Len(d) = 2
    BY <2>1
  <2>3. k[Len(d) + 1] = z
    BY <1>2, <2>2
  <2>4. e = Append(<<x, y>>, z)
    BY <2>1, <2>3
  <2>5. e = <<x, y, z>>
    BY <2>4, Appended, Zenon
  <2> HIDE DEF e
  <2> QED
    BY <1>1, <1>5, <2>5 DEF Copied, e
<1> QED
  BY <1>3, <1>4, <1>5

(* An operation that copies no file finds none half copied. *)
LEMMA DiskStays ==
    ASSUME IInv, NEW t \in Test, DiskIs(t), NEW op, Did(t, op), op # "mcopy",
           plan' = plan, phase' = phase, disk'[t] = disk[t],
           held'[t] = held[t] \/ op = "taps"
    PROVE  DiskIs(t)'
<1>1. OnImage(t)' = OnImage(t) /\ phase[t] = "run"
  BY DEF OnImage, Did, At
<1>2. CASE ~OnImage(t)
  BY <1>1, <1>2 DEF DiskIs
<1>3. CASE OnImage(t)
  <2> DEFINE body == Body(plan[t])
  <2>1. PICK c \in Nat : CopiesAfter(body, c) /\ Copied(disk[t], Content(t), Done(t) - c)
    BY <1>1, <1>3 DEF DiskIs
  <2>2. /\ Done(t) + 1 \in 1 .. Len(body) /\ body[Done(t) + 1] = op /\ Done(t) \in Nat
        /\ Done(t)' = Done(t) + 1
    BY AtPlace, DidPlace DEF Did
  <2>3. body' = body
    OBVIOUS
  <2> HIDE DEF body
  <2>4. /\ Done(t) + 1 \notin c + 1 .. c + 3
        /\ op = "taps" => Done(t) + 1 <= c
    BY <2>1, <2>2 DEF CopiesAfter
  <2>5. /\ Done(t) - c \in Int /\ Done(t)' - c = (Done(t) - c) + 1
        /\ Done(t) - c < 0 \/ Done(t) - c >= 3
        /\ op = "taps" => Done(t) - c < 0
    BY <2>2, <2>4
  <2>6. Done(t) - c < 0 \/ Content(t)' = Content(t)
    BY <2>5, ContentStable
  <2>7. Copied(disk[t], Content(t)', (Done(t) - c) + 1)
    BY <2>1, <2>5, <2>6, CopiedStill
  <2>8. Copied(disk'[t], Content(t)', Done(t)' - c)
    BY <2>5, <2>7
  <2> QED
    BY <1>1, <1>3, <2>1, <2>3, <2>8 DEF DiskIs, body
<1> QED
  BY <1>2, <1>3

(* mcopy copies the file that is due at this point of the body. *)
LEMMA CopyDisk ==
    ASSUME IInv, NEW t \in Test, DiskIs(t), CopyFile(t)
    PROVE  DiskIs(t)'
<1> DEFINE body == Body(plan[t])
           k == Content(t)
<1>1. /\ Did(t, "mcopy") /\ UNCHANGED <<taps, plan, phase>> /\ phase[t] = "run"
      /\ disk' = [disk EXCEPT ![t] = Append(@, k[Len(@) + 1])]
  BY DEF CopyFile, Did, At
<1>2. disk'[t] = Append(disk[t], k[Len(disk[t]) + 1])
  BY <1>1 DEF IInv, Shape
<1>3. OnImage(t)
  <2>1. "mcopy" \in BodyOps(plan[t])
    BY <1>1, DidOp
  <2> QED
    BY <2>1 DEF BodyOps, Given, OnImage
<1>4. PICK c \in Nat : CopiesAfter(body, c) /\ Copied(disk[t], k, Done(t) - c)
  BY <1>1, <1>3 DEF DiskIs
<1>5. /\ Done(t) + 1 \in 1 .. Len(body) /\ body[Done(t) + 1] = "mcopy" /\ Done(t) \in Nat
      /\ Done(t)' = Done(t) + 1
  BY <1>1, AtPlace, DidPlace DEF Did
<1>6. body' = body /\ k' = k /\ OnImage(t)'
  BY <1>1, <1>3, ContentStable DEF taps, OnImage
<1>7. \E x, y, z : k = <<x, y, z>>
  BY DEF Content
<1> HIDE DEF body, k
<1>8. Done(t) - c \in {0, 1, 2} /\ Done(t)' - c = (Done(t) - c) + 1
  <2>1. Done(t) + 1 \in c + 1 .. c + 3
    BY <1>4, <1>5 DEF CopiesAfter
  <2> QED
    BY <1>5, <2>1
<1>9. Copied(disk'[t], k', Done(t)' - c)
  BY <1>2, <1>4, <1>6, <1>7, <1>8, CopiedOneMore
<1> QED
  BY <1>1, <1>4, <1>6, <1>9 DEF DiskIs, body, k

LEMMA DiskStep ==
    ASSUME IInv, PoolInv, NEW t \in Test, Step(t), DiskIs(t)
    PROVE  DiskIs(t)'
<1>1. CASE CopyFile(t)
  BY <1>1, CopyDisk
<1>2. CASE \/ WritePayload(t) \/ TempDir(t) \/ KeyGen(t) \/ StageFiles(t) \/ MakeImage(t)
           \/ AllocateTaps(t) \/ SpawnSrc(t) \/ SpawnDst(t) \/ Migrate(t) \/ Observe(t)
  <2>1. \E op : /\ Did(t, op) /\ op # "mcopy" /\ plan' = plan /\ phase' = phase /\ disk' = disk
                /\ held' = held \/ op = "taps"
    BY <1>2 DEF WritePayload, TempDir, KeyGen, StageFiles, MakeImage, AllocateTaps, SpawnSrc,
       SpawnDst, Migrate, Observe, taps, Dirs
  <2> QED
    BY <2>1, DiskStays
<1>3. CASE Claim(t) \/ Start(t)
  <2>1. /\ plan' = plan /\ held' = held /\ todo' = todo /\ disk' = disk
        /\ phase[t] \in {"queued", "claimed", "run"}
    BY <1>3 DEF Claim, Start, taps
  <2>2. Content(t)' = Content(t) /\ OnImage(t)' = OnImage(t) /\ Done(t)' = Done(t)
    BY <2>1, ContentStable DEF Done
  <2> QED
    BY <2>1, <2>2 DEF DiskIs, Copied
<1>4. CASE NoTaps(t) \/ Fails(t) \/ Succeeds(t) \/ Drop(t) \/ Return(t) \/ Report(t)
  <2>1. phase'[t] \in {"unwind", "returned", "reported"}
    BY <1>4 DEF NoTaps, Fails, Succeeds, Drop, Return, Report, Goto, IInv, Shape
  <2> QED
    BY <2>1 DEF DiskIs
<1> QED
  BY <1>1, <1>2, <1>3, <1>4 DEF Step

(* The key stays where it is while the body runs. *)
LEMMA KeyStep ==
    ASSUME IInv, PoolInv, NEW t \in Test, Step(t), KeyIs(t)
    PROVE  KeyIs(t)'
<1>1. CASE KeyGen(t)
  BY <1>1 DEF KeyGen, KeyIs
<1>2. CASE TempDir(t) \/ AllocateTaps(t) \/ SpawnSrc(t) \/ SpawnDst(t)
  <2>1. \E x \in Local : /\ Did(t, Maker(x)) /\ Declare(t, x) /\ x # "ci"
                         /\ plan' = plan /\ phase' = phase /\ files \subseteq files'
    BY <1>2 DEF TempDir, AllocateTaps, SpawnSrc, SpawnDst, Started, Local, Maker, Dirs
  <2>2. PICK x \in Local : /\ Did(t, Maker(x)) /\ Declare(t, x) /\ x # "ci"
                           /\ plan' = plan /\ phase' = phase /\ files \subseteq files'
    BY <2>1
  <2>3. Have(t)' = Have(t) \cup {x}
    BY <2>2, Declares
  <2> QED
    BY <2>2, <2>3 DEF KeyIs
<1>3. CASE Writes(t) \/ Migrate(t)
  <2>1. phase' = phase /\ locals' = locals /\ files \subseteq files'
    BY <1>3 DEF Writes, WritePayload, StageFiles, MakeImage, CopyFile, Observe, Migrate
  <2> QED
    BY <2>1 DEF KeyIs, Have
<1>4. CASE Start(t)
  <2>1. phase[t] = "claimed" /\ locals' = locals
    BY <1>4 DEF Start
  <2>2. locals[t] = << >>
    BY <2>1 DEF IInv, Own, Stacked
  <2>3. Have(t)' = {}
    BY <2>1, <2>2, EmptyLists DEF Have, Lists
  <2> QED
    BY <2>3 DEF KeyIs
<1>5. CASE \/ Claim(t) \/ NoTaps(t) \/ Fails(t) \/ Succeeds(t) \/ Drop(t) \/ Return(t)
           \/ Report(t)
  <2>1. phase'[t] # "run"
    BY <1>5 DEF Claim, NoTaps, Fails, Succeeds, Drop, Return, Report, Goto, IInv, Shape
  <2> QED
    BY <2>1 DEF KeyIs
<1> QED
  BY <1>1, <1>2, <1>3, <1>4, <1>5 DEF Step, Writes

(* When the taps are allocated, and when QEMU is spawned, the test has no QEMU. *)
LEMMA NoGuestYet ==
    ASSUME IInv, NEW t \in Test, NEW op \in {"taps", "spawn"}, Did(t, op), plan' = plan, phase' = phase
    PROVE  Owned(t) = {}
<1>1. "src" \in Local /\ "dst" \in Local /\ LocalRank("src") = 9 /\ LocalRank("dst") = 10
  BY DEF Local, LocalRank, Maker, Rank
<1>2. Rank(op) \in {5, 9}
  BY DEF Rank
<1>3. "src" \notin Have(t) /\ "dst" \notin Have(t)
  BY <1>1, <1>2, MadeBefore
<1> QED
  BY <1>3 DEF Owned, IInv, Own, Machines

(* Whoever has a QEMU on the bridge has the pair. *)
LEMMA GuestsNeedTaps ==
    IInv => \A t \in Test : UsesTaps(plan[t]) /\ held[t] = {} => Owned(t) = {}
<1> SUFFICES ASSUME IInv, NEW t \in Test, UsesTaps(plan[t]), held[t] = {}, NEW q \in Owned(t)
             PROVE  FALSE
  OBVIOUS
<1>1. q.role \in {"src", "dst"} /\ q.role \in Have(t) /\ "taps" \notin Have(t)
  BY DEF Owned, IInv, Own, Machines, HoldsTaps
<1>2. "taps" \in Local /\ LocalRank("taps") < LocalRank(q.role) /\ Maker("taps") \in BodyOps(plan[t])
  <2>1. LocalRank("taps") = 5 /\ LocalRank(q.role) \in {9, 10}
    BY <1>1 DEF LocalRank, Maker, Rank
  <2> QED
    BY <2>1 DEF Local, Maker, BodyOps, Given
<1> QED
  BY <1>1, <1>2 DEF IInv, Own, Stacked

LEMMA GuestsNeedTapsAfter ==
    IInv' => \A t \in Test : UsesTaps(plan'[t]) /\ held'[t] = {} => Owned(t)' = {}
<1>1. IInv' => (\A t \in Test : UsesTaps(plan[t]) /\ held[t] = {} => Owned(t) = {})'
  BY GuestsNeedTaps, PTL
<1> QED
  BY <1>1

(* What holds on while the QEMUs of a test stay or go. *)
LEMMA GuestsStay ==
    ASSUME NEW t \in Test, GuestIs(t), plan' = plan, Owned(t)' \subseteq Owned(t),
           held'[t] = held[t] \/ ~UsesTaps(plan[t]) \/ Owned(t)' = {},
           phase'[t] = "run" /\ "src" \in Have(t)' =>
               phase[t] = "run" /\ "src" \in Have(t) /\ Owned(t)' = Owned(t)
    PROVE  GuestIs(t)'
<1>1. CASE Owned(t)' = {}
  BY <1>1 DEF GuestIs
<1>2. CASE held'[t] = held[t] \/ ~UsesTaps(plan[t])
  <2>1. Content(t)' = Content(t) /\ OnImage(t)' = OnImage(t)
    BY <1>2, ContentStable
  <2> QED
    BY <2>1 DEF GuestIs
<1> QED
  BY <1>1, <1>2

(* The source boots from the disk with all files on it. *)
LEMMA GuestBoots ==
    ASSUME IInv, NEW t \in Test, SpawnSrc(t), DiskIs(t)
    PROVE  GuestIs(t)'
<1> DEFINE q == [test |-> t, role |-> "src", state |-> "running", args |-> Args(SrcConfig(t)),
                 guest |-> disk[t]]
<1>1. /\ Did(t, "spawn") /\ vms' = vms \cup {q} /\ UNCHANGED <<taps, plan, phase, disk>>
      /\ phase[t] = "run"
  BY DEF SpawnSrc, Started, Did, At
<1>2. q.test = t /\ q.role = "src" /\ q.guest = disk[t] /\ q.state = "running"
  OBVIOUS
<1> HIDE DEF q
<1>3. Owned(t)' = {q}
  <2>1. Owned(t) = {}
    BY <1>1, NoGuestYet
  <2> QED
    BY <1>1, <1>2, <2>1 DEF Owned
<1>4. Content(t)' = Content(t) /\ OnImage(t)' = OnImage(t)
  BY <1>1, ContentStable DEF taps
<1>5. disk[t] = IF OnImage(t) THEN Content(t) ELSE << >>
  <2>1. CASE OnImage(t)
    <3> DEFINE body == Body(plan[t])
    <3>1. PICK c \in Nat : CopiesAfter(body, c) /\ Copied(disk[t], Content(t), Done(t) - c)
      BY <1>1, <2>1 DEF DiskIs
    <3>2. Done(t) + 1 \in 1 .. Len(body) /\ body[Done(t) + 1] = "spawn" /\ Done(t) \in Nat
      BY <1>1, AtPlace DEF Did
    <3> HIDE DEF body
    <3>3. Done(t) - c >= 3
      <4>1. Done(t) + 1 = c + 4
        BY <3>1, <3>2 DEF CopiesAfter
      <4> QED
        BY <3>2, <4>1
    <3> QED
      BY <2>1, <3>1, <3>3 DEF Copied
  <2>2. CASE ~OnImage(t)
    BY <1>1, <2>2 DEF DiskIs
  <2> QED
    BY <2>1, <2>2
<1> QED
  BY <1>2, <1>3, <1>4, <1>5 DEF GuestIs

LEMMA GuestWaits ==
    ASSUME IInv, NEW t \in Test, SpawnDst(t), GuestIs(t)
    PROVE  GuestIs(t)'
<1> DEFINE q == [test |-> t, role |-> "dst", state |-> "inmigrate", args |-> Args(DstConfig(t)),
                 guest |-> << >>]
<1>1. /\ Did(t, "dest") /\ vms' = vms \cup {q} /\ UNCHANGED <<taps, plan, phase>>
      /\ Declare(t, "dst")
  BY DEF SpawnDst, Started
<1>2. q.test = t /\ q.role = "dst" /\ q.state = "inmigrate"
  OBVIOUS
<1> HIDE DEF q
<1>3. Owned(t)' = Owned(t) \cup {q}
  BY <1>1, <1>2 DEF Owned
<1>4. Content(t)' = Content(t) /\ OnImage(t)' = OnImage(t)
  BY <1>1, ContentStable DEF taps
<1>5. Have(t)' = Have(t) \cup {"dst"}
  <2>1. "dst" \in Local /\ Maker("dst") = "dest"
    BY DEF Local, Maker
  <2> QED
    BY <1>1, <2>1, Declares
<1> QED
  BY <1>1, <1>2, <1>3, <1>4, <1>5 DEF GuestIs

(* Migration takes the guest along, and leaves the source without one. *)
LEMMA GuestMoves ==
    ASSUME IInv, NEW t \in Test, Migrate(t), GuestIs(t)
    PROVE  GuestIs(t)'
<1>1. PICK s \in Owned(t), d \in Owned(t) :
          /\ s.role = "src" /\ d.role = "dst"
          /\ vms' = (vms \ {s, d}) \cup {[s EXCEPT !.state = "postmigrate"],
                                         [d EXCEPT !.state = "running", !.guest = s.guest]}
  BY DEF Migrate
<1> DEFINE s1 == [s EXCEPT !.state = "postmigrate"]
           d1 == [d EXCEPT !.state = "running", !.guest = s.guest]
<1>2. /\ s \in vms /\ s.test = t /\ d \in vms /\ d.test = t
      /\ DOMAIN s = Fields /\ DOMAIN d = Fields
      /\ \A q \in vms : q.test = t => q = s \/ q = d
  BY <1>1 DEF Owned, IInv, Own, Machines
<1>3. /\ s1.test = t /\ s1.role = "src" /\ s1.state = "postmigrate" /\ s1.guest = s.guest
      /\ d1.test = t /\ d1.role = "dst" /\ d1.state = "running" /\ d1.guest = s.guest
  BY <1>1, <1>2 DEF Fields
<1>4. vms' = (vms \ {s, d}) \cup {s1, d1}
  BY <1>1
<1> HIDE DEF s1, d1
<1>5. Owned(t)' = {s1, d1}
  BY <1>2, <1>3, <1>4 DEF Owned
<1>6. s.guest = IF OnImage(t) THEN Content(t) ELSE << >>
  BY <1>1 DEF GuestIs
<1>7. Content(t)' = Content(t) /\ OnImage(t)' = OnImage(t)
  BY ContentStable DEF Migrate, taps
<1> QED
  BY <1>3, <1>5, <1>6, <1>7 DEF GuestIs

LEMMA GuestStep ==
    ASSUME IInv, PoolInv, NEW t \in Test, Step(t), DiskIs(t), GuestIs(t)
    PROVE  GuestIs(t)'
<1>1. CASE Proceeds(t) \/ Writes(t) \/ NoTaps(t) \/ Fails(t)
  <2>1. plan' = plan /\ held' = held /\ locals' = locals /\ vms' = vms
    BY <1>1 DEF Proceeds, Claim, Start, Succeeds, Return, Report, Writes, WritePayload, StageFiles,
       MakeImage, CopyFile, Observe, NoTaps, Fails, taps, Pool!AllocateFails
  <2>2. Owned(t)' = Owned(t) /\ Have(t)' = Have(t)
    BY <2>1 DEF Owned, Have
  <2>3. phase'[t] = "run" => phase[t] = "run" \/ locals[t] = << >>
    <3>1. phase'[t] = "run" => phase[t] \in {"claimed", "run"}
      BY <1>1 DEF Proceeds, Claim, Start, Succeeds, Return, Report, Writes, WritePayload,
         StageFiles, MakeImage, CopyFile, Observe, NoTaps, Fails, Goto, IInv, Shape
    <3> QED
      BY <3>1 DEF IInv, Own, Stacked
  <2>4. locals[t] = << >> => Have(t) = {}
    BY EmptyLists DEF Have, Lists
  <2> QED
    BY <2>1, <2>2, <2>3, <2>4, GuestsStay
<1>2. CASE TempDir(t) \/ KeyGen(t)
  <2>1. \E x \in Local : /\ Did(t, Maker(x)) /\ Declare(t, x) /\ x # "src"
                         /\ UNCHANGED <<taps, plan, phase, vms>>
    BY <1>2 DEF TempDir, KeyGen, Local, Maker, Dirs
  <2>2. PICK x \in Local : /\ Did(t, Maker(x)) /\ Declare(t, x) /\ x # "src"
                           /\ UNCHANGED <<taps, plan, phase, vms>>
    BY <2>1
  <2>3. Have(t)' = Have(t) \cup {x} /\ Owned(t)' = Owned(t)
    BY <2>2, Declares DEF Owned
  <2> QED
    BY <2>2, <2>3, GuestsStay DEF taps
<1>3. CASE AllocateTaps(t)
  <2>1. Did(t, "taps") /\ plan' = plan /\ phase' = phase /\ vms' = vms
    BY <1>3 DEF AllocateTaps
  <2>2. Owned(t) = {}
    BY <2>1, NoGuestYet
  <2>3. "taps" \in Local /\ Maker("taps") = "taps" /\ Declare(t, "taps")
    BY <1>3 DEF Local, Maker, AllocateTaps
  <2>4. Have(t)' = Have(t) \cup {"taps"} /\ Owned(t)' = Owned(t)
    BY <2>1, <2>3, Declares DEF Owned
  <2> QED
    BY <2>1, <2>2, <2>4, GuestsStay
<1>4. CASE Drop(t)
  <2>1. /\ phase'[t] = "unwind" /\ plan' = plan /\ vms' \subseteq vms
        /\ UNCHANGED taps \/ Pool!Release(t)
    BY <1>4 DEF Drop
  <2>2. Owned(t)' \subseteq Owned(t)
    BY <2>1 DEF Owned
  <2>3. held'[t] = held[t] \/ held'[t] = {}
    BY <2>1, PoolFrame
  <2>4. IInv'
    BY StepInv
  <2>5. held'[t] = {} /\ UsesTaps(plan[t]) => Owned(t)' = {}
    BY <2>1, <2>4, GuestsNeedTapsAfter
  <2> QED
    BY <2>1, <2>2, <2>3, <2>5, GuestsStay
<1>5. CASE SpawnSrc(t)
  BY <1>5, GuestBoots
<1>6. CASE SpawnDst(t)
  BY <1>6, GuestWaits
<1>7. CASE Migrate(t)
  BY <1>7, GuestMoves
<1> QED
  BY <1>1, <1>2, <1>3, <1>4, <1>5, <1>6, <1>7 DEF Step, Proceeds, Writes

(* A step of one test changes no other test's disk, guest or key. *)
LEMMA ReachStep ==
    ASSUME IInv, PoolInv, Reach, NEW t \in Test, Step(t)
    PROVE  Reach'
<1>1. LeavesOthers(t)
  BY StepInv
<1>2. ASSUME NEW u \in Test \ {t} PROVE (DiskIs(u) /\ GuestIs(u) /\ KeyIs(u))'
  <2>1. /\ plan' = plan /\ phase'[u] = phase[u] /\ todo'[u] = todo[u] /\ locals'[u] = locals[u]
        /\ held'[u] = held[u] /\ disk'[u] = disk[u]
    BY <1>1 DEF LeavesOthers
  <2>2. /\ Content(u)' = Content(u) /\ OnImage(u)' = OnImage(u) /\ Have(u)' = Have(u)
        /\ Done(u)' = Done(u)
    BY <2>1, ContentStable DEF Have, Done
  <2>3. Owned(u)' = Owned(u)
    BY <1>1 DEF LeavesOthers, Owned
  <2>4. File(u, "id_cloud") \in files' <=> File(u, "id_cloud") \in files
    <3>1. File(u, "id_cloud")[1] = u
      BY DEF File
    <3> QED
      BY <1>1, <3>1 DEF LeavesOthers
  <2>5. DiskIs(u)'
    BY <2>1, <2>2 DEF Reach, DiskIs
  <2>6. GuestIs(u)'
    BY <2>1, <2>2, <2>3 DEF Reach, GuestIs
  <2>7. KeyIs(u)'
    BY <2>1, <2>2, <2>4 DEF Reach, KeyIs
  <2> QED
    BY <2>5, <2>6, <2>7
<1>3. DiskIs(t)' /\ GuestIs(t)' /\ KeyIs(t)'
  BY DiskStep, GuestStep, KeyStep DEF Reach
<1> QED
  BY <1>2, <1>3 DEF Reach

LEMMA ReachInit == Init => Reach
<1> SUFFICES ASSUME Init, NEW t \in Test PROVE DiskIs(t) /\ GuestIs(t) /\ KeyIs(t)
  BY DEF Reach
<1>1. /\ phase[t] = "queued" /\ todo[t] = Body(plan[t]) /\ disk[t] = << >> /\ vms = {}
  BY DEF Init
<1>2. GuestIs(t) /\ KeyIs(t)
  BY <1>1 DEF GuestIs, KeyIs, Owned
<1>3. Done(t) = 0
  <2>1. Body(plan[t]) \in Seq(Op)
    BY BodyOrdered DEF Segment
  <2>2. Len(Body(plan[t])) \in Nat
    BY <2>1
  <2> QED
    BY <1>1, <2>2 DEF Done
<1>4. \A c \in Nat : Copied(disk[t], Content(t), Done(t) - c)
  BY <1>1, <1>3 DEF Copied
<1>5. DiskIs(t)
  BY <1>1, <1>4, BodyLayout DEF DiskIs, OnImage
<1> QED
  BY <1>2, <1>5

LEMMA ReachInvariance == Spec => []Reach
<1>1. IInv /\ PoolInv /\ Reach /\ [Next]_vars => Reach'
  <2>1. ASSUME UNCHANGED vars, Reach PROVE Reach'
    <3>1. ASSUME NEW t \in Test PROVE (DiskIs(t) /\ GuestIs(t) /\ KeyIs(t))'
      <4>1. /\ Content(t)' = Content(t) /\ OnImage(t)' = OnImage(t) /\ Have(t)' = Have(t)
            /\ Done(t)' = Done(t) /\ Owned(t)' = Owned(t)
        BY <2>1, ContentStable DEF vars, taps, Have, Done, Owned
      <4> QED
        BY <2>1, <4>1 DEF vars, Reach, DiskIs, GuestIs, KeyIs
    <3> QED
      BY <3>1 DEF Reach
  <2>2. Next => \E t \in Test : Step(t)
    BY DEF Next, Step
  <2> QED
    BY <2>1, <2>2, ReachStep
<1> QED
  BY <1>1, ReachInit, Invariance, PTL DEF Spec

-----------------------------------------------------------------------------
(* Who answers. *)

LEMMA ContentFields ==
    ASSUME NEW t
    PROVE  /\ Len(Content(t)) = 3
           /\ Content(t)[2][2] = File(t, "id_cloud")
           /\ Content(t)[3][2].mac = Mac(t)
           /\ Content(t)[3][2].addresses =
                 IF UsesTaps(plan[t]) THEN {Pool!HostOctet(The(held[t]))} ELSE {}
<1>1. Content(t)[2][2] = File(t, "id_cloud")
  BY DEF Content
<1>2. Len(Content(t)) = 3 /\ Content(t)[3][2] = NetworkConfig(SrcNet(t))
  BY DEF Content
<1>3. /\ SrcNet(t).mac = Mac(t)
      /\ SrcNet(t).guest_ip = IF UsesTaps(plan[t]) THEN {Pool!HostOctet(The(held[t]))} ELSE {}
  BY DEF SrcNet, TapNet, UserNet
<1>4. /\ NetworkConfig(SrcNet(t)).mac = SrcNet(t).mac
      /\ NetworkConfig(SrcNet(t)).addresses = SrcNet(t).guest_ip
  BY DEF NetworkConfig
<1> QED
  BY <1>1, <1>2, <1>3, <1>4

(* Source and destination have the MAC that the disk names. *)
LEMMA NicOf ==
    ASSUME IInv, NEW q \in vms, OnImage(q.test)
    PROVE  Mac(q.test) \in Nic(q)
<1> DEFINE t == q.test
           c == Config(t, q.role)
<1>1. t \in Test /\ q.role \in {"src", "dst"} /\ q.args = Args(c)
  BY DEF IInv, Shape, Own, Machines
<1>2. /\ c.payload \in Payload
      /\ c.net = {SrcNet(t)} \/ c.net = {DstNet(t)}
  BY <1>1, ConfigFields DEF IInv, Config, OnImage, Payload, Given
<1>3. SrcNet(t).mac = Mac(t) /\ DstNet(t).mac = Mac(t)
  BY DEF SrcNet, DstNet, TapNet, UserNet
<1> HIDE DEF t, c
<1>4. c.net # {} /\ The(c.net).mac = Mac(t)
  BY <1>2, <1>3, Chosen
<1> DEFINE a == Device("virtio-net", {"net0"}, {The(c.net).mac})
<1>5. a \in Options(c)
  BY <1>4 DEF Options, Given
<1>6. a[1] = "-device" /\ a[4] = {Mac(t)}
  BY <1>4 DEF Device
<1> HIDE DEF a
<1>7. a \in Having(q, {"-device"})
  BY <1>1, <1>2, <1>5, <1>6, ArgsAreOptions DEF Having
<1> QED
  BY <1>6, <1>7 DEF Nic, t

(* When ssh is tried, the guest runs and the key is there. *)
LEMMA SshComesLate ==
    ASSUME IInv, Reach, NEW t \in Test, At(t, "ssh")
    PROVE  OnImage(t) /\ "src" \in Have(t) /\ "ci" \in Have(t)
<1>1. phase[t] = "run" /\ todo[t] \in Seq(Op) /\ todo[t] # << >> /\ Head(todo[t]) = "ssh"
  BY DEF At, IInv, Shape
<1>2. plan[t] \in Plan
  BY PlanAssumption DEF IInv, Shape
<1>3. OnImage(t)
  <2>1. "ssh" \in BodyOps(plan[t])
    BY <1>1, HeadAndTail, LeftOrdered DEF Left
  <2> QED
    BY <1>2, <2>1 DEF BodyOps, Given, OnImage, UsesTaps, Plan
<1> DEFINE body == Body(plan[t])
<1>4. PICK c \in Nat : CopiesAfter(body, c)
  BY <1>1, <1>3 DEF Reach, DiskIs
<1>5. Done(t) + 1 \in 1 .. Len(body) /\ body[Done(t) + 1] = "ssh" /\ Done(t) \in Nat
  BY AtPlace
<1>6. /\ Len(todo[t]) <= Len(body) /\ Done(t) = Len(body) - Len(todo[t])
      /\ \A i \in 1 .. Len(todo[t]) : todo[t][i] = body[i + Done(t)]
  BY DEF IInv, Own, Rest, Done
<1> HIDE DEF body
<1>7. c + 4 < Done(t) + 1
  BY <1>4, <1>5 DEF CopiesAfter
<1>8. "spawn" \notin Left(t)
  <2> SUFFICES ASSUME NEW i \in 1 .. Len(todo[t]) PROVE todo[t][i] # "spawn"
    BY <1>1, ToSetElements DEF Left
  <2>1. i + Done(t) \in 1 .. Len(body) /\ i + Done(t) # c + 4
    <3>1. Len(body) \in Nat /\ Len(todo[t]) \in Nat
      BY <1>1, <1>4 DEF CopiesAfter
    <3>2. Done(t) = Len(body) - Len(todo[t]) /\ Done(t) \in Nat
      BY <1>5, <1>6
    <3>3. i \in Nat /\ 1 <= i /\ i <= Len(todo[t])
      BY <3>1
    <3>4. \A a, b, d, j \in Nat :
              d = b - a /\ 1 <= j /\ j <= a /\ c + 4 < d + 1 => j + d \in 1 .. b /\ j + d # c + 4
      OBVIOUS
    <3> QED
      BY <1>7, <3>1, <3>2, <3>3, <3>4, Zenon
  <2> QED
    BY <1>4, <1>6, <2>1 DEF CopiesAfter
<1>9. "src" \in Have(t)
  <2>1. "src" \in Local /\ Maker("src") = "spawn" /\ "spawn" \in BodyOps(plan[t])
    BY DEF Local, Maker, BodyOps
  <2> QED
    BY <1>1, <1>8, <2>1 DEF IInv, Own, Stacked
<1>10. "ci" \in Have(t)
  <2>1. /\ "ci" \in Local /\ LocalRank("ci") < LocalRank("src")
        /\ Maker("ci") \in BodyOps(plan[t])
    <3>1. LocalRank("ci") = 6 /\ LocalRank("src") = 9
      BY DEF LocalRank, Maker, Rank
    <3> QED
      BY <1>3, <3>1 DEF Local, Maker, BodyOps, Given, OnImage
  <2> QED
    BY <1>9, <2>1 DEF IInv, Own, Stacked
<1> QED
  BY <1>3, <1>9, <1>10

(* At the address of a guest no other test's guest answers: on the bridge addresses
   come from pairs, which no two tests hold; on the host they are ports of one QEMU. *)
LEMMA OnlyOneAnswers ==
    ASSUME IInv, PoolInv, Reach, NEW t \in Test, OnImage(t), NEW q \in Owned(t),
           q.state = "running"
    PROVE  q.guest = Content(t) /\ Answering(t) = {q}
<1>1. q \in vms /\ q.test = t /\ q.guest = Content(t)
  BY DEF Owned, Reach, GuestIs
<1>2. UsesTaps(plan[t]) =>
          The(held[t]) \in Nat /\ held[t] = {The(held[t])}
  BY <1>1, PairOfQemu
<1>3. q \in Answering(t)
  <2>1. Len(q.guest) = 3 /\ q.guest[3][2].mac \in Nic(q)
    BY <1>1, ContentFields, NicOf
  <2>2. q.guest[3][2].addresses =
            IF UsesTaps(plan[t]) THEN {Pool!HostOctet(i) : i \in held[t]} ELSE {}
    <3>1. q.guest[3][2].addresses =
              IF UsesTaps(plan[t]) THEN {Pool!HostOctet(The(held[t]))} ELSE {}
      BY <1>1, ContentFields
    <3>2. ASSUME UsesTaps(plan[t])
          PROVE  {Pool!HostOctet(The(held[t]))} = {Pool!HostOctet(i) : i \in held[t]}
      <4>1. PICK x : held[t] = {x}
        BY <1>2, <3>2
      <4> QED
        BY <4>1, Chosen
    <3> QED
      BY <3>1, <3>2
  <2> QED
    BY <1>1, <2>1, <2>2 DEF Answering
<1>4. ASSUME NEW r \in Answering(t) PROVE r = q
  <2> DEFINE u == r.test
  <2>1. /\ r \in vms /\ r.state = "running" /\ Len(r.guest) = 3
        /\ IF UsesTaps(plan[t])
           THEN r.guest[3][2].addresses = {Pool!HostOctet(i) : i \in held[t]}
           ELSE u = t
    BY DEF Answering
  <2>2. u \in Test /\ r \in Owned(u)
    BY <2>1 DEF IInv, Shape, Owned
  <2>3. r.guest = Content(u)
    BY <2>1, <2>2 DEF Reach, GuestIs
  <2>4. UsesTaps(plan[u]) => The(held[u]) \in Nat /\ held[u] = {The(held[u])}
    BY <2>1, PairOfQemu
  <2>5. u = t
    <3>1. CASE UsesTaps(plan[t])
      <4>1. r.guest[3][2].addresses = {Pool!HostOctet(The(held[t]))}
        BY <1>2, <2>1, <3>1
      <4>2. /\ UsesTaps(plan[u])
            /\ Pool!HostOctet(The(held[u])) = Pool!HostOctet(The(held[t]))
        BY <2>3, <4>1, ContentFields
      <4>3. The(held[u]) = The(held[t])
        BY <1>2, <2>4, <3>1, <4>2 DEF Pool!HostOctet
      <4>4. held[u] \cap held[t] # {}
        BY <1>2, <2>4, <3>1, <4>2, <4>3
      <4> QED
        BY <2>2, <4>4 DEF PoolInv, Pool!Conserved
    <3>2. CASE ~UsesTaps(plan[t])
      BY <2>1, <3>2
    <3> QED
      BY <3>1, <3>2
  <2> QED
    BY <2>1, <2>2, <2>5 DEF Reach, GuestIs
<1> QED
  BY <1>1, <1>3, <1>4

(***************************************************************************)
(* Whenever a test tries ssh, at the address of its own guest exactly that *)
(* guest answers, booted from the complete disk of its test, and the key   *)
(* that disk names is in the test's directory.                             *)
(***************************************************************************)
THEOREM SshIsAnswered == Spec => []SshFindsOwnGuest
<1>1. IInv /\ PoolInv /\ Reach => SshFindsOwnGuest
  <2> SUFFICES ASSUME IInv, PoolInv, Reach, NEW t \in Test, At(t, "ssh")
               PROVE  \E q \in Owned(t) : /\ Answering(t) = {q}
                                          /\ q.guest = Content(t) /\ q.guest[2][2] \in files
    BY DEF SshFindsOwnGuest
  <2>1. phase[t] = "run" /\ OnImage(t) /\ "src" \in Have(t) /\ "ci" \in Have(t)
    BY SshComesLate DEF At
  <2>2. PICK q \in Owned(t) : q.state = "running"
    BY <2>1 DEF Reach, GuestIs
  <2>3. q.guest = Content(t) /\ Answering(t) = {q}
    BY <2>1, <2>2, OnlyOneAnswers
  <2>4. q.guest[2][2] = File(t, "id_cloud")
    BY <2>3, ContentFields
  <2>5. File(t, "id_cloud") \in files
    BY <2>1 DEF Reach, KeyIs
  <2> QED
    BY <2>3, <2>4, <2>5
<1> QED
  BY <1>1, Invariance, ReachInvariance, PTL

-----------------------------------------------------------------------------
(***************************************************************************)
(* The test functions are test bodies as the runner has them: each step of *)
(* TestBody is a step of TestRunner or a stutter, where a test is its own  *)
(* worker, its stage is read off the operations it has left, and the pairs *)
(* in use are read off the command lines of the QEMUs that live.           *)
(*                                                                         *)
(* What the runner sees of a test depends on what is among its locals (Have)*)
(* and on its phase; most steps change neither.  A lemma per step of       *)
(* TestRunner (AsClaim, AsStart, ...) says which changes of this view are  *)
(* that step; a lemma per operation says which of them the operation makes. *)
(***************************************************************************)

(* What the runner sees of the tests that a step does not concern. *)
Elsewhere(t) ==
    /\ NeedsTaps' = NeedsTaps
    /\ \A u \in Test \ {t} :
          /\ InHand(u)' = InHand(u) /\ Stage(u)' = Stage(u) /\ UsesOf(u)' = UsesOf(u)
          /\ Outcome(u)' = Outcome(u) /\ (u \in Queue' <=> u \in Queue)
          /\ (u \in RanOk' <=> u \in RanOk)

(* A step of one test shows the runner nothing new of another. *)
LEMMA OthersStay ==
    ASSUME NEW t \in Test, LeavesOthers(t)
    PROVE  Elsewhere(t)
<1>1. NeedsTaps' = NeedsTaps
  BY DEF LeavesOthers, NeedsTaps
<1>2. ASSUME NEW u \in Test \ {t}
      PROVE  /\ InHand(u)' = InHand(u) /\ Stage(u)' = Stage(u) /\ UsesOf(u)' = UsesOf(u)
             /\ Outcome(u)' = Outcome(u) /\ (u \in Queue' <=> u \in Queue)
             /\ (u \in RanOk' <=> u \in RanOk)
  <2>1. /\ plan' = plan /\ phase'[u] = phase[u] /\ todo'[u] = todo[u]
        /\ held'[u] = held[u] /\ ok'[u] = ok[u]
    BY DEF LeavesOthers
  <2>2. Owned(u)' = Owned(u)
    BY DEF LeavesOthers, Owned
  <2>3. UsesOf(u)' = UsesOf(u)
    BY <2>2 DEF UsesOf, TapsOf, Having
  <2>4. Stage(u)' = Stage(u)
    BY <2>1, <2>2 DEF Stage
  <2> QED
    BY <2>1, <2>3, <2>4 DEF InHand, Outcome, Queue, RanOk
<1> QED
  BY <1>1, <1>2 DEF Elsewhere

AtOf == [t \in Test |-> InHand(t)]
StageOf == [t \in Test |-> Stage(t)]
UsesAll == [t \in Test |-> UsesOf(t)]
Outcomes == [t \in Test |-> Outcome(t)]

(* So what the runner sees changes at one test. *)
LEMMA OnlyHere ==
    ASSUME NEW t \in Test, Elsewhere(t)
    PROVE  /\ AtOf' = [AtOf EXCEPT ![t] = InHand(t)']
           /\ StageOf' = [StageOf EXCEPT ![t] = Stage(t)']
           /\ UsesAll' = [UsesAll EXCEPT ![t] = UsesOf(t)']
           /\ Outcomes' = [Outcomes EXCEPT ![t] = Outcome(t)']
           /\ AtOf[t] = InHand(t) /\ StageOf[t] = Stage(t) /\ UsesAll[t] = UsesOf(t)
           /\ Outcomes[t] = Outcome(t)
           /\ InHand(t)' = InHand(t) => AtOf' = AtOf
           /\ Stage(t)' = Stage(t) => StageOf' = StageOf
           /\ UsesOf(t)' = UsesOf(t) => UsesAll' = UsesAll
           /\ Outcome(t)' = Outcome(t) => Outcomes' = Outcomes
  BY DEF Elsewhere, AtOf, StageOf, UsesAll, Outcomes

(* Which changes of the view are Claim; the next lemmas say it of the other steps. *)
LEMMA AsClaim ==
    ASSUME NEW t \in Test, Elsewhere(t), Stage(t) = "idle", Stage(t)' = "claimed",
           t \in Queue, t \notin Queue', InHand(t)' = {t}, UsesOf(t)' = UsesOf(t),
           Outcome(t)' = Outcome(t), t \in RanOk' <=> t \in RanOk,
           ok' = [ok EXCEPT ![t] = TRUE], UNCHANGED <<taps, orphans>>
    PROVE  Runner!Claim(t)
<1>1. Queue' = Queue \ {t} /\ RanOk' = RanOk /\ NeedsTaps' = NeedsTaps
  BY DEF Elsewhere, Queue, RanOk
<1>2. /\ AtOf' = [AtOf EXCEPT ![t] = {t}] /\ StageOf' = [StageOf EXCEPT ![t] = "claimed"]
      /\ StageOf[t] = "idle" /\ UsesAll' = UsesAll /\ Outcomes' = Outcomes
  BY OnlyHere
<1>3. Deserting' = Deserting
  BY DEF Deserting
<1> QED
  BY <1>3, <1>1, <1>2 DEF Runner!Claim, Runner!Goto, Runner!taps, taps, AtOf, StageOf, UsesAll, Outcomes

(* A test that a thread has, before and after a step. *)
Inside(t) ==
    /\ phase[t] \in {"claimed", "run", "unwind", "returned"}
    /\ phase'[t] \in {"claimed", "run", "unwind", "returned"}

(* While a test runs it stays with its worker, out of the queue and unreported. *)
LEMMA InTest ==
    ASSUME NEW t \in Test, Elsewhere(t), Inside(t)
    PROVE  /\ AtOf[t] = {t} /\ UNCHANGED <<NeedsTaps, Queue, AtOf, Outcomes>>
           /\ (t \in RanOk' <=> t \in RanOk) => RanOk' = RanOk
           /\ t \in RanOk' => RanOk' = RanOk \cup {t}
<1>1. /\ InHand(t) = {t} /\ InHand(t)' = {t}
      /\ Outcome(t) = "none" /\ Outcome(t)' = "none"
      /\ t \notin Queue /\ t \notin Queue'
  BY DEF Inside, InHand, Outcome, Queue
<1>2. AtOf' = AtOf /\ AtOf[t] = {t} /\ Outcomes' = Outcomes
  BY <1>1, OnlyHere
<1>3. Queue' = Queue /\ NeedsTaps' = NeedsTaps
  BY <1>1 DEF Elsewhere, Queue
<1>4. RanOk \subseteq Test /\ RanOk' \subseteq Test
  BY DEF RanOk
<1> QED
  BY <1>2, <1>3, <1>4 DEF Elsewhere

LEMMA AsStart ==
    ASSUME NEW t \in Test, Elsewhere(t), Inside(t), Stage(t) = "claimed",
           Stage(t)' = IF t \in NeedsTaps THEN "alloc" ELSE "spawn",
           UsesOf(t)' = UsesOf(t), t \in RanOk' <=> t \in RanOk, UNCHANGED <<taps, orphans, ok>>
    PROVE  Runner!Start(t)
<1>1. AtOf[t] = {t} /\ UNCHANGED <<NeedsTaps, Queue, AtOf, Outcomes, RanOk>>
  BY InTest
<1>2. /\ StageOf' = [StageOf EXCEPT ![t] = IF t \in NeedsTaps THEN "alloc" ELSE "spawn"]
      /\ StageOf[t] = "claimed" /\ UsesAll' = UsesAll
  BY OnlyHere
<1>3. Deserting' = Deserting
  BY DEF Deserting
<1> QED
  BY <1>3, <1>1, <1>2
     DEF Runner!Start, Runner!Goto, Runner!taps, taps, AtOf, StageOf, UsesAll, Outcomes

LEMMA AsAlloc ==
    ASSUME NEW t \in Test, Elsewhere(t), Inside(t), Stage(t) = "alloc",
           \/ /\ UNCHANGED taps \/ Pool!AllocateFails(t)
              /\ Stage(t)' = "done" /\ ok' = [ok EXCEPT ![t] = FALSE]
           \/ Pool!Allocate(t) /\ Stage(t)' = "spawn" /\ ok' = ok,
           UsesOf(t)' = UsesOf(t), t \in RanOk' <=> t \in RanOk, UNCHANGED orphans
    PROVE  Runner!Alloc(t)
<1>1. AtOf[t] = {t} /\ UNCHANGED <<NeedsTaps, Queue, AtOf, Outcomes, RanOk>>
  BY InTest
<1>2. /\ StageOf' = [StageOf EXCEPT ![t] = Stage(t)']
      /\ StageOf[t] = "alloc" /\ UsesAll' = UsesAll
  BY OnlyHere
<1>3. /\ Pool!Allocate(t) <=> Runner!Pool!Allocate(t)
      /\ Pool!AllocateFails(t) <=> Runner!Pool!AllocateFails(t)
  BY DEF Pool!Allocate, Runner!Pool!Allocate, Pool!AllocateFails, Runner!Pool!AllocateFails,
         Pool!Opened, Runner!Pool!Opened, Pool!FullPools, Runner!Pool!FullPools,
         Pool!Valid, Runner!Pool!Valid, Pool!Cardinality, Runner!Pool!Cardinality
<1>4. Deserting' = Deserting
  BY DEF Deserting
<1> QED
  BY <1>4, <1>1, <1>2, <1>3
     DEF Runner!Alloc, Runner!Goto, Runner!taps, taps, AtOf, StageOf, UsesAll, Outcomes

LEMMA AsSpawn ==
    ASSUME NEW t \in Test, Elsewhere(t), Inside(t), Stage(t) = "spawn",
           \/ Stage(t)' = "body" /\ UsesOf(t)' = held[t] /\ UNCHANGED <<Deserting, ok>>
           \/ /\ Stage(t)' = "dropTaps" /\ UsesOf(t)' = UsesOf(t)
              /\ ok' = [ok EXCEPT ![t] = FALSE] /\ Deserting' \in {Deserting, Deserting \cup {t}},
           t \in RanOk' <=> t \in RanOk, UNCHANGED taps
    PROVE  Runner!Spawn(t)
<1>1. AtOf[t] = {t} /\ UNCHANGED <<NeedsTaps, Queue, AtOf, Outcomes, RanOk>>
  BY InTest
<1>2. /\ StageOf' = [StageOf EXCEPT ![t] = Stage(t)']
      /\ StageOf[t] = "spawn" /\ UsesAll' = [UsesAll EXCEPT ![t] = UsesOf(t)']
      /\ UsesOf(t)' = UsesOf(t) => UsesAll' = UsesAll
  BY OnlyHere
<1> QED
  BY <1>1, <1>2
     DEF Runner!Spawn, Runner!Goto, Runner!taps, taps, AtOf, StageOf, UsesAll, Outcomes

LEMMA AsBody ==
    ASSUME NEW t \in Test, Elsewhere(t), Inside(t), Stage(t) = "body", Stage(t)' = "dropVm",
           \/ t \in RanOk' /\ UNCHANGED <<ok, Deserting>>
           \/ /\ t \in RanOk' <=> t \in RanOk
              /\ ok' = [ok EXCEPT ![t] = FALSE] /\ Deserting' \in {Deserting, Deserting \cup {t}},
           UsesOf(t)' = UsesOf(t), UNCHANGED taps
    PROVE  Runner!Body(t)
<1>1. /\ AtOf[t] = {t} /\ UNCHANGED <<NeedsTaps, Queue, AtOf, Outcomes>>
      /\ (t \in RanOk' <=> t \in RanOk) => RanOk' = RanOk
      /\ t \in RanOk' => RanOk' = RanOk \cup {t}
  BY InTest
<1>2. /\ StageOf' = [StageOf EXCEPT ![t] = "dropVm"]
      /\ StageOf[t] = "body" /\ UsesAll' = UsesAll
  BY OnlyHere
<1> QED
  BY <1>1, <1>2
     DEF Runner!Body, Runner!Goto, Runner!taps, taps, AtOf, StageOf, UsesAll, Outcomes

LEMMA AsDropVm ==
    ASSUME NEW t \in Test, Elsewhere(t), Inside(t), Stage(t) = "dropVm",
           Stage(t)' = "dropTaps", UsesOf(t)' = {}, t \in RanOk' <=> t \in RanOk,
           UNCHANGED <<taps, orphans, ok>>
    PROVE  Runner!DropVm(t)
<1>1. AtOf[t] = {t} /\ UNCHANGED <<NeedsTaps, Queue, AtOf, Outcomes, RanOk>>
  BY InTest
<1>2. /\ StageOf' = [StageOf EXCEPT ![t] = "dropTaps"]
      /\ StageOf[t] = "dropVm" /\ UsesAll' = [UsesAll EXCEPT ![t] = {}]
  BY OnlyHere
<1>3. Deserting' = Deserting
  BY DEF Deserting
<1> QED
  BY <1>3, <1>1, <1>2
     DEF Runner!DropVm, Runner!Goto, Runner!taps, taps, AtOf, StageOf, UsesAll, Outcomes

LEMMA AsDropTaps ==
    ASSUME NEW t \in Test, Elsewhere(t), Inside(t), Stage(t) = "dropTaps",
           Stage(t)' = "done", UsesOf(t)' = UsesOf(t), t \in RanOk' <=> t \in RanOk,
           IF held[t] = {} THEN UNCHANGED taps ELSE Pool!Release(t), UNCHANGED <<orphans, ok>>
    PROVE  Runner!DropTaps(t)
<1>1. AtOf[t] = {t} /\ UNCHANGED <<NeedsTaps, Queue, AtOf, Outcomes, RanOk>>
  BY InTest
<1>2. /\ StageOf' = [StageOf EXCEPT ![t] = "done"]
      /\ StageOf[t] = "dropTaps" /\ UsesAll' = UsesAll
  BY OnlyHere
<1>3. Pool!Release(t) <=> Runner!Pool!Release(t)
  BY DEF Pool!Release, Runner!Pool!Release
<1>4. Deserting' = Deserting
  BY DEF Deserting
<1> QED
  BY <1>4, <1>1, <1>2, <1>3
     DEF Runner!DropTaps, Runner!Goto, Runner!taps, taps, AtOf, StageOf, UsesAll, Outcomes

LEMMA AsRecord ==
    ASSUME NEW t \in Test, Elsewhere(t), Stage(t) = "done", Stage(t)' = "idle",
           phase[t] = "returned", phase'[t] = "reported",
           UsesOf(t)' = UsesOf(t), UNCHANGED <<taps, orphans, ok>>
    PROVE  Runner!Record(t)
<1>1. /\ InHand(t) = {t} /\ InHand(t)' = {} /\ Outcome(t)' = IF ok[t] THEN "Pass" ELSE "Fail"
      /\ Queue' = Queue /\ NeedsTaps' = NeedsTaps /\ RanOk' = RanOk
  BY DEF InHand, Outcome, Queue, RanOk, Elsewhere
<1>2. /\ StageOf' = [StageOf EXCEPT ![t] = "idle"] /\ StageOf[t] = "done"
      /\ AtOf' = [AtOf EXCEPT ![t] = {}] /\ AtOf[t] = {t} /\ UsesAll' = UsesAll
      /\ Outcomes' = [Outcomes EXCEPT ![t] = IF ok[t] THEN "Pass" ELSE "Fail"]
  BY <1>1, OnlyHere
<1>3. Outcomes' = [u \in Test |-> IF u \notin AtOf[t] THEN Outcomes[u]
                                  ELSE IF ok[t] THEN "Pass" ELSE "Fail"]
  BY <1>2 DEF Outcomes
<1>4. Deserting' = Deserting
  BY DEF Deserting
<1> QED
  BY <1>4, <1>1, <1>2, <1>3
     DEF Runner!Record, Runner!Goto, Runner!taps, taps, AtOf, StageOf, UsesAll, Outcomes

(* If nothing of the view changes, the runner stutters. *)
LEMMA AsNothing ==
    ASSUME NEW t \in Test, Elsewhere(t), Inside(t), Stage(t)' = Stage(t),
           UsesOf(t)' = UsesOf(t), t \in RanOk' <=> t \in RanOk, UNCHANGED <<taps, orphans, ok>>
    PROVE  UNCHANGED Runner!vars
<1>1. AtOf[t] = {t} /\ UNCHANGED <<NeedsTaps, Queue, AtOf, Outcomes, RanOk>>
  BY InTest
<1>2. StageOf' = StageOf /\ UsesAll' = UsesAll
  BY OnlyHere
<1>3. Deserting' = Deserting
  BY DEF Deserting
<1> QED
  BY <1>3, <1>1, <1>2 DEF Runner!vars, taps, AtOf, StageOf, UsesAll, Outcomes

-----------------------------------------------------------------------------
(* The second layer of the invariant. *)

(* Only what the body makes is ever a local, and a failure ends the body. *)
Made(t) == \A x \in Have(t) : Maker(x) \in BodyOps(plan[t])
Going(t) == phase[t] \in {"queued", "claimed", "run"} => ok[t] = TRUE

Layer == \A t \in Test : Made(t) /\ Going(t)

(* What a step does to the locals of its test. *)
LEMMA HaveStep ==
    ASSUME IInv, NEW t \in Test, Step(t)
    PROVE  \/ Have(t)' \subseteq Have(t)
           \/ \E x \in Local : Maker(x) \in BodyOps(plan[t]) /\ Have(t)' = Have(t) \cup {x}
<1>1. CASE TempDir(t) \/ AllocateTaps(t) \/ KeyGen(t) \/ SpawnSrc(t) \/ SpawnDst(t)
  <2>1. \E x \in Local : Did(t, Maker(x)) /\ Declare(t, x) /\ plan' = plan /\ phase' = phase
    BY <1>1 DEF TempDir, AllocateTaps, KeyGen, SpawnSrc, SpawnDst, Started, Local, Maker, Dirs
  <2>2. PICK x \in Local : Did(t, Maker(x)) /\ Declare(t, x) /\ plan' = plan /\ phase' = phase
    BY <2>1
  <2>3. Have(t)' = Have(t) \cup {x} /\ Maker(x) \in BodyOps(plan[t])
    BY <2>2, Declares, DidOp
  <2> QED
    BY <2>3
<1>2. CASE Drop(t)
  <2> DEFINE s == locals[t]
             r == Front(s)
  <2>1. s \in Seq(Local) /\ s # << >> /\ locals' = [locals EXCEPT ![t] = r] /\ DOMAIN locals = Test
    BY <1>2 DEF Drop, IInv, Shape
  <2>2. locals'[t] = r /\ ToSet(r) \subseteq ToSet(s)
    BY <2>1, Popped
  <2> QED
    BY <2>2 DEF Have
<1>3. CASE locals' = locals
  BY <1>3 DEF Have
<1>4. \/ TempDir(t) \/ AllocateTaps(t) \/ KeyGen(t) \/ SpawnSrc(t) \/ SpawnDst(t)
      \/ Drop(t) \/ locals' = locals
  BY Zenon DEF Step, Claim, Start, NoTaps, WritePayload, StageFiles, MakeImage, CopyFile,
     Migrate, Observe, Fails, Succeeds, Return, Report
<1> QED
  BY <1>1, <1>2, <1>3, <1>4

(* A body goes on only as long as nothing failed. *)
LEMMA OkStep ==
    ASSUME IInv, NEW t \in Test, Step(t), Going(t)
    PROVE  Going(t)'
<1>1. CASE NoTaps(t) \/ Fails(t)
  <2>1. phase'[t] = "unwind"
    BY <1>1 DEF NoTaps, Fails, Goto, IInv, Shape
  <2> QED
    BY <2>1 DEF Going
<1>2. CASE Proceeds(t)
  <2>1. /\ ok' = ok
        /\ phase'[t] \in {"queued", "claimed", "run"} => phase[t] \in {"queued", "claimed", "run"}
    BY <1>2 DEF Proceeds, Claim, Start, Succeeds, Return, Report, Goto, IInv, Shape
  <2> QED
    BY <2>1 DEF Going
<1>3. CASE ok' = ok /\ phase' = phase
  BY <1>3 DEF Going
<1>4. NoTaps(t) \/ Fails(t) \/ Proceeds(t) \/ (ok' = ok /\ phase' = phase)
  BY Zenon DEF Step, Proceeds, TempDir, AllocateTaps, WritePayload, KeyGen, StageFiles, MakeImage,
     CopyFile, SpawnSrc, SpawnDst, Migrate, Observe, Drop
<1> QED
  BY <1>1, <1>2, <1>3, <1>4

(* A step of one test keeps Layer. *)
LEMMA LayerStep ==
    ASSUME IInv, PoolInv, Layer, NEW t \in Test, Step(t)
    PROVE  Layer'
<1>1. LeavesOthers(t)
  BY StepInv
<1>2. ASSUME NEW u \in Test \ {t} PROVE (Made(u) /\ Going(u))'
  <2>1. Have(u)' = Have(u) /\ plan' = plan /\ phase'[u] = phase[u] /\ ok'[u] = ok[u]
    BY <1>1 DEF LeavesOthers, Have
  <2> QED
    BY <2>1 DEF Layer, Made, Going
<1>3. Made(t)'
  BY <1>1, HaveStep DEF Layer, Made, LeavesOthers
<1>4. Going(t)'
  BY OkStep DEF Layer
<1> QED
  BY <1>2, <1>3, <1>4 DEF Layer

(* What the view needs beyond IInv holds always. *)
LEMMA LayerInvariance == Spec => []Layer
<1>1. Init => Layer
  BY EmptyLists DEF Init, Layer, Made, Going, Have, Lists
<1>2. IInv /\ PoolInv /\ Layer /\ [Next]_vars => Layer'
  <2>1. ASSUME UNCHANGED vars, Layer PROVE Layer'
    BY <2>1 DEF vars, Layer, Made, Going, Have
  <2>2. Next => \E t \in Test : Step(t)
    BY DEF Next, Step
  <2> QED
    BY <2>1, <2>2, LayerStep
<1> QED
  BY <1>1, <1>2, Invariance, PTL DEF Spec

-----------------------------------------------------------------------------
(* What the runner sees of a test, from what the test has and has left. *)

(* What it holds, by its locals. *)
View(t) ==
    /\ Owned(t) = {} <=> "src" \notin Have(t)
    /\ held[t] = {} <=> "taps" \notin Have(t)
    /\ "taps" \in Have(t) => UsesTaps(plan[t])
    /\ "src" \in Have(t) /\ UsesTaps(plan[t]) => "taps" \in Have(t)
    /\ UsesOf(t) = IF "src" \in Have(t) THEN held[t] ELSE {}

(* What the locals of a test say of its taps and its QEMUs. *)
LEMMA Views ==
    ASSUME IInv, PoolInv, Layer, NEW t \in Test
    PROVE  View(t)
<1>1. Stacked(t) /\ HoldsTaps(t) /\ Machines(t) /\ Made(t)
  BY DEF IInv, Own, Layer
<1>2. held[t] = {} <=> "taps" \notin Have(t)
  BY <1>1 DEF HoldsTaps
<1>3. "taps" \in Have(t) => UsesTaps(plan[t])
  <2>1. "taps" \in BodyOps(plan[t]) => UsesTaps(plan[t])
    BY DEF BodyOps, Given
  <2> QED
    BY <1>1, <2>1 DEF Made, Maker
<1>4. "src" \in Have(t) /\ UsesTaps(plan[t]) => "taps" \in Have(t)
  <2>1. /\ "taps" \in Local /\ LocalRank("taps") = 5 /\ LocalRank("src") = 9
        /\ Maker("taps") = "taps"
    BY DEF Local, LocalRank, Maker, Rank
  <2>2. UsesTaps(plan[t]) => "taps" \in BodyOps(plan[t])
    BY DEF BodyOps, Given
  <2> QED
    BY <1>1, <2>1, <2>2 DEF Stacked
<1>5. "dst" \in Have(t) => "src" \in Have(t)
  <2>1. /\ "src" \in Local /\ LocalRank("dst") = 10 /\ LocalRank("src") = 9
        /\ Maker("src") = "spawn" /\ "spawn" \in BodyOps(plan[t])
    BY DEF Local, LocalRank, Maker, Rank, BodyOps
  <2> QED
    BY <1>1, <2>1 DEF Stacked
<1>6. Owned(t) = {} <=> "src" \notin Have(t)
  <2>1. \A q \in Owned(t) : q.role \in {"src", "dst"} /\ q.role \in Have(t)
    BY <1>1 DEF Owned, Machines
  <2>2. "src" \in Have(t) => \E q \in vms : q.test = t
    BY <1>1 DEF Machines
  <2> QED
    BY <1>5, <2>1, <2>2 DEF Owned
<1>7. ASSUME NEW q \in Owned(t), UsesTaps(plan[t])
      PROVE  \E n \in Nat : TapsOf(q) = {n} /\ held[t] = {n \div 2}
  <2>1. q \in vms /\ q.test = t /\ q.role \in {"src", "dst"} /\ q.args = Args(Config(t, q.role))
    BY <1>1 DEF Owned, Machines
  <2>2. TapsOf(q) = {Tap(t, q.role)}
    BY <1>7, <2>1, QemuUses
  <2>3. PICK i \in Nat : held[t] = {i} /\ The(held[t]) = i
    BY <1>7, <2>1, PairOfQemu
  <2>4. Tap(t, q.role) \in {2 * i, 2 * i + 1}
    BY <2>3 DEF Tap, Pool!SrcTap, Pool!DstTap
  <2>5. \A n \in {2 * i, 2 * i + 1} : n \in Nat /\ n \div 2 = i
    BY <2>3
  <2> QED
    BY <2>2, <2>3, <2>4, <2>5
<1>8. ASSUME NEW q \in Owned(t), ~UsesTaps(plan[t])
      PROVE  TapsOf(q) = {}
  <2>1. q.role \in {"src", "dst"} /\ q.args = Args(Config(t, q.role))
    BY <1>1 DEF Owned, Machines
  <2> QED
    BY <1>8, <2>1, QemuUses
<1>9. UsesOf(t) = IF "src" \in Have(t) THEN held[t] ELSE {}
  <2>1. CASE "src" \notin Have(t)
    BY <1>6, <2>1 DEF UsesOf
  <2>2. CASE "src" \in Have(t) /\ UsesTaps(plan[t])
    BY <1>6, <1>7, <2>2 DEF UsesOf
  <2>3. CASE "src" \in Have(t) /\ ~UsesTaps(plan[t])
    BY <1>2, <1>3, <1>8, <2>3 DEF UsesOf
  <2> QED
    BY <2>1, <2>2, <2>3
<1> QED
  BY <1>2, <1>3, <1>4, <1>6, <1>9 DEF View

(* Where run_test is in it, by its locals and what is left. *)
Place(t) ==
    /\ phase[t] \in {"queued", "reported"} => Stage(t) = "idle"
    /\ phase[t] = "claimed" => Stage(t) = "claimed"
    /\ phase[t] = "run" =>
          Stage(t) = IF "taps" \in Left(t) THEN "alloc"
                     ELSE IF "spawn" \in Left(t) THEN "spawn" ELSE "body"
    /\ phase[t] = "unwind" =>
          Stage(t) = IF "src" \in Have(t) THEN "dropVm"
                     ELSE IF UsesTaps(plan[t]) /\ "taps" \notin Have(t) THEN "done"
                     ELSE "dropTaps"
    /\ phase[t] = "returned" => Stage(t) = "done"

(* The stage of a test, by its phase and its locals. *)
LEMMA Places ==
    ASSUME IInv, PoolInv, Layer, NEW t \in Test
    PROVE  Place(t)
<1>1. /\ phase[t] \in {"queued", "reported"} => Stage(t) = "idle"
      /\ phase[t] = "claimed" => Stage(t) = "claimed"
      /\ phase[t] = "returned" => Stage(t) = "done"
  BY DEF Stage
<1>2. phase[t] = "run" =>
          Stage(t) = IF "taps" \in Left(t) THEN "alloc"
                     ELSE IF "spawn" \in Left(t) THEN "spawn" ELSE "body"
  BY DEF Stage, Left
<1>3. phase[t] = "unwind" =>
          Stage(t) = IF Owned(t) # {} THEN "dropVm"
                     ELSE IF UsesTaps(plan[t]) /\ held[t] = {} THEN "done" ELSE "dropTaps"
  BY DEF Stage
<1> QED
  BY <1>1, <1>2, <1>3, Views DEF View, Place

(* While the body runs, what is left of it tells what the test has. *)
LEMMA Progress ==
    ASSUME IInv, NEW t \in Test, phase[t] = "run"
    PROVE  /\ "spawn" \in Left(t) <=> "src" \notin Have(t)
           /\ UsesTaps(plan[t]) => ("taps" \in Left(t) <=> "taps" \notin Have(t))
           /\ "taps" \in Left(t) => "spawn" \in Left(t) /\ UsesTaps(plan[t])
<1>1. Stacked(t) /\ Left(t) \subseteq BodyOps(plan[t])
  BY LeftOrdered DEF IInv, Own
<1>2. /\ "src" \in Local /\ LocalRank("src") = 9 /\ Maker("src") = "spawn" /\ Rank("spawn") = 9
      /\ "taps" \in Local /\ LocalRank("taps") = 5 /\ Maker("taps") = "taps" /\ Rank("taps") = 5
  BY DEF Local, LocalRank, Maker, Rank
<1>3. /\ "spawn" \in BodyOps(plan[t])
      /\ "taps" \in BodyOps(plan[t]) <=> UsesTaps(plan[t])
  BY DEF BodyOps, Given
<1>4. /\ \A x \in Have(t) : \A op \in Left(t) : Rank(op) # 0 => LocalRank(x) < Rank(op)
      /\ \A x \in Local : Maker(x) \in BodyOps(plan[t]) => x \in Have(t) \/ Maker(x) \in Left(t)
  BY <1>1 DEF Stacked
<1>5. "src" \in Have(t) => "spawn" \notin Left(t) /\ "taps" \notin Left(t)
  BY <1>2, <1>4
<1>6. "taps" \in Have(t) => "taps" \notin Left(t)
  BY <1>2, <1>4
<1> QED
  BY <1>1, <1>2, <1>3, <1>4, <1>5, <1>6

-----------------------------------------------------------------------------
(* Every step of a test is one of the runner's, or none. *)

Invs == IInv /\ PoolInv /\ Layer

Seen(t) == Runner!Step(t) \/ UNCHANGED Runner!vars

LEMMA SeenAlways == Invs => \A t \in Test : View(t) /\ Place(t)
  BY Views, Places DEF Invs

LEMMA SeenAfter == Invs' => \A t \in Test : View(t)' /\ Place(t)'
<1>1. Invs' => (\A t \in Test : View(t) /\ Place(t))'
  BY SeenAlways, PTL
<1> QED
  BY <1>1

(* What holds before and after a step of t. *)
LEMMA BothSides ==
    ASSUME Invs, Invs', NEW t \in Test, LeavesOthers(t)
    PROVE  /\ Elsewhere(t) /\ plan' = plan /\ View(t) /\ Place(t) /\ View(t)' /\ Place(t)'
           /\ phase[t] \in Phase /\ phase'[t] \in Phase
           /\ RanOk' \subseteq Test
           /\ t \in RanOk <=> (ok[t] /\ phase[t] \in {"unwind", "returned", "reported"})
           /\ t \in RanOk' <=> (ok'[t] /\ phase'[t] \in {"unwind", "returned", "reported"})
<1>1. Elsewhere(t) /\ plan' = plan
  BY OthersStay DEF LeavesOthers
<1>2. View(t) /\ Place(t) /\ View(t)' /\ Place(t)'
  BY SeenAlways, SeenAfter
<1>3. phase[t] \in Phase /\ phase'[t] \in Phase
  BY DEF Invs, IInv, Shape
<1> QED
  BY <1>1, <1>2, <1>3 DEF RanOk

(* Claim, Start, Succeeds, Return and Report are steps of the runner or none. *)
LEMMA ProceedsSeen ==
    ASSUME Invs, Invs', NEW t \in Test, LeavesOthers(t), Proceeds(t)
    PROVE  Seen(t)
<1>1. /\ UNCHANGED <<taps, plan, todo, locals, files, disk, vms, ok, orphans>>
      /\ phase \in [Test -> Phase] /\ Rest(t) /\ Stacked(t) /\ Going(t)
  BY DEF Proceeds, Claim, Start, Succeeds, Return, Report, Invs, IInv, Shape, Own, Layer
<1>2. Have(t)' = Have(t) /\ Left(t)' = Left(t) /\ held' = held
  BY <1>1 DEF Have, Left, taps
<1> USE BothSides
<1>3. UsesOf(t)' = UsesOf(t)
  BY <1>2 DEF View
<1>4. CASE Claim(t)
  <2>1. phase[t] = "queued" /\ phase'[t] = "claimed"
    BY <1>1, <1>4 DEF Claim, Goto
  <2>2. Stage(t) = "idle" /\ Stage(t)' = "claimed" /\ t \in Queue /\ t \notin Queue'
    BY <2>1 DEF Place, Queue
  <2>3. /\ InHand(t)' = {t} /\ Outcome(t)' = Outcome(t) /\ (t \in RanOk' <=> t \in RanOk)
    BY <2>1 DEF InHand, Outcome
  <2>4. ok' = [ok EXCEPT ![t] = TRUE]
    BY <1>1, <2>1 DEF Going, Invs, IInv, Shape
  <2> QED
    BY <1>1, <1>3, <2>2, <2>3, <2>4, AsClaim DEF Seen, Runner!Step, Runner!Harness
<1>5. CASE Start(t)
  <2>1. phase[t] = "claimed" /\ phase'[t] = "run"
    BY <1>1, <1>5 DEF Start, Goto
  <2>2. Left(t) = BodyOps(plan[t])
    BY <1>1, <2>1, BodyOrdered DEF Rest, Left, Segment
  <2>3. /\ "spawn" \in BodyOps(plan[t])
        /\ "taps" \in BodyOps(plan[t]) <=> t \in NeedsTaps
    BY DEF BodyOps, Given, NeedsTaps
  <2>4. Stage(t) = "claimed" /\ Stage(t)' = IF t \in NeedsTaps THEN "alloc" ELSE "spawn"
    BY <1>2, <2>1, <2>2, <2>3 DEF Place
  <2>5. Inside(t) /\ (t \in RanOk' <=> t \in RanOk)
    BY <2>1 DEF Inside
  <2> QED
    BY <1>1, <1>3, <2>4, <2>5, AsStart DEF Seen, Runner!Step, Runner!Harness
<1>6. CASE Succeeds(t)
  <2>1. phase[t] = "run" /\ phase'[t] = "unwind" /\ todo[t] = << >>
    BY <1>1, <1>6 DEF Succeeds, Goto
  <2>2. Left(t) = {}
    BY <2>1, EmptyLists DEF Left, Lists
  <2>3. "src" \in Have(t)
    BY <2>1, <2>2, Progress DEF Invs
  <2>4. Stage(t) = "body" /\ Stage(t)' = "dropVm"
    BY <1>2, <2>1, <2>2, <2>3 DEF Place
  <2>5. Inside(t) /\ t \in RanOk'
    BY <1>1, <2>1 DEF Inside, Going
  <2>6. Deserting' = Deserting
    BY <1>1 DEF Deserting
  <2> QED
    BY <1>1, <1>3, <2>4, <2>5, <2>6, AsBody DEF Seen, Runner!Step, Runner!Harness
<1>7. CASE Return(t)
  <2>1. phase[t] = "unwind" /\ phase'[t] = "returned" /\ locals[t] = << >>
    BY <1>1, <1>7 DEF Return, Goto
  <2>2. Have(t) = {} /\ held[t] = {}
    BY <2>1, EmptyLists DEF Have, Lists, View
  <2>3. Stage(t)' = "done" /\ Stage(t) \in {"done", "dropTaps"}
    BY <2>1, <2>2 DEF Place
  <2>4. Inside(t) /\ (t \in RanOk' <=> t \in RanOk)
    BY <1>1, <2>1 DEF Inside
  <2> QED
    BY <1>1, <1>3, <2>2, <2>3, <2>4, AsDropTaps, AsNothing DEF Seen, Runner!Step, Runner!Harness
<1>8. CASE Report(t)
  <2>1. phase[t] = "returned" /\ phase'[t] = "reported"
    BY <1>1, <1>8 DEF Report, Goto
  <2>2. Stage(t) = "done" /\ Stage(t)' = "idle"
    BY <2>1 DEF Place
  <2> QED
    BY <1>1, <1>3, <2>1, <2>2, AsRecord DEF Seen, Runner!Step, Runner!Harness
<1> QED
  BY <1>4, <1>5, <1>6, <1>7, <1>8 DEF Proceeds

(* An operation that the runner does not see: its QEMUs and pair stay. *)
LEMMA InsideBody ==
    ASSUME Invs, Invs', NEW t \in Test, LeavesOthers(t),
           NEW op, Did(t, op), op \notin {"taps", "spawn"}, phase' = phase,
           UNCHANGED <<taps, ok, orphans>>, "src" \in Have(t)' <=> "src" \in Have(t)
    PROVE  Seen(t)
<1> USE BothSides
<1>1. phase[t] = "run" /\ Left(t) = Left(t)' \cup {op}
  BY DidOp DEF Invs
<1>2. Stage(t)' = Stage(t)
  BY <1>1 DEF Place
<1>3. UsesOf(t)' = UsesOf(t)
  BY DEF View, taps
<1>4. Inside(t) /\ (t \in RanOk' <=> t \in RanOk)
  BY <1>1 DEF Inside
<1> QED
  BY <1>2, <1>3, <1>4, AsNothing DEF Seen

(* An operation that touches neither the taps nor the first QEMU is no step of the runner. *)
LEMMA OperationsSeen ==
    ASSUME Invs, Invs', NEW t \in Test, LeavesOthers(t),
           Writes(t) \/ TempDir(t) \/ KeyGen(t) \/ SpawnDst(t) \/ Migrate(t)
    PROVE  Seen(t)
<1>1. CASE Writes(t) \/ Migrate(t)
  <2>1. \E op : /\ Did(t, op) /\ op \notin {"taps", "spawn"} /\ phase' = phase /\ locals' = locals
                /\ UNCHANGED <<taps, ok, orphans>>
    BY <1>1 DEF Writes, WritePayload, StageFiles, MakeImage, CopyFile, Observe, Migrate
  <2>2. Have(t)' = Have(t)
    BY <2>1 DEF Have
  <2> QED
    BY <2>1, <2>2, InsideBody
<1>2. CASE TempDir(t) \/ KeyGen(t) \/ SpawnDst(t)
  <2>1. \E op, x : /\ Did(t, op) /\ op \notin {"taps", "spawn"} /\ phase' = phase
                   /\ x \in Local /\ Maker(x) = op /\ x # "src" /\ Declare(t, x)
                   /\ UNCHANGED <<taps, ok, orphans, plan>>
    BY <1>2 DEF TempDir, KeyGen, SpawnDst, Started, Local, Maker, Dirs
  <2>2. PICK op, x : /\ Did(t, op) /\ op \notin {"taps", "spawn"} /\ phase' = phase
                     /\ x \in Local /\ Maker(x) = op /\ x # "src" /\ Declare(t, x)
                     /\ UNCHANGED <<taps, ok, orphans, plan>>
    BY <2>1
  <2>3. Have(t)' = Have(t) \cup {x}
    BY <2>2, Declares DEF Invs
  <2> QED
    BY <2>2, <2>3, InsideBody
<1> QED
  BY <1>1, <1>2

(* allocate_taps is Alloc, whether it finds a pair or not. *)
LEMMA AllocationSeen ==
    ASSUME Invs, Invs', NEW t \in Test, LeavesOthers(t), AllocateTaps(t) \/ NoTaps(t)
    PROVE  Seen(t)
<1> USE BothSides
<1>1. phase[t] = "run" /\ "taps" \in Left(t)
  <2>1. todo[t] \in Seq(Op)
    BY DEF Invs, IInv, Shape
  <2>2. phase[t] = "run" /\ todo[t] # << >> /\ Head(todo[t]) = "taps"
    BY DEF AllocateTaps, NoTaps, Did, At
  <2> QED
    BY <2>1, <2>2, HeadAndTail DEF Left
<1>2. "spawn" \in Left(t) /\ "src" \notin Have(t) /\ UsesTaps(plan[t]) /\ "taps" \notin Have(t)
  BY <1>1, Progress DEF Invs
<1>3. Stage(t) = "alloc"
  BY <1>1 DEF Place
<1>4. CASE AllocateTaps(t)
  <2>1. /\ Did(t, "taps") /\ Declare(t, "taps") /\ Pool!Allocate(t)
        /\ UNCHANGED <<plan, phase, files, disk, vms, ok, orphans>>
    BY <1>4 DEF AllocateTaps
  <2>2. "taps" \in Local /\ Maker("taps") = "taps" /\ Rank("taps") = 5 /\ Rank("spawn") = 9
    BY DEF Local, Maker, Rank
  <2>3. Have(t)' = Have(t) \cup {"taps"}
    BY <2>1, <2>2, Declares DEF Invs
  <2>4. "taps" \notin Left(t)' /\ "spawn" \in Left(t)'
    BY <1>2, <2>1, <2>2, DidOp DEF Invs
  <2>5. Stage(t)' = "spawn" /\ UsesOf(t)' = UsesOf(t)
    BY <1>1, <1>2, <2>1, <2>3, <2>4 DEF Place, View
  <2>6. Inside(t) /\ (t \in RanOk' <=> t \in RanOk)
    BY <1>1, <2>1 DEF Inside
  <2> QED
    BY <1>3, <2>1, <2>5, <2>6, AsAlloc DEF Seen, Runner!Step, Runner!Harness
<1>5. CASE NoTaps(t)
  <2>1. /\ Pool!AllocateFails(t) /\ phase'[t] = "unwind" /\ ok' = [ok EXCEPT ![t] = FALSE]
        /\ ok'[t] = FALSE /\ locals' = locals /\ orphans' = orphans
    BY <1>5 DEF NoTaps, Goto, Invs, IInv, Shape
  <2>2. Have(t)' = Have(t)
    BY <2>1 DEF Have
  <2>3. Stage(t)' = "done" /\ UsesOf(t)' = UsesOf(t)
    BY <1>2, <2>1, <2>2 DEF Place, View
  <2>4. Inside(t) /\ (t \in RanOk' <=> t \in RanOk)
    BY <1>1, <2>1 DEF Inside
  <2> QED
    BY <1>3, <2>1, <2>3, <2>4, AsAlloc DEF Seen, Runner!Step, Runner!Harness
<1> QED
  BY <1>4, <1>5

(* The first spawn is Spawn. *)
LEMMA SpawnSeen ==
    ASSUME Invs, Invs', NEW t \in Test, LeavesOthers(t), SpawnSrc(t)
    PROVE  Seen(t)
<1> USE BothSides
<1>1. Did(t, "spawn") /\ Declare(t, "src") /\ UNCHANGED <<taps, plan, phase, ok, orphans>>
  BY DEF SpawnSrc, Started
<1>2. "src" \in Local /\ Maker("src") = "spawn" /\ Rank("taps") = 5 /\ Rank("spawn") = 9
  BY DEF Local, Maker, Rank
<1>3. /\ phase[t] = "run" /\ "spawn" \in Left(t) /\ Left(t) = Left(t)' \cup {"spawn"}
      /\ \A o \in Left(t)' : Rank(o) # 0 => 9 < Rank(o)
  BY <1>1, <1>2, DidOp DEF Invs
<1>4. Have(t)' = Have(t) \cup {"src"}
  BY <1>1, <1>2, Declares DEF Invs
<1>5. "taps" \notin Left(t)' /\ "spawn" \notin Left(t)' /\ "taps" \notin Left(t)
  BY <1>2, <1>3
<1>6. Stage(t) = "spawn" /\ Stage(t)' = "body"
  BY <1>1, <1>3, <1>5 DEF Place
<1>7. UsesOf(t)' = held[t]
  BY <1>1, <1>4 DEF View, taps
<1>8. Inside(t) /\ (t \in RanOk' <=> t \in RanOk)
  BY <1>1, <1>3 DEF Inside
<1>9. Deserting' = Deserting
  BY <1>1 DEF Deserting
<1> QED
  BY <1>1, <1>6, <1>7, <1>8, <1>9, AsSpawn DEF Seen, Runner!Step, Runner!Harness

(* A failing operation ends Alloc, Spawn or Body, wherever the test is. *)
LEMMA FailsSeen ==
    ASSUME Invs, Invs', NEW t \in Test, LeavesOthers(t), Fails(t)
    PROVE  Seen(t)
<1> USE BothSides
<1>1. /\ phase[t] = "run" /\ phase'[t] = "unwind" /\ todo[t] # << >>
      /\ ok' = [ok EXCEPT ![t] = FALSE] /\ ok'[t] = FALSE
      /\ \/ orphans' = orphans
         \/ /\ Head(todo[t]) \in {"spawn", "dest"}
            /\ \E o : o.test = t /\ orphans' = orphans \cup {o}
      /\ UNCHANGED <<taps, plan, locals, vms>>
  BY DEF Fails, Goto, Invs, IInv, Shape, Orphan
<1>9. Deserting' \in {Deserting, Deserting \cup {t}}
  <2>1. CASE orphans' = orphans
    BY <2>1 DEF Deserting
  <2>2. ASSUME NEW o, o.test = t, orphans' = orphans \cup {o}
        PROVE  Deserting' = Deserting \cup {t}
    BY <2>2 DEF Deserting
  <2> QED
    BY <1>1, <2>1, <2>2
<1>2. Have(t)' = Have(t)
  BY <1>1 DEF Have
<1>3. UsesOf(t)' = UsesOf(t)
  BY <1>1, <1>2 DEF View, taps
<1>4. Inside(t) /\ (t \in RanOk' <=> t \in RanOk)
  BY <1>1 DEF Inside
<1>5. /\ "spawn" \in Left(t) <=> "src" \notin Have(t)
      /\ UsesTaps(plan[t]) => ("taps" \in Left(t) <=> "taps" \notin Have(t))
      /\ "taps" \in Left(t) => "spawn" \in Left(t) /\ UsesTaps(plan[t])
  BY <1>1, Progress DEF Invs
<1>6. CASE "taps" \in Left(t)
  <2>1. Stage(t) = "alloc" /\ Stage(t)' = "done"
    BY <1>1, <1>2, <1>5, <1>6 DEF Place
  <2>2. orphans' = orphans
    <3>1. todo[t] \in Seq(Op) /\ Ordered(todo[t])
      BY LeftOrdered DEF Invs, IInv, Shape
    <3>2. Len(todo[t]) \in Nat \ {0} /\ Head(todo[t]) = todo[t][1]
      BY <1>1, <3>1, EmptySeq
    <3>3. PICK i \in 1 .. Len(todo[t]) : todo[t][i] = "taps"
      BY <1>6, <3>1, ToSetElements DEF Left
    <3>4. Rank("taps") = 5 /\ Rank("spawn") = 9 /\ Rank("dest") = 10
      BY DEF Rank
    <3>5. ASSUME Head(todo[t]) \in {"spawn", "dest"} PROVE FALSE
      <4>1. 1 < i /\ 1 \in 1 .. Len(todo[t])
        BY <3>2, <3>3, <3>5
      <4>2. Rank(todo[t][1]) < Rank(todo[t][i])
        BY <3>1, <3>2, <3>3, <3>4, <3>5, <4>1 DEF Ordered
      <4> QED
        BY <3>2, <3>3, <3>4, <3>5, <4>2
    <3> QED
      BY <1>1, <3>5
  <2> QED
    BY <1>1, <1>3, <1>4, <2>1, <2>2, AsAlloc DEF Seen, Runner!Step, Runner!Harness
<1>7. CASE "taps" \notin Left(t) /\ "spawn" \in Left(t)
  <2>1. Stage(t) = "spawn" /\ Stage(t)' = "dropTaps"
    BY <1>1, <1>2, <1>5, <1>7 DEF Place
  <2> QED
    BY <1>1, <1>3, <1>4, <1>9, <2>1, AsSpawn DEF Seen, Runner!Step, Runner!Harness
<1>8. CASE "taps" \notin Left(t) /\ "spawn" \notin Left(t)
  <2>1. Stage(t) = "body" /\ Stage(t)' = "dropVm"
    BY <1>1, <1>2, <1>5, <1>8 DEF Place
  <2> QED
    BY <1>1, <1>3, <1>4, <1>9, <2>1, AsBody DEF Seen, Runner!Step, Runner!Harness
<1> QED
  BY <1>6, <1>7, <1>8

(* The drop of the source, the last QEMU to go, is DropVm, that of the pair is DropTaps. *)
LEMMA DropSeen ==
    ASSUME Invs, Invs', NEW t \in Test, LeavesOthers(t), Drop(t)
    PROVE  Seen(t)
<1> USE BothSides
<1> DEFINE s == locals[t]
           r == Front(s)
           x == Last(s)
<1>1. /\ phase[t] = "unwind" /\ phase'[t] = "unwind" /\ s # << >> /\ s \in Seq(Local)
      /\ locals' = [locals EXCEPT ![t] = r] /\ locals'[t] = r
      /\ IF x = "taps" THEN Pool!Release(t) ELSE UNCHANGED taps
      /\ UNCHANGED <<plan, phase, ok, orphans>>
  BY DEF Drop, Invs, IInv, Shape
<1>2. /\ Len(s) \in Nat \ {0} /\ x = s[Len(s)] /\ x \in ToSet(s)
      /\ r \in Seq(Local) /\ Len(r) = Len(s) - 1
      /\ \A i \in 1 .. Len(s) - 1 : r[i] = s[i]
      /\ ToSet(s) = ToSet(r) \cup {x}
  BY <1>1, Popped
<1>3. Have(t) = ToSet(s) /\ Have(t)' = ToSet(r)
  BY <1>1 DEF Have
<1>4. \A i, j \in 1 .. Len(s) : i < j => LocalRank(s[i]) < LocalRank(s[j])
  BY DEF Invs, IInv, Own, Stacked
<1> HIDE DEF s, r, x
<1>5. \A y \in Have(t)' : LocalRank(y) < LocalRank(x)
  <2> SUFFICES ASSUME NEW y \in Have(t)' PROVE LocalRank(y) < LocalRank(x)
    OBVIOUS
  <2>1. PICK i \in 1 .. Len(r) : r[i] = y
    BY <1>2, <1>3, ToSetElements
  <2>2. i \in 1 .. Len(s) /\ Len(s) \in 1 .. Len(s) /\ i < Len(s) /\ r[i] = s[i]
    BY <1>2, <2>1
  <2> QED
    BY <1>2, <1>4, <2>1, <2>2
<1>6. /\ LocalRank("taps") = 5 /\ LocalRank("src") = 9 /\ Rank("taps") = 5
      /\ \A y : LocalRank(y) \in Nat
  BY RankType DEF LocalRank, Maker, Rank
<1>7. x \notin Have(t)' /\ Have(t) = Have(t)' \cup {x}
  BY <1>2, <1>3, <1>5, <1>6
<1>8. Inside(t) /\ (t \in RanOk' <=> t \in RanOk)
  BY <1>1 DEF Inside
<1>9. CASE x = "src"
  <2>1. held' = held /\ UNCHANGED taps
    BY <1>1, <1>9 DEF taps
  <2>2. UsesOf(t)' = {}
    BY <1>7, <1>9 DEF View
  <2>3. "taps" \in Have(t)' \/ ~UsesTaps(plan[t])
    BY <1>7, <1>9 DEF View
  <2>4. Stage(t) = "dropVm" /\ Stage(t)' = "dropTaps"
    BY <1>1, <1>7, <1>9, <2>3 DEF Place
  <2> QED
    BY <1>1, <1>8, <2>1, <2>2, <2>4, AsDropVm DEF Seen, Runner!Step, Runner!Harness
<1>10. CASE x = "taps"
  <2>1. "src" \notin Have(t) /\ "src" \notin Have(t)'
    BY <1>5, <1>6, <1>7, <1>10
  <2>2. "taps" \in Have(t) /\ UsesTaps(plan[t]) /\ "taps" \notin Have(t)' /\ held[t] # {}
    BY <1>7, <1>10 DEF View
  <2>3. UsesOf(t)' = UsesOf(t)
    BY <2>1 DEF View
  <2>4. Stage(t) = "dropTaps" /\ Stage(t)' = "done"
    BY <1>1, <2>1, <2>2 DEF Place
  <2> QED
    BY <1>1, <1>8, <1>10, <2>2, <2>3, <2>4, AsDropTaps DEF Seen, Runner!Step, Runner!Harness
<1>11. CASE x \notin {"src", "taps"}
  <2>1. held' = held /\ UNCHANGED taps
    BY <1>1, <1>11 DEF taps
  <2>2. ("src" \in Have(t)' <=> "src" \in Have(t)) /\ ("taps" \in Have(t)' <=> "taps" \in Have(t))
    BY <1>7, <1>11
  <2>3. UsesOf(t)' = UsesOf(t) /\ Stage(t)' = Stage(t)
    BY <1>1, <2>1, <2>2 DEF View, Place
  <2> QED
    BY <1>1, <1>8, <2>1, <2>3, AsNothing DEF Seen
<1> QED
  BY <1>9, <1>10, <1>11

(***************************************************************************)
(* The test functions are test bodies as TestRunner has them: whatever     *)
(* they do on the way, what run_test and TAP_POOL see of them is one of    *)
(* TestRunner's steps.                                                     *)
(***************************************************************************)
THEOREM BodiesAreRun == Spec => RunnerSpec
<1>1. ASSUME Init, PoolInv PROVE Runner!Init
  <2>1. Pool!Init <=> Runner!Pool!Init
    BY DEF Pool!Init, Runner!Pool!Init
  <2>2. /\ vms = {} /\ orphans = {} /\ ok = [t \in Test |-> TRUE]
        /\ phase = [t \in Test |-> "queued"] /\ Pool!Init
    BY <1>1 DEF Init
  <2>3. \A t \in Test : /\ InHand(t) = {} /\ Stage(t) = "idle" /\ UsesOf(t) = {}
                        /\ Outcome(t) = "none"
    BY <2>2 DEF InHand, Stage, UsesOf, Owned, Outcome
  <2>4. NeedsTaps \in SUBSET Test /\ Queue = Test /\ RanOk = {} /\ Deserting = {}
    BY <2>2 DEF NeedsTaps, Queue, RanOk, Deserting
  <2> QED
    BY <2>1, <2>2, <2>3, <2>4 DEF Runner!Init
<1>2. ASSUME Invs, Invs', [Next]_vars PROVE [Runner!Next]_(Runner!vars)
  <2>1. ASSUME NEW t \in Test, Step(t) PROVE Seen(t)
    <3>1. LeavesOthers(t)
      BY <1>2, <2>1, StepInv DEF Invs
    <3>2. \/ Proceeds(t) \/ Writes(t) \/ TempDir(t) \/ KeyGen(t) \/ SpawnDst(t) \/ Migrate(t)
          \/ AllocateTaps(t) \/ NoTaps(t) \/ SpawnSrc(t) \/ Fails(t) \/ Drop(t)
      BY <2>1 DEF Step, Proceeds, Writes
    <3> QED
      BY <1>2, <3>1, <3>2, ProceedsSeen, OperationsSeen, AllocationSeen, SpawnSeen, FailsSeen,
         DropSeen
  <2>2. ASSUME UNCHANGED vars PROVE UNCHANGED Runner!vars
    BY <2>2 DEF vars, taps, Runner!vars, NeedsTaps, Queue, InHand, Stage, UsesOf, TapsOf, Having,
       Owned, Outcome, RanOk, Deserting
  <2>3. Next => \E t \in Test : Step(t)
    BY DEF Next, Step
  <2>4. ASSUME NEW t \in Test, Seen(t) PROVE [Runner!Next]_(Runner!vars)
    BY <2>4 DEF Seen, Runner!Next
  <2> QED
    BY <1>2, <2>1, <2>2, <2>3, <2>4
<1> QED
  BY <1>1, <1>2, Invariance, LayerInvariance, PTL DEF Spec, Invs, RunnerSpec, Runner!Spec
=============================================================================
