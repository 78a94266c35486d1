------------------------ MODULE TestSelectionProofs ------------------------
(***************************************************************************)
(* The macro registers the product of the listed values, the filter means  *)
(* what its tokens say, and no test is lost on the way to the report: for  *)
(* all test functions, filters and numbers of repetitions.                 *)
(*                                                                         *)
(* Entries, combinations and sums come from folds over sequences of any    *)
(* length.  What they compute is shown by induction on the length, with a  *)
(* set in the place of a predicate (UpFromZero).  What each of them keeps  *)
(* is that a sequence Lists elements: each at one place of its own.  The   *)
(* combinations of an attribute list its assignments, the combinations of  *)
(* a function the choices among its attributes, and the entries of a       *)
(* program the choices of all functions; the product counts the latter.    *)
(*                                                                         *)
(* The invariant says of each entry that the closure has looked at which   *)
(* side it was put on, and why (Sorted); the rest follows from that.       *)
(***************************************************************************)
EXTENDS TestSelection, SequenceTheorems, FiniteSetTheorems, FunctionTheorems,
        WellFoundedInduction, TLAPS

-----------------------------------------------------------------------------
(* Induction. *)

(* A set with zero and every successor has all numbers: the least one that *)
(* it lacks would have a predecessor.                                      *)
LEMMA UpFromZero ==
    ASSUME NEW S, 0 \in S, \A n \in Nat : n \in S => n + 1 \in S
    PROVE  \A n \in Nat : n \in S
<1> SUFFICES ASSUME NEW m \in Nat, m \notin S PROVE FALSE
  OBVIOUS
<1> DEFINE R == OpToRel(<, Nat)
           T == {n \in Nat : n \notin S}
<1>1. IsWellFoundedOn(R, Nat) /\ T \subseteq Nat /\ T # {}
  BY NatLessThanWellFounded DEF OpToRel
<1>2. \A x, y \in Nat : x < y => <<x, y>> \in R
  BY DEF OpToRel
<1> HIDE DEF R
<1>3. \E x \in T : \A y \in T : ~ (<<y, x>> \in R)
  <2> HIDE DEF T
  <2> QED BY <1>1, WFMin
<1>4. PICK x \in T : \A y \in T : ~ (<<y, x>> \in R)
  BY <1>3
<1>5. x # 0 /\ x - 1 \in Nat /\ x - 1 < x
  OBVIOUS
<1>6. x - 1 \notin S
  BY <1>5
<1> QED
  BY <1>2, <1>4, <1>5, <1>6

(* A set of numbers with an upper bound has a greatest one. *)
LEMMA MaxIsThere ==
    ASSUME NEW n \in Nat, NEW S \in SUBSET (1 .. n), S # {}
    PROVE  Max(S) \in S /\ \A y \in S : y <= Max(S)
<1> DEFINE Tops == {k \in Nat : \A T \in SUBSET (1 .. k) : T # {} => \E x \in T : \A y \in T : x >= y}
<1>1. 0 \in Tops
  <2>1. 1 .. 0 = {}
    OBVIOUS
  <2> QED BY <2>1
<1>2. ASSUME NEW k \in Nat, k \in Tops PROVE k + 1 \in Tops
  <2> SUFFICES ASSUME NEW T \in SUBSET (1 .. k + 1), T # {}
               PROVE  \E x \in T : \A y \in T : x >= y
    OBVIOUS
  <2>1. CASE k + 1 \in T
    BY <2>1
  <2>2. CASE k + 1 \notin T
    <3>1. T \in SUBSET (1 .. k)
      BY <2>2
    <3> QED
      BY <1>2, <3>1
  <2> QED
    BY <2>1, <2>2
<1>3. n \in Tops
  <2> HIDE DEF Tops
  <2> QED BY <1>1, <1>2, UpFromZero
<1>4. PICK x \in S : \A y \in S : x >= y
  BY <1>3
<1> QED
  BY <1>4 DEF Max

-----------------------------------------------------------------------------
(* FlattenSeq. *)

LEMMA Concat ==
    ASSUME NEW S, NEW s \in Seq(S), NEW t \in Seq(S)
    PROVE  /\ s \o t \in Seq(S) /\ Len(s \o t) = Len(s) + Len(t)
           /\ \A m \in 1 .. Len(s) : (s \o t)[m] = s[m]
           /\ \A m \in 1 .. Len(t) : (s \o t)[Len(s) + m] = t[m]
  OBVIOUS

LEMMA FunctionIsSeq ==
    ASSUME NEW T, NEW n \in Nat, NEW f, f = [k \in 1 .. n |-> f[k]], \A k \in 1 .. n : f[k] \in T
    PROVE  f \in Seq(T) /\ Len(f) = n
  OBVIOUS

LEMMA ElementsOf ==
    ASSUME NEW T, NEW z \in Seq(T)
    PROVE  \A a \in DOMAIN z : z[a] \in T
  OBVIOUS

LEMMA Single ==
    ASSUME NEW S, NEW e \in S
    PROVE  <<e>> \in Seq(S) /\ Len(<<e>>) = 1 /\ <<e>>[1] = e
  OBVIOUS

(* The function that FlattenSeq chooses exists: what is there up to n can  *)
(* be continued to n + 1.                                                  *)
Joined(ss, n, g) == g = [k \in 1 .. n |-> IF k = 1 THEN ss[k] ELSE g[k - 1] \o ss[k]]

LEMMA JoinedExists ==
    ASSUME NEW ss, NEW n \in Nat
    PROVE  \E g : Joined(ss, n, g)
<1> DEFINE N == {k \in Nat : \E g : Joined(ss, k, g)}
<1>1. 0 \in N
  <2>1. Joined(ss, 0, [k \in 1 .. 0 |-> << >>])
    BY DEF Joined
  <2> QED BY <2>1
<1>2. ASSUME NEW m \in Nat, m \in N PROVE m + 1 \in N
  <2>1. PICK g : Joined(ss, m, g)
    BY <1>2
  <2> DEFINE next == IF m = 0 THEN ss[1] ELSE g[m] \o ss[m + 1]
             h == [k \in 1 .. m + 1 |-> IF k <= m THEN g[k] ELSE next]
  <2>2. ASSUME NEW k \in 1 .. m + 1
        PROVE  h[k] = IF k = 1 THEN ss[k] ELSE h[k - 1] \o ss[k]
    <3>1. CASE k = m + 1
      <4>1. m # 0 => k # 1 /\ h[k - 1] = g[m]
        BY <3>1
      <4> QED BY <3>1, <4>1
    <3>2. CASE k <= m
      <4>1. g[k] = IF k = 1 THEN ss[k] ELSE g[k - 1] \o ss[k]
        <5>1. k \in 1 .. m
          BY <3>2
        <5> QED BY <2>1, <5>1 DEF Joined
      <4>2. k # 1 => h[k - 1] = g[k - 1]
        BY <3>2
      <4>3. h[k] = g[k]
        BY <3>2
      <4> HIDE DEF h
      <4> QED BY <4>1, <4>2, <4>3
    <3> QED BY <3>1, <3>2
  <2>3. h = [k \in 1 .. m + 1 |-> h[k]]
    OBVIOUS
  <2>4. Joined(ss, m + 1, h)
    <3> HIDE DEF h
    <3> QED BY <2>2, <2>3 DEF Joined
  <2> QED BY <2>4
<1> QED
  <2>1. n \in N
    <3> HIDE DEF N
    <3> QED BY <1>1, <1>2, UpFromZero
  <2> QED BY <2>1

(***************************************************************************)
(* The sequence s lists the values v[x] of the elements x of A: each is at *)
(* a place of its own, at[x], and there is nothing else in s.              *)
(***************************************************************************)
Lists(s, A, v, at) ==
    /\ \A x \in A : at[x] \in 1 .. Len(s) /\ s[at[x]] = v[x]
    /\ \A m \in 1 .. Len(s) : \E x \in A : at[x] = m
    /\ \A x, y \in A : at[x] = at[y] => x = y

LEMMA ListsMore ==
    ASSUME NEW S, NEW s \in Seq(S), NEW t \in Seq(S), NEW A, NEW B, NEW v, NEW at, NEW j,
           Lists(s, A, v, at), Lists(t, B, v, j), \A x \in B : at[x] = Len(s) + j[x]
    PROVE  Lists(s \o t, A \cup B, v, at)
<1> DEFINE u == s \o t
<1>1. Len(s) \in Nat /\ Len(t) \in Nat /\ Len(u) = Len(s) + Len(t)
  OBVIOUS
<1>2. \A m \in 1 .. Len(s) : u[m] = s[m]
  OBVIOUS
<1>3. \A m \in 1 .. Len(t) : u[Len(s) + m] = t[m]
  OBVIOUS
<1> HIDE DEF u
<1>4. ASSUME NEW x \in A PROVE at[x] \in 1 .. Len(s) /\ u[at[x]] = v[x]
  BY <1>2 DEF Lists
<1>5. ASSUME NEW x \in B
      PROVE  at[x] \in Len(s) + 1 .. Len(s) + Len(t) /\ u[at[x]] = v[x]
  <2>1. j[x] \in 1 .. Len(t) /\ t[j[x]] = v[x] /\ at[x] = Len(s) + j[x]
    BY DEF Lists
  <2>2. u[Len(s) + j[x]] = t[j[x]]
    BY <1>3, <2>1
  <2> QED BY <1>1, <2>1, <2>2
<1>6. \A x \in A \cup B : at[x] \in 1 .. Len(u) /\ u[at[x]] = v[x]
  BY <1>1, <1>4, <1>5
<1>7. ASSUME NEW m \in 1 .. Len(u) PROVE \E x \in A \cup B : at[x] = m
  <2>1. CASE m <= Len(s)
    BY <1>1, <2>1 DEF Lists
  <2>2. CASE m > Len(s)
    <3>1. m - Len(s) \in 1 .. Len(t)
      BY <1>1, <2>2
    <3>2. PICK x \in B : j[x] = m - Len(s)
      BY <3>1 DEF Lists
    <3>3. at[x] = Len(s) + (m - Len(s))
      BY <3>2
    <3> QED BY <1>1, <3>3
  <2> QED BY <1>1, <2>1, <2>2
<1>8. ASSUME NEW x \in A \cup B, NEW y \in A \cup B, at[x] = at[y] PROVE x = y
  <2>1. CASE x \in A /\ y \in A
    BY <1>8, <2>1 DEF Lists
  <2>2. CASE x \in B /\ y \in B
    <3>1. j[x] \in 1 .. Len(t) /\ j[y] \in 1 .. Len(t) /\ Len(s) + j[x] = Len(s) + j[y]
      BY <1>8, <2>2 DEF Lists
    <3>2. j[x] = j[y]
      BY <1>1, <3>1
    <3> QED BY <2>2, <3>2 DEF Lists
  <2>3. ASSUME NEW a \in A, NEW b \in B PROVE at[a] # at[b]
    BY <1>1, <1>4, <1>5
  <2> QED BY <1>8, <2>1, <2>2, <2>3
<1> QED BY <1>6, <1>7, <1>8 DEF Lists, u

(* The elements of A by other names, those of B, one to one. *)
Renames(b, B, w, A, v) ==
    /\ \A x \in B : b[x] \in A /\ w[x] = v[b[x]]
    /\ \A x, y \in B : b[x] = b[y] => x = y
    /\ \A a \in A : \E x \in B : b[x] = a

LEMMA ListsAlso ==
    ASSUME NEW s, NEW A, NEW v, NEW at, Lists(s, A, v, at),
           NEW B, NEW w, NEW b, Renames(b, B, w, A, v)
    PROVE  \E h : Lists(s, B, w, h)
<1> DEFINE h == [x \in B |-> at[b[x]]]
<1>1. Lists(s, B, w, h)
  <2>1. \A x \in B : h[x] = at[b[x]]
    OBVIOUS
  <2> HIDE DEF h
  <2>2. \A x \in B : h[x] \in 1 .. Len(s) /\ s[h[x]] = w[x]
    BY <2>1 DEF Lists, Renames
  <2>3. \A m \in 1 .. Len(s) : \E x \in B : h[x] = m
    BY <2>1 DEF Lists, Renames
  <2>4. \A x, y \in B : h[x] = h[y] => x = y
    BY <2>1 DEF Lists, Renames
  <2> QED BY <2>2, <2>3, <2>4 DEF Lists
<1> QED BY <1>1

(***************************************************************************)
(* The place of an element: which sequence it is in, and where.            *)
(***************************************************************************)
Upto(ss, n) == {p \in (1 .. n) \X Nat : p[2] \in 1 .. Len(ss[p[1]])}
Row(ss, k) == {p \in Upto(ss, k) : p[1] = k}
Column(ss, k) == [p \in Row(ss, k) |-> p[2]]
Places(ss) == Upto(ss, Len(ss))
Element(ss) == [p \in Places(ss) |-> ss[p[1]][p[2]]]

LEMMA JoinedLists ==
    ASSUME NEW S, NEW ss, NEW n \in Nat, n # 0, \A k \in 1 .. n : ss[k] \in Seq(S),
           NEW v, \A p \in Upto(ss, n) : v[p] = ss[p[1]][p[2]],
           NEW f, Joined(ss, n, f)
    PROVE  f[n] \in Seq(S) /\ \E at : Lists(f[n], Upto(ss, n), v, at)
<1>1. f[1] = ss[1]
  <2>1. 1 \in 1 .. n
    OBVIOUS
  <2> QED BY <2>1 DEF Joined
<1>2. ASSUME NEW k \in 1 .. n, k # 1 PROVE f[k] = f[k - 1] \o ss[k]
  BY <1>2 DEF Joined
<1>3. \A k \in 1 .. n : \A p : p \in Upto(ss, k) <=> /\ p = <<p[1], p[2]>> /\ p[1] \in 1 .. k
                                      /\ p[2] \in 1 .. Len(ss[p[1]])
  BY DEF Upto
<1>4. \A k \in 1 .. n : Upto(ss, k) \subseteq Upto(ss, n)
  BY DEF Upto
<1> DEFINE Before(k) == IF k = 1 THEN 0 ELSE Len(f[k - 1])
           at == [p \in Upto(ss, n) |-> Before(p[1]) + p[2]]
           Goods == {k \in Nat : k + 1 <= n => f[k + 1] \in Seq(S) /\ Lists(f[k + 1], Upto(ss, k + 1), v, at)}
<1>5. ASSUME NEW k \in 1 .. n PROVE Lists(ss[k], Row(ss, k), v, Column(ss, k))
  <2> DEFINE B == Row(ss, k)
             j == Column(ss, k)
  <2>1. \A p \in B : p \in Upto(ss, n) /\ p = <<k, p[2]>> /\ j[p] = p[2] /\ p[2] \in 1 .. Len(ss[k])
    BY <1>3, <1>4 DEF Row, Column
  <2>2. \A m \in 1 .. Len(ss[k]) : <<k, m>> \in B /\ j[<<k, m>>] = m
    BY <1>3 DEF Row, Column
  <2> HIDE DEF B, j
  <2>3. \A p \in B : j[p] \in 1 .. Len(ss[k]) /\ v[p] = ss[k][j[p]]
    BY <2>1
  <2>4. \A p, q \in B : j[p] = j[q] => p = q
    BY <2>1
  <2>5. Lists(ss[k], B, v, j)
    BY <2>2, <2>3, <2>4 DEF Lists
  <2> QED BY <2>5 DEF B, j
<1>6. 0 \in Goods
  <2>1. \A p \in Upto(ss, 1) : p \in Row(ss, 1) /\ at[p] = Column(ss, 1)[p]
    BY <1>3, <1>4 DEF Row, Column
  <2>2. Row(ss, 1) \subseteq Upto(ss, 1)
    BY DEF Row
  <2>3. Lists(ss[1], Row(ss, 1), v, Column(ss, 1))
    BY <1>5
  <2> HIDE DEF at
  <2>4. Lists(ss[1], Upto(ss, 1), v, at)
    BY <2>1, <2>2, <2>3 DEF Lists
  <2>5. f[1] \in Seq(S) /\ Lists(f[1], Upto(ss, 1), v, at)
    BY <1>1, <2>4
  <2> QED BY <2>5
<1>7. ASSUME NEW k \in Nat, k \in Goods PROVE k + 1 \in Goods
  <2> SUFFICES ASSUME NEW c \in 1 .. n, NEW d \in 1 .. n, d = c + 1,
                      f[c] \in Seq(S), Lists(f[c], Upto(ss, c), v, at)
               PROVE  f[d] \in Seq(S) /\ Lists(f[d], Upto(ss, d), v, at)
    <3> HIDE DEF at
    <3>1. SUFFICES ASSUME k + 2 <= n
                   PROVE  f[k + 2] \in Seq(S) /\ Lists(f[k + 2], Upto(ss, k + 2), v, at)
      OBVIOUS
    <3>2. k + 1 \in 1 .. n /\ k + 2 \in 1 .. n /\ k + 2 = (k + 1) + 1 /\ k + 1 <= n
      BY <3>1
    <3>3. f[k + 1] \in Seq(S) /\ Lists(f[k + 1], Upto(ss, k + 1), v, at)
      BY <1>7, <3>2
    <3> QED BY <3>2, <3>3
  <2>0. d # 1 /\ d - 1 = c
    OBVIOUS
  <2>1. \A p \in Row(ss, d) : at[p] = Len(f[c]) + Column(ss, d)[p]
    BY <1>4, <2>0 DEF Row, Column
  <2>2. Upto(ss, d) = Upto(ss, c) \cup Row(ss, d)
    <3>1. \A p \in Upto(ss, d) : p[1] <= c \/ p[1] = d
      BY <1>3
    <3>2. \A p \in Upto(ss, d) : p[1] <= c => p \in Upto(ss, c)
      BY <1>3
    <3>3. Upto(ss, c) \subseteq Upto(ss, d)
      BY <1>3
    <3> QED BY <3>1, <3>2, <3>3 DEF Row
  <2>3. Lists(ss[d], Row(ss, d), v, Column(ss, d))
    BY <1>5
  <2> HIDE DEF at
  <2>4. Lists(f[c] \o ss[d], Upto(ss, d), v, at)
    BY <2>1, <2>2, <2>3, ListsMore
  <2>5. f[d] = f[c] \o ss[d]
    BY <1>2, <2>0
  <2>6. f[c] \o ss[d] \in Seq(S)
    <3>1. \A x, y \in Seq(S) : x \o y \in Seq(S)
      OBVIOUS
    <3> QED BY <3>1
  <2> QED BY <2>4, <2>5, <2>6
<1>8. \A k \in Nat : k \in Goods
  <2> HIDE DEF Goods
  <2> QED BY <1>6, <1>7, UpFromZero
<1>9. n - 1 \in Nat /\ (n - 1) + 1 <= n /\ (n - 1) + 1 = n
  OBVIOUS
<1> HIDE DEF at
<1> QED BY <1>8, <1>9

LEMMA Flattened ==
    ASSUME NEW S, NEW ss \in Seq(Seq(S))
    PROVE  /\ FlattenSeq(ss) \in Seq(S)
           /\ \E at : Lists(FlattenSeq(ss), Places(ss), Element(ss), at)
<1>1. CASE ss = << >>
  <2>1. FlattenSeq(ss) = << >>
    BY <1>1 DEF FlattenSeq
  <2>2. Places(ss) = {}
    <3>1. Len(ss) = 0 /\ 1 .. 0 = {}
      BY <1>1
    <3> QED BY <3>1 DEF Places, Upto
  <2>3. Lists(<< >>, {}, Element(ss), [p \in {} |-> p])
    BY DEF Lists
  <2> QED BY <2>1, <2>2, <2>3
<1>2. CASE ss # << >>
  <2>1. PICK n \in Nat : n = Len(ss) /\ n # 0
    BY <1>2
  <2>2. PICK g : Joined(ss, n, g)
    BY JoinedExists
  <2>3. FlattenSeq(ss) = (CHOOSE f : Joined(ss, n, f))[n]
    BY <2>1 DEF FlattenSeq, Joined
  <2>4. PICK f : FlattenSeq(ss) = f[n] /\ Joined(ss, n, f)
    BY <2>2, <2>3
  <2>5. \A k \in 1 .. n : ss[k] \in Seq(S)
    BY <2>1
  <2>6. \A p \in Upto(ss, n) : Element(ss)[p] = ss[p[1]][p[2]]
    BY <2>1 DEF Element, Places
  <2>7. f[n] \in Seq(S) /\ \E at : Lists(f[n], Upto(ss, n), Element(ss), at)
    BY <2>1, <2>4, <2>5, <2>6, JoinedLists
  <2> QED
    BY <2>1, <2>4, <2>7 DEF Places
<1> QED BY <1>1, <1>2

(* Sequences that list elements, joined, list pairs: which, and of which.  *)
EachLists(ss, A, v) == \A k \in 1 .. Len(ss) : \E at : Lists(ss[k], A[k], v[k], at)
Paired(B, w, n, A, v) ==
    /\ \A p : p \in B <=> p = <<p[1], p[2]>> /\ p[1] \in 1 .. n /\ p[2] \in A[p[1]]
    /\ \A p \in B : w[p] = v[p[1]][p[2]]

LEMMA FlattenedLists ==
    ASSUME NEW S, NEW ss \in Seq(Seq(S)), NEW A, NEW v, EachLists(ss, A, v),
           NEW B, NEW w, Paired(B, w, Len(ss), A, v)
    PROVE  FlattenSeq(ss) \in Seq(S) /\ \E h : Lists(FlattenSeq(ss), B, w, h)
<1>1. FlattenSeq(ss) \in Seq(S)
  BY Flattened
<1>2. PICK h : Lists(FlattenSeq(ss), Places(ss), Element(ss), h)
  BY Flattened
<1> DEFINE at == [k \in 1 .. Len(ss) |-> CHOOSE t : Lists(ss[k], A[k], v[k], t)]
           b == [p \in B |-> <<p[1], at[p[1]][p[2]]>>]
<1>3. ASSUME NEW k \in 1 .. Len(ss) PROVE Lists(ss[k], A[k], v[k], at[k])
  BY DEF EachLists
<1>3a. /\ \A p : p \in B <=> p = <<p[1], p[2]>> /\ p[1] \in 1 .. Len(ss) /\ p[2] \in A[p[1]]
       /\ \A p \in B : w[p] = v[p[1]][p[2]]
  BY DEF Paired
<1> HIDE DEF at
<1>4. ASSUME NEW p \in B PROVE b[p] \in Places(ss) /\ w[p] = Element(ss)[b[p]]
  <2>1. /\ p[1] \in 1 .. Len(ss) /\ b[p][1] = p[1] /\ b[p][2] = at[p[1]][p[2]]
        /\ b[p] = <<b[p][1], b[p][2]>>
    BY <1>3a
  <2>2. b[p][2] \in 1 .. Len(ss[p[1]]) /\ ss[p[1]][b[p][2]] = w[p]
    <3>1. Lists(ss[p[1]], A[p[1]], v[p[1]], at[p[1]]) /\ p[2] \in A[p[1]]
      BY <1>3, <1>3a, <2>1
    <3>2. /\ at[p[1]][p[2]] \in 1 .. Len(ss[p[1]])
          /\ ss[p[1]][at[p[1]][p[2]]] = v[p[1]][p[2]]
      BY <3>1 DEF Lists
    <3> HIDE DEF b
    <3> QED BY <1>3a, <2>1, <3>2
  <2>3. 1 .. Len(ss[p[1]]) \subseteq Nat
    OBVIOUS
  <2> HIDE DEF b
  <2>4. b[p] \in Places(ss)
    BY <2>1, <2>2, <2>3 DEF Places, Upto
  <2> QED BY <2>1, <2>2, <2>4 DEF Element
<1>5. ASSUME NEW p \in B, NEW q \in B, b[p] = b[q] PROVE p = q
  <2>1. p[1] = q[1] /\ at[p[1]][p[2]] = at[p[1]][q[2]] /\ p[1] \in 1 .. Len(ss)
    BY <1>3a, <1>5
  <2>2. p[2] = q[2]
    <3>1. Lists(ss[p[1]], A[p[1]], v[p[1]], at[p[1]]) /\ p[2] \in A[p[1]] /\ q[2] \in A[p[1]]
      BY <1>3, <1>3a, <2>1
    <3> HIDE DEF b
    <3> QED BY <2>1, <3>1 DEF Lists
  <2>3. p = <<p[1], p[2]>> /\ q = <<q[1], q[2]>>
    BY <1>3a
  <2> QED BY <2>1, <2>2, <2>3
<1>6. ASSUME NEW c \in Places(ss) PROVE \E p \in B : b[p] = c
  <2>1. c = <<c[1], c[2]>> /\ c[1] \in 1 .. Len(ss) /\ c[2] \in 1 .. Len(ss[c[1]])
    BY DEF Places, Upto
  <2>2. PICK x \in A[c[1]] : at[c[1]][x] = c[2]
    BY <1>3, <2>1 DEF Lists
  <2> DEFINE p == <<c[1], x>>
  <2>3. p[1] = c[1] /\ p[2] = x /\ p = <<p[1], p[2]>>
    OBVIOUS
  <2> HIDE DEF p
  <2>4. p \in B
    BY <1>3a, <2>1, <2>2, <2>3
  <2> QED BY <2>1, <2>2, <2>3, <2>4
<1> HIDE DEF b
<1>7. Renames(b, B, w, Places(ss), Element(ss))
  BY <1>4, <1>5, <1>6 DEF Renames
<1>10. \E t : Lists(FlattenSeq(ss), B, w, t)
  BY <1>2, <1>7, ListsAlso
<1> QED BY <1>1, <1>10

-----------------------------------------------------------------------------
(* cartesian_product. *)

Value == STRING \cup {"None"}
Pair == STRING \X Value

(* What the first k parameters allow. *)
Combos(specs, k) ==
    {c \in [1 .. k -> Pair] :
        \A s \in 1 .. k : c[s][1] = specs[s].name /\ c[s][2] \in ToSet(Values(specs[s]))}
Itself(A) == [c \in A |-> c]

Distinct(specs) ==
    \A s \in DOMAIN specs :
        IsInjective(specs[s].values) /\ \A j \in DOMAIN specs[s].values : specs[s].values[j] # "None"

LEMMA ValuesOf ==
    ASSUME NEW spec \in Param, IsInjective(spec.values),
           \A j \in DOMAIN spec.values : spec.values[j] # "None"
    PROVE  /\ Values(spec) \in Seq(Value) /\ IsInjective(Values(spec))
           /\ ToSet(Values(spec)) =
                 ToSet(spec.values) \cup (IF spec.optional THEN {"None"} ELSE {})
<1> DEFINE v == spec.values
<1>1. v \in Seq(Value) /\ spec.optional \in BOOLEAN
  <2>1. v \in Seq(STRING) /\ spec.optional \in BOOLEAN
    BY DEF Param
  <2>2. \A u \in Seq(STRING) : u \in Seq(Value)
    BY DEF Value
  <2> QED BY <2>1, <2>2
<1>2. CASE ~spec.optional
  <2>1. Values(spec) = v
    BY <1>1, <1>2 DEF Values
  <2> QED BY <1>1, <1>2, <2>1
<1>3. CASE spec.optional
  <2>1. Values(spec) = <<"None">> \o v
    BY <1>3 DEF Values
  <2> HIDE DEF v
  <2>2. PICK o : o = <<"None">> /\ o \in Seq(Value) /\ Len(o) = 1 /\ o[1] = "None"
    <3>1. <<"None">> \in Seq(Value) /\ Len(<<"None">>) = 1 /\ <<"None">>[1] = "None"
      <4>1. "None" \in Value
        BY DEF Value
      <4> QED BY <4>1, Single
    <3> QED BY <3>1
  <2>3. PICK u : u = Values(spec) /\ u = o \o v
    BY <2>1, <2>2
  <2>4. /\ u \in Seq(Value) /\ Len(u) = Len(v) + 1 /\ u[1] = "None"
        /\ \A j \in 1 .. Len(v) : u[j + 1] = v[j]
    <3>1. Len(v) \in Nat
      BY <1>1
    <3>2. u \in Seq(Value) /\ Len(u) = 1 + Len(v)
      BY <1>1, <2>2, <2>3, Concat
    <3>3. u[1] = o[1]
      BY <1>1, <2>2, <2>3, Concat
    <3>4. \A j \in 1 .. Len(v) : u[1 + j] = v[j]
      BY <1>1, <2>2, <2>3, Concat
    <3> QED BY <2>2, <3>1, <3>2, <3>3, <3>4
  <2>5. DOMAIN u = 1 .. Len(v) + 1 /\ DOMAIN v = 1 .. Len(v) /\ Len(v) \in Nat
    BY <1>1, <2>4
  <2>6. \A k \in DOMAIN u : k # 1 => k - 1 \in DOMAIN v /\ u[k] = v[k - 1]
    BY <2>4, <2>5
  <2>7. IsInjective(u)
    BY <2>4, <2>5, <2>6 DEF IsInjective, v
  <2>8. ToSet(u) = ToSet(v) \cup {"None"}
    BY <2>4, <2>5, <2>6 DEF ToSet
  <2> QED BY <1>3, <2>3, <2>4, <2>7, <2>8 DEF v
<1> QED BY <1>1, <1>2, <1>3

(***************************************************************************)
(* The combinations of one parameter more: every combination so far, by    *)
(* its place, with every value, by its place.                              *)
(***************************************************************************)
LEMMA Continues ==
    ASSUME NEW specs \in Seq(Param), Distinct(specs), NEW k \in Nat, k + 1 \in DOMAIN specs,
           NEW r \in Seq(Seq(Pair)), NEW at, Lists(r, Combos(specs, k), Itself(Combos(specs, k)), at)
    PROVE  /\ Continue(r, specs[k + 1]) \in Seq(Seq(Pair))
           /\ \E h : Lists(Continue(r, specs[k + 1]), Combos(specs, k + 1),
                           Itself(Combos(specs, k + 1)), h)
<1> DEFINE A == Combos(specs, k)
           B == Combos(specs, k + 1)
           name == specs[k + 1].name
           vals == Values(specs[k + 1])
           mm == [c \in DOMAIN r |-> [j \in DOMAIN vals |-> Append(r[c], <<name, vals[j]>>)]]
           F == FlattenSeq(mm)
           front(c) == [s \in 1 .. k |-> c[s]]
           place(x) == CHOOSE j \in DOMAIN vals : vals[j] = x
           b == [c \in B |-> <<at[front(c)], place(c[k + 1][2])>>]
<1>1. F = Continue(r, specs[k + 1])
  BY DEF Continue
<1>2. name \in STRING /\ vals \in Seq(Value) /\ IsInjective(vals)
  <2>1. specs[k + 1] \in Param /\ IsInjective(specs[k + 1].values)
        /\ \A j \in DOMAIN specs[k + 1].values : specs[k + 1].values[j] # "None"
    BY DEF Distinct
  <2>2. specs[k + 1].name \in STRING
    BY <2>1 DEF Param
  <2> QED BY <2>1, <2>2, ValuesOf
<1>3. \A c \in B : /\ c \in [1 .. k + 1 -> Pair] /\ c[k + 1] = <<name, c[k + 1][2]>>
                   /\ c[k + 1][2] \in ToSet(vals) /\ front(c) \in A
  <2> SUFFICES ASSUME NEW c \in B
               PROVE  /\ c \in [1 .. k + 1 -> Pair] /\ c[k + 1] = <<name, c[k + 1][2]>>
                      /\ c[k + 1][2] \in ToSet(vals) /\ front(c) \in A
    OBVIOUS
  <2>1. c \in [1 .. k + 1 -> Pair]
    BY DEF Combos
  <2>2. \A s \in 1 .. k + 1 : c[s][1] = specs[s].name /\ c[s][2] \in ToSet(Values(specs[s]))
    BY DEF Combos
  <2>3. k + 1 \in 1 .. k + 1 /\ 1 .. k \subseteq 1 .. k + 1
    OBVIOUS
  <2>4. c[k + 1] \in Pair
    BY <2>1, <2>3
  <2>5. c[k + 1] = <<c[k + 1][1], c[k + 1][2]>>
    BY <2>4 DEF Pair
  <2>6. front(c) \in [1 .. k -> Pair] /\ \A s \in 1 .. k : front(c)[s] = c[s]
    BY <2>1, <2>3
  <2> HIDE DEF front
  <2>7. front(c) \in A
    BY <2>2, <2>3, <2>6 DEF Combos
  <2> QED BY <2>1, <2>2, <2>3, <2>5, <2>7
<1>4. \A x \in ToSet(vals) : place(x) \in DOMAIN vals /\ vals[place(x)] = x
  BY DEF ToSet
<1>5. \A j \in DOMAIN vals : place(vals[j]) = j /\ vals[j] \in ToSet(vals)
  BY <1>2 DEF ToSet, IsInjective
<1>6. ASSUME NEW a \in A, NEW x \in ToSet(vals)
      PROVE  /\ Append(a, <<name, x>>) \in B /\ Append(a, <<name, x>>)[k + 1] = <<name, x>>
             /\ front(Append(a, <<name, x>>)) = a
  <2>1. a \in [1 .. k -> Pair] /\ a \in Seq(Pair) /\ Len(a) = k
    BY DEF Combos
  <2>2. x \in Value
    <3>1. PICK j \in DOMAIN vals : vals[j] = x
      BY DEF ToSet
    <3> QED BY <1>2, <3>1
  <2> DEFINE e == <<name, x>>
  <2>3. e \in Pair /\ e[1] = name /\ e[2] = x
    BY <1>2, <2>2 DEF Pair
  <2> HIDE DEF e
  <2> DEFINE c == Append(a, e)
  <2>4. c \in [1 .. k + 1 -> Pair] /\ c[k + 1] = e /\ \A s \in 1 .. k : c[s] = a[s]
    <3>1. c \in Seq(Pair) /\ Len(c) = k + 1 /\ c[k + 1] = e /\ \A s \in 1 .. k : c[s] = a[s]
      BY <2>1, <2>3, AppendProperties
    <3>2. \A z \in Seq(Pair) : z \in [1 .. Len(z) -> Pair]
      OBVIOUS
    <3> HIDE DEF c
    <3> QED BY <3>1, <3>2
  <2> HIDE DEF c
  <2>5. \A s \in 1 .. k : a[s][1] = specs[s].name /\ a[s][2] \in ToSet(Values(specs[s]))
    BY DEF Combos
  <2>6. \A s \in 1 .. k + 1 : s \in 1 .. k \/ s = k + 1
    OBVIOUS
  <2>7. c \in B
    BY <2>3, <2>4, <2>5, <2>6 DEF Combos
  <2>8. front(c) = a
    BY <2>1, <2>4
  <2> QED BY <2>4, <2>7, <2>8 DEF c, e
<1>7. ASSUME NEW c \in B PROVE c = Append(front(c), <<name, c[k + 1][2]>>)
  <2>1. c \in [1 .. k + 1 -> Pair] /\ c[k + 1] = <<name, c[k + 1][2]>>
    BY <1>3
  <2>2. front(c) \in Seq(Pair) /\ Len(front(c)) = k /\ \A s \in 1 .. k : front(c)[s] = c[s]
    BY <2>1
  <2> HIDE DEF front
  <2>3. PICK d : d = Append(front(c), c[k + 1])
    OBVIOUS
  <2>4. c[k + 1] \in Pair
    BY <2>1
  <2>5. d \in Seq(Pair) /\ Len(d) = k + 1 /\ d[k + 1] = c[k + 1] /\ \A s \in 1 .. k : d[s] = c[s]
    BY <2>2, <2>3, <2>4, AppendProperties
  <2>6. d = c
    BY <2>1, <2>5
  <2> QED BY <2>1, <2>3, <2>6
<1> HIDE DEF front, place
<1>8. /\ \A c \in A : at[c] \in 1 .. Len(r) /\ r[at[c]] = c
      /\ \A m \in 1 .. Len(r) : \E c \in A : at[c] = m
      /\ \A c, d \in A : at[c] = at[d] => c = d
  BY DEF Lists, Itself
<1>9. /\ DOMAIN mm = 1 .. Len(r) /\ Len(mm) = Len(r)
      /\ \A c \in 1 .. Len(r) : /\ mm[c] \in Seq(Seq(Pair)) /\ Len(mm[c]) = Len(vals)
                                /\ \A j \in 1 .. Len(vals) : mm[c][j] = Append(r[c], <<name, vals[j]>>)
  <2>1. DOMAIN vals = 1 .. Len(vals) /\ Len(vals) \in Nat /\ Len(r) \in Nat /\ DOMAIN r = 1 .. Len(r)
    BY <1>2
  <2>2. \A j \in DOMAIN vals : <<name, vals[j]>> \in Pair
    BY <1>2 DEF Pair
  <2> HIDE DEF name, vals
  <2>3. ASSUME NEW c \in 1 .. Len(r)
        PROVE  [j \in DOMAIN vals |-> Append(r[c], <<name, vals[j]>>)] \in Seq(Seq(Pair))
    <3>1. \A j \in 1 .. Len(vals) : Append(r[c], <<name, vals[j]>>) \in Seq(Pair)
      BY <2>1, <2>2, AppendProperties
    <3> QED BY <2>1, <3>1
  <2>4. \A c \in 1 .. Len(r) : mm[c] = [j \in DOMAIN vals |-> Append(r[c], <<name, vals[j]>>)]
    BY <2>1
  <2> QED BY <2>1, <2>3, <2>4
<1>10. mm \in Seq(Seq(Seq(Pair)))
  <2> HIDE DEF mm
  <2>1. mm = [c \in 1 .. Len(r) |-> mm[c]] /\ Len(r) \in Nat
    BY <1>9 DEF mm
  <2> QED BY <1>9, <2>1
<1> HIDE DEF mm
<1>11. PICK h : F \in Seq(Seq(Pair)) /\ Lists(F, Places(mm), Element(mm), h)
  BY <1>10, Flattened
<1>12. ASSUME NEW c \in B PROVE b[c] \in Places(mm) /\ Element(mm)[b[c]] = c
  <2>1. PICK m, j : /\ b[c] = <<m, j>> /\ m \in 1 .. Len(r) /\ r[m] = front(c)
                    /\ j \in 1 .. Len(vals) /\ vals[j] = c[k + 1][2]
    BY <1>2, <1>3, <1>4, <1>8
  <2> HIDE DEF b, vals, name
  <2>2. m \in 1 .. Len(mm) /\ j \in Nat /\ j \in 1 .. Len(mm[m]) /\ mm[m][j] = c
    <3>1. m \in 1 .. Len(mm) /\ j \in Nat /\ j \in 1 .. Len(mm[m])
      BY <1>9, <2>1
    <3>2. mm[m][j] = Append(r[m], <<name, vals[j]>>)
      BY <1>9, <2>1
    <3>3. Append(r[m], <<name, vals[j]>>) = c
      BY <1>7, <2>1
    <3> QED BY <3>1, <3>2, <3>3
  <2>3. <<m, j>> \in Places(mm)
    BY <2>2 DEF Places, Upto
  <2> QED BY <2>1, <2>2, <2>3 DEF Element
<1>13. ASSUME NEW p \in Places(mm) PROVE \E c \in B : b[c] = p
  <2>1. PICK m, j : /\ p = <<m, j>> /\ m \in 1 .. Len(r) /\ j \in 1 .. Len(vals)
    BY <1>9 DEF Places, Upto
  <2>2. PICK a \in A : at[a] = m
    BY <1>8, <2>1
  <2>3. vals[j] \in ToSet(vals) /\ place(vals[j]) = j
    BY <1>2, <1>5, <2>1
  <2>4. PICK c \in B : c[k + 1][2] = vals[j] /\ front(c) = a
    <3> DEFINE c == Append(a, <<name, vals[j]>>)
    <3>1. c \in B /\ c[k + 1] = <<name, vals[j]>> /\ front(c) = a
      BY <1>6, <2>3
    <3>2. <<name, vals[j]>>[2] = vals[j]
      OBVIOUS
    <3> HIDE DEF c
    <3> QED BY <3>1, <3>2
  <2> QED BY <2>1, <2>2, <2>3, <2>4
<1> HIDE DEF b, A, B
<1>14. Renames(b, B, Itself(B), Places(mm), Element(mm))
  BY <1>12, <1>13 DEF Renames, Itself
<1> HIDE DEF F
<1>15. \E t : Lists(F, B, Itself(B), t)
  BY <1>11, <1>14, ListsAlso
<1> QED BY <1>1, <1>11, <1>15 DEF B

(* The function that FoldLeft chooses exists: sets of indices are folded   *)
(* by their greatest, so what is there for 1..n can be continued.          *)
Folded(specs, n, it) ==
    it = [s \in SUBSET (1 .. n) |->
            IF s = {} THEN << << >> >> ELSE Continue(it[s \ {Max(s)}], specs[Max(s)])]

LEMMA FoldedExists ==
    ASSUME NEW specs, NEW n \in Nat
    PROVE  \E it : Folded(specs, n, it)
<1> DEFINE N == {k \in Nat : \E it : Folded(specs, k, it)}
<1>1. 0 \in N
  <2> DEFINE it == [s \in SUBSET (1 .. 0) |-> << << >> >>]
  <2>1. \A s \in SUBSET (1 .. 0) : s = {}
    OBVIOUS
  <2>2. Folded(specs, 0, it)
    BY <2>1 DEF Folded
  <2> QED BY <2>2
<1>2. ASSUME NEW m \in Nat, m \in N PROVE m + 1 \in N
  <2>1. PICK g : Folded(specs, m, g)
    BY <1>2
  <2> DEFINE rest(s) == Continue(g[s \ {m + 1}], specs[m + 1])
             h == [s \in SUBSET (1 .. m + 1) |-> IF m + 1 \in s THEN rest(s) ELSE g[s]]
  <2>2. ASSUME NEW s \in SUBSET (1 .. m + 1)
        PROVE  h[s] = IF s = {} THEN << << >> >> ELSE Continue(h[s \ {Max(s)}], specs[Max(s)])
    <3>1. CASE m + 1 \in s
      <4>1. Max(s) \in s /\ \A y \in s : y <= Max(s)
        BY <3>1, MaxIsThere, m + 1 \in Nat
      <4>2. Max(s) = m + 1
        <5>1. Max(s) \in 1 .. m + 1 /\ m + 1 <= Max(s)
          BY <3>1, <4>1
        <5> QED BY <5>1
      <4>3. h[s] = rest(s)
        BY <3>1
      <4>4. s \ {m + 1} \in SUBSET (1 .. m + 1) /\ m + 1 \notin s \ {m + 1}
        OBVIOUS
      <4>5. h[s \ {m + 1}] = g[s \ {m + 1}]
        BY <4>4
      <4> HIDE DEF h
      <4> QED BY <3>1, <4>2, <4>3, <4>5
    <3>2. CASE m + 1 \notin s
      <4>1. s \in SUBSET (1 .. m) /\ h[s] = g[s]
        BY <3>2
      <4>2. g[s] = IF s = {} THEN << << >> >> ELSE Continue(g[s \ {Max(s)}], specs[Max(s)])
        BY <2>1, <4>1 DEF Folded
      <4>3. m + 1 \notin s \ {Max(s)} /\ s \ {Max(s)} \in SUBSET (1 .. m + 1)
        BY <3>2
      <4>4. h[s \ {Max(s)}] = g[s \ {Max(s)}]
        BY <4>3
      <4> HIDE DEF h
      <4> QED BY <4>1, <4>2, <4>4
    <3> QED BY <3>1, <3>2
  <2>3. h = [s \in SUBSET (1 .. m + 1) |-> h[s]]
    OBVIOUS
  <2>4. Folded(specs, m + 1, h)
    <3> HIDE DEF h
    <3> QED BY <2>2, <2>3 DEF Folded
  <2> QED BY <2>4
<1> QED
  <2>1. n \in N
    <3> HIDE DEF N
    <3> QED BY <1>1, <1>2, UpFromZero
  <2> QED BY <2>1

LEMMA ProductLists ==
    ASSUME NEW specs \in Seq(Param), Distinct(specs)
    PROVE  /\ cartesian_product(specs) \in Seq(Seq(Pair))
           /\ \E at : Lists(cartesian_product(specs), Combos(specs, Len(specs)),
                            Itself(Combos(specs, Len(specs))), at)
<1>1. PICK n \in Nat : n = Len(specs) /\ DOMAIN specs = 1 .. n
  OBVIOUS
<1>2. PICK g : Folded(specs, n, g)
  BY FoldedExists
<1>3. cartesian_product(specs) = (CHOOSE it : Folded(specs, n, it))[1 .. n]
  BY <1>1 DEF cartesian_product, FoldLeft, MapThenFoldSet, Folded
<1>4. PICK it : Folded(specs, n, it) /\ cartesian_product(specs) = it[1 .. n]
  BY <1>2, <1>3
<1> DEFINE r(k) == it[1 .. k]
           Goods == {k \in Nat : k <= n => /\ r(k) \in Seq(Seq(Pair))
                                           /\ \E at : Lists(r(k), Combos(specs, k), Itself(Combos(specs, k)), at)}
<1>5. 0 \in Goods
  <2>1. 1 .. 0 = {}
    OBVIOUS
  <2>2. r(0) = << << >> >>
    BY <1>4, <2>1 DEF Folded
  <2>3. << >> \in Seq(Pair)
    OBVIOUS
  <2>4. << << >> >> \in Seq(Seq(Pair)) /\ Len(<< << >> >>) = 1 /\ << << >> >>[1] = << >>
    BY <2>3, Single
  <2>5. Combos(specs, 0) = {<< >>}
    <3>1. ASSUME NEW c \in [1 .. 0 -> Pair] PROVE c = << >>
      <4>1. c \in Seq(Pair) /\ Len(c) = 0
        OBVIOUS
      <4> QED BY <4>1, EmptySeq
    <3>2. << >> \in [1 .. 0 -> Pair]
      <4>1. \A z \in Seq(Pair) : z \in [1 .. Len(z) -> Pair]
        OBVIOUS
      <4> QED BY <2>3, <4>1, EmptySeq
    <3> QED BY <2>1, <3>1, <3>2 DEF Combos
  <2>6. Lists(<< << >> >>, {<< >>}, Itself({<< >>}), [c \in {<< >>} |-> 1])
    BY <2>4 DEF Lists, Itself
  <2> HIDE DEF r
  <2> QED BY <2>2, <2>4, <2>5, <2>6
<1>6. ASSUME NEW k \in Nat, k \in Goods PROVE k + 1 \in Goods
  <2> SUFFICES ASSUME k + 1 <= n
               PROVE  /\ r(k + 1) \in Seq(Seq(Pair))
                      /\ \E at : Lists(r(k + 1), Combos(specs, k + 1), Itself(Combos(specs, k + 1)), at)
    <3> HIDE DEF r
    <3> QED OBVIOUS
  <2>1. k <= n /\ k + 1 \in 1 .. n
    OBVIOUS
  <2>2. r(k) \in Seq(Seq(Pair)) /\ \E at : Lists(r(k), Combos(specs, k), Itself(Combos(specs, k)), at)
    BY <1>6, <2>1
  <2>3. r(k + 1) = Continue(r(k), specs[k + 1])
    <3> DEFINE s == 1 .. k + 1
    <3>1. s \in SUBSET (1 .. n) /\ s # {} /\ s \in SUBSET (1 .. k + 1) /\ k + 1 \in s /\ k + 1 \in Nat
      <4>1. 1 .. k + 1 \subseteq 1 .. n
        BY <2>1
      <4>2. k + 1 \in 1 .. k + 1
        OBVIOUS
      <4>3. \A T : k + 1 \in T => T # {}
        OBVIOUS
      <4>4. k + 1 \in Nat
        OBVIOUS
      <4> QED BY <4>1, <4>2, <4>3, <4>4
    <3>2. Max(s) \in s /\ \A y \in s : y <= Max(s)
      BY <3>1, MaxIsThere
    <3>3. Max(s) = k + 1
      <4>1. Max(s) \in 1 .. k + 1 /\ k + 1 <= Max(s)
        BY <3>1, <3>2
      <4> QED BY <4>1
    <3>4. s \ {k + 1} = 1 .. k
      OBVIOUS
    <3> HIDE DEF s
    <3>5. it[s] = Continue(it[s \ {Max(s)}], specs[Max(s)])
      BY <1>4, <3>1 DEF Folded
    <3> QED BY <3>3, <3>4, <3>5 DEF s
  <2> HIDE DEF r
  <2> QED BY <1>1, <2>1, <2>2, <2>3, Continues
<1>7. n \in Goods
  <2> HIDE DEF Goods
  <2> QED BY <1>5, <1>6, UpFromZero
<1> QED BY <1>1, <1>4, <1>7

(* The assignments of an attribute, each as the combination it is.         *)
Combo(attr, g) == [s \in DOMAIN attr.specs |-> <<attr.specs[s].name, g[s]>>]
Shape(attr) == attr.specs \in Seq(Param) /\ Distinct(attr.specs) /\ attr.skip \in BOOLEAN

LEMMA AttributeLists ==
    ASSUME NEW attr, Shape(attr)
    PROVE  /\ cartesian_product(attr.specs) \in Seq(Seq(Pair))
           /\ \E at : Lists(cartesian_product(attr.specs), Assignments(attr),
                            [g \in Assignments(attr) |-> Combo(attr, g)], at)
<1> DEFINE specs == attr.specs
           G == Assignments(attr)
           allowed(s) == ToSet(specs[s].values) \cup (IF specs[s].optional THEN {"None"} ELSE {})
           b == [g \in G |-> Combo(attr, g)]
<1>1. PICK n \in Nat : n = Len(specs) /\ DOMAIN specs = 1 .. n
  BY DEF Shape
<1> DEFINE A == Combos(specs, n)
<1>2. \A s \in 1 .. n : /\ allowed(s) = ToSet(Values(specs[s])) /\ allowed(s) \subseteq Value
                        /\ specs[s].name \in STRING
  <2> SUFFICES ASSUME NEW s \in 1 .. n
               PROVE  /\ allowed(s) = ToSet(Values(specs[s])) /\ allowed(s) \subseteq Value
                      /\ specs[s].name \in STRING
    OBVIOUS
  <2>1. /\ specs[s] \in Param /\ IsInjective(specs[s].values)
        /\ \A j \in DOMAIN specs[s].values : specs[s].values[j] # "None"
    BY <1>1 DEF Shape, Distinct
  <2>2. allowed(s) = ToSet(Values(specs[s])) /\ Values(specs[s]) \in Seq(Value)
    BY <2>1, ValuesOf
  <2>3. \A u \in Seq(Value) : ToSet(u) \subseteq Value
    BY DEF ToSet
  <2>4. specs[s].name \in STRING
    BY <2>1 DEF Param
  <2> HIDE DEF allowed
  <2> QED BY <2>2, <2>3, <2>4
<1>3. \A g : g \in G <=> /\ g \in [1 .. n -> UNION {allowed(s) : s \in 1 .. n}]
                         /\ \A s \in 1 .. n : g[s] \in allowed(s)
  BY <1>1 DEF Assignments
<1> HIDE DEF allowed, G
<1>4. \A g \in G : /\ b[g] \in [1 .. n -> Pair] /\ b[g] \in A
                   /\ \A s \in 1 .. n : b[g][s] = <<specs[s].name, g[s]>>
  <2> SUFFICES ASSUME NEW g \in G
               PROVE  /\ b[g] \in [1 .. n -> Pair] /\ b[g] \in A
                      /\ \A s \in 1 .. n : b[g][s] = <<specs[s].name, g[s]>>
    OBVIOUS
  <2>1. b[g] = [s \in 1 .. n |-> <<specs[s].name, g[s]>>]
    BY <1>1 DEF Combo
  <2>2. \A s \in 1 .. n : <<specs[s].name, g[s]>> \in Pair
    BY <1>2, <1>3 DEF Pair
  <2> HIDE DEF b
  <2>3. b[g] \in [1 .. n -> Pair] /\ \A s \in 1 .. n : b[g][s] = <<specs[s].name, g[s]>>
    BY <2>1, <2>2
  <2>4. \A s \in 1 .. n : b[g][s][1] = specs[s].name /\ b[g][s][2] \in ToSet(Values(specs[s]))
    BY <1>2, <1>3, <2>3
  <2> QED BY <2>3, <2>4 DEF Combos
<1>5. ASSUME NEW g \in G, NEW h \in G, b[g] = b[h] PROVE g = h
  <2> HIDE DEF b
  <2>1. \A s \in 1 .. n : <<specs[s].name, g[s]>> = <<specs[s].name, h[s]>>
    BY <1>4, <1>5
  <2>2. \A s \in 1 .. n : g[s] = h[s]
    BY <2>1
  <2>3. g = [s \in 1 .. n |-> g[s]] /\ h = [s \in 1 .. n |-> h[s]]
    BY <1>3
  <2> QED BY <2>2, <2>3
<1>6. ASSUME NEW c \in A PROVE \E g \in G : b[g] = c
  <2> DEFINE g == [s \in 1 .. n |-> c[s][2]]
  <2>1. /\ c \in [1 .. n -> Pair]
        /\ \A s \in 1 .. n : c[s][1] = specs[s].name /\ c[s][2] \in ToSet(Values(specs[s]))
    BY DEF Combos
  <2>2. \A s \in 1 .. n : c[s] = <<specs[s].name, c[s][2]>>
    BY <2>1 DEF Pair
  <2>3. \A s \in 1 .. n : g[s] \in allowed(s) /\ g[s] = c[s][2]
    BY <1>2, <2>1
  <2>4. g \in G
    <3>1. g = [s \in 1 .. n |-> g[s]]
      OBVIOUS
    <3> HIDE DEF g
    <3> QED BY <1>3, <2>3, <3>1
  <2> HIDE DEF g, b
  <2>5. b[g] = c
    <3>1. b[g] = [s \in 1 .. n |-> b[g][s]] /\ c = [s \in 1 .. n |-> c[s]]
      BY <1>4, <2>1, <2>4
    <3>2. \A s \in 1 .. n : b[g][s] = c[s]
      BY <1>4, <2>2, <2>3, <2>4
    <3> QED BY <3>1, <3>2
  <2> QED BY <2>4, <2>5
<1>7. cartesian_product(specs) \in Seq(Seq(Pair)) /\ \E at : Lists(cartesian_product(specs), A, Itself(A), at)
  BY <1>1, ProductLists DEF Shape
<1> HIDE DEF A
<1>8. Renames(b, G, b, A, Itself(A))
  <2> HIDE DEF b
  <2> QED BY <1>4, <1>5, <1>6 DEF Renames, Itself
<1>9. \E at : Lists(cartesian_product(specs), G, b, at)
  <2> HIDE DEF b
  <2> QED BY <1>7, <1>8, ListsAlso
<1> QED BY <1>7, <1>9 DEF G

-----------------------------------------------------------------------------
(* The entries of a function and of a program. *)

(* The choices that a function's attributes allow, as ExpandsToProduct has *)
(* them, and the entry that each is.                                       *)
ChoicesOf(fn) == UNION {{<<a, g>> : g \in Assignments(fn.attrs[a])} : a \in DOMAIN fn.attrs}
EntryOf(fn, a, g) == [name |-> fn.name, props |-> Shown(fn.attrs[a], g),
                      skip |-> \E b \in DOMAIN fn.attrs : fn.attrs[b].skip]
Entry == [name : STRING, props : SUBSET Pair, skip : BOOLEAN]
FunctionShape(fn) ==
    /\ fn.name \in STRING /\ DOMAIN fn.attrs = 1 .. Len(fn.attrs) /\ Len(fn.attrs) \in Nat
    /\ \A a \in DOMAIN fn.attrs : Shape(fn.attrs[a])

LEMMA ChoicesAre ==
    ASSUME NEW fn
    PROVE  \A p : p \in ChoicesOf(fn) <=> /\ p = <<p[1], p[2]>> /\ p[1] \in DOMAIN fn.attrs
                                        /\ p[2] \in Assignments(fn.attrs[p[1]])
<1> SUFFICES ASSUME NEW p
             PROVE  p \in ChoicesOf(fn) <=> /\ p = <<p[1], p[2]>> /\ p[1] \in DOMAIN fn.attrs
                                          /\ p[2] \in Assignments(fn.attrs[p[1]])
  OBVIOUS
<1>1. ASSUME p \in ChoicesOf(fn)
      PROVE  p = <<p[1], p[2]>> /\ p[1] \in DOMAIN fn.attrs /\ p[2] \in Assignments(fn.attrs[p[1]])
  <2>1. PICK a \in DOMAIN fn.attrs : \E g \in Assignments(fn.attrs[a]) : p = <<a, g>>
    BY <1>1 DEF ChoicesOf
  <2>2. PICK g \in Assignments(fn.attrs[a]) : p = <<a, g>>
    BY <2>1
  <2>3. p[1] = a /\ p[2] = g
    BY <2>2
  <2> QED BY <2>2, <2>3
<1>2. ASSUME NEW a \in DOMAIN fn.attrs, NEW g \in Assignments(fn.attrs[a])
      PROVE  <<a, g>> \in ChoicesOf(fn)
  BY DEF ChoicesOf
<1> QED BY <1>1, <1>2

(* make_props_code hides the None that Shown hides. *)
LEMMA PropsAreShown ==
    ASSUME NEW attr, Shape(attr), NEW g \in Assignments(attr)
    PROVE  Props(Combo(attr, g)) = Shown(attr, g) /\ Shown(attr, g) \subseteq Pair
<1> DEFINE specs == attr.specs
           c == Combo(attr, g)
           K == {s \in DOMAIN specs : g[s] # "None"}
<1>1. DOMAIN c = DOMAIN specs /\ \A s \in DOMAIN specs : c[s] = <<specs[s].name, g[s]>> /\ c[s][2] = g[s]
  BY DEF Combo
<1>2. \A s \in DOMAIN specs : specs[s].name \in STRING /\ g[s] \in Value
  <2> SUFFICES ASSUME NEW s \in DOMAIN specs PROVE specs[s].name \in STRING /\ g[s] \in Value
    OBVIOUS
  <2>1. /\ specs[s] \in Param /\ IsInjective(specs[s].values)
        /\ \A j \in DOMAIN specs[s].values : specs[s].values[j] # "None"
    BY DEF Shape, Distinct
  <2>2. g[s] \in ToSet(specs[s].values) \cup (IF specs[s].optional THEN {"None"} ELSE {})
    BY DEF Assignments
  <2>3. g[s] \in ToSet(Values(specs[s])) /\ Values(specs[s]) \in Seq(Value)
    BY <2>1, <2>2, ValuesOf
  <2>4. \A u \in Seq(Value) : ToSet(u) \subseteq Value
    BY DEF ToSet
  <2>5. specs[s].name \in STRING
    BY <2>1 DEF Param
  <2> QED BY <2>3, <2>4, <2>5
<1> HIDE DEF c
<1>3. {k \in DOMAIN c : c[k][2] # "None"} = K
  BY <1>1
<1>4. Props(c) = {c[s] : s \in K}
  BY <1>3 DEF Props
<1>5. Shown(attr, g) = {<<specs[s].name, g[s]>> : s \in K}
  BY DEF Shown
<1>6. \A s \in K : c[s] = <<specs[s].name, g[s]>> /\ <<specs[s].name, g[s]>> \in Pair
  BY <1>1, <1>2 DEF Pair
<1> QED BY <1>4, <1>5, <1>6 DEF c

(* The entries of one function are its choices, in some order. *)
LEMMA FunctionLists ==
    ASSUME NEW fn, FunctionShape(fn)
    PROVE  /\ Entries(fn) \in Seq(Entry)
           /\ \E at : Lists(Entries(fn), ChoicesOf(fn),
                            [p \in ChoicesOf(fn) |-> EntryOf(fn, p[1], p[2])], at)
<1> DEFINE ss == [a \in DOMAIN fn.attrs |-> cartesian_product(fn.attrs[a].specs)]
           A == [a \in DOMAIN fn.attrs |-> Assignments(fn.attrs[a])]
           v == [a \in DOMAIN fn.attrs |->
                    [g \in Assignments(fn.attrs[a]) |-> Combo(fn.attrs[a], g)]]
           U == ChoicesOf(fn)
           w == [p \in U |-> Combo(fn.attrs[p[1]], p[2])]
           skip == \E b \in DOMAIN fn.attrs : fn.attrs[b].skip
           all == AllCombos(fn.attrs)
<1>1. \A a \in DOMAIN fn.attrs : /\ ss[a] \in Seq(Seq(Pair))
                                 /\ \E at : Lists(ss[a], A[a], v[a], at)
  BY AttributeLists DEF FunctionShape
<1>2. ss \in Seq(Seq(Seq(Pair))) /\ DOMAIN fn.attrs = 1 .. Len(ss)
  <2>1. PICK n \in Nat : n = Len(fn.attrs) /\ DOMAIN fn.attrs = 1 .. n
    BY DEF FunctionShape
  <2>2. ss = [a \in 1 .. n |-> ss[a]]
    BY <2>1
  <2>3. \A a \in 1 .. n : ss[a] \in Seq(Seq(Pair))
    BY <1>1, <2>1
  <2> HIDE DEF ss
  <2> QED BY <2>1, <2>2, <2>3, FunctionIsSeq
<1>3. Paired(U, w, Len(ss), A, v)
  <2>1. \A p : p \in U <=> p = <<p[1], p[2]>> /\ p[1] \in DOMAIN fn.attrs /\ p[2] \in A[p[1]]
    BY ChoicesAre
  <2>2. \A p \in U : w[p] = v[p[1]][p[2]]
    BY <2>1
  <2> HIDE DEF ss, A, v, w, U
  <2> QED BY <1>2, <2>1, <2>2 DEF Paired
<1>4. EachLists(ss, A, v)
  <2> HIDE DEF ss, A, v
  <2> QED BY <1>1, <1>2 DEF EachLists
<1>5. all = FlattenSeq(ss)
  BY DEF AllCombos
<1> HIDE DEF ss, A, v, w, U, all
<1>6. FlattenSeq(ss) \in Seq(Seq(Pair)) /\ \E h : Lists(FlattenSeq(ss), U, w, h)
  BY <1>2, <1>3, <1>4, FlattenedLists
<1>7. PICK h : Lists(all, U, w, h)
  BY <1>5, <1>6
<1> DEFINE E == Entries(fn)
<1>8. /\ DOMAIN E = 1 .. Len(all) /\ Len(E) = Len(all)
      /\ \A m \in 1 .. Len(all) : E[m] = [name |-> fn.name, props |-> Props(all[m]), skip |-> skip]
  <2>1. DOMAIN all = 1 .. Len(all) /\ Len(all) \in Nat
    BY <1>5, <1>6
  <2>2. E = [m \in 1 .. Len(all) |-> [name |-> fn.name, props |-> Props(all[m]), skip |-> skip]]
    BY <2>1 DEF Entries, all
  <2> HIDE DEF E
  <2> QED BY <2>1, <2>2
<1> HIDE DEF E, skip
<1>9. ASSUME NEW p \in U
      PROVE  /\ h[p] \in 1 .. Len(E) /\ E[h[p]] = EntryOf(fn, p[1], p[2])
             /\ EntryOf(fn, p[1], p[2]) \in Entry
  <2>1. h[p] \in 1 .. Len(all) /\ all[h[p]] = w[p]
    BY <1>7 DEF Lists
  <2>2. p[1] \in DOMAIN fn.attrs /\ p[2] \in Assignments(fn.attrs[p[1]]) /\ Shape(fn.attrs[p[1]])
    BY ChoicesAre DEF U, FunctionShape
  <2>3. w[p] = Combo(fn.attrs[p[1]], p[2])
    BY DEF w
  <2>4. /\ Props(all[h[p]]) = Shown(fn.attrs[p[1]], p[2])
        /\ Shown(fn.attrs[p[1]], p[2]) \subseteq Pair
    BY <2>1, <2>2, <2>3, PropsAreShown
  <2>5. E[h[p]] = [name |-> fn.name, props |-> Props(all[h[p]]), skip |-> skip]
    BY <1>8, <2>1
  <2>6. skip \in BOOLEAN /\ fn.name \in STRING
    BY DEF skip, FunctionShape
  <2> QED BY <1>8, <2>1, <2>4, <2>5, <2>6 DEF EntryOf, Entry, skip
<1>10. Lists(E, U, [p \in U |-> EntryOf(fn, p[1], p[2])], h)
  BY <1>7, <1>8, <1>9 DEF Lists
<1>11. E \in Seq(Entry)
  <2>1. \A m \in 1 .. Len(E) : E[m] \in Entry
    BY <1>7, <1>8, <1>9 DEF Lists
  <2>2. E = [m \in 1 .. Len(E) |-> E[m]] /\ Len(E) \in Nat
    BY <1>5, <1>6, <1>8 DEF E, Entries
  <2> QED BY <2>1, <2>2
<1> QED BY <1>10, <1>11 DEF E, U

(* What Expand makes of a program. *)
Expanded(prog) == FlattenSeq([f \in DOMAIN prog |-> Entries(prog[f])])
Registered(prog) ==
    {p \in (DOMAIN prog) \X UNION {ChoicesOf(prog[f]) : f \in DOMAIN prog} : p[2] \in ChoicesOf(prog[p[1]])}
EntryAt(prog) == [p \in Registered(prog) |-> EntryOf(prog[p[1]], p[2][1], p[2][2])]

LEMMA Shapes ==
    ASSUME NEW prog \in Programs
    PROVE  /\ DOMAIN prog = 1 .. Len(prog) /\ Len(prog) \in Nat
           /\ \A f \in DOMAIN prog : FunctionShape(prog[f])
           /\ \A f, g \in DOMAIN prog : prog[f].name = prog[g].name => f = g
<1>1. prog \in Seq(Function)
  BY ProgramsAssumption
<1>2. DOMAIN prog = 1 .. Len(prog) /\ Len(prog) \in Nat
  BY <1>1
<1>3. ASSUME NEW f \in DOMAIN prog PROVE FunctionShape(prog[f])
  <2> DEFINE fn == prog[f]
  <2>1. fn \in Function
    BY <1>1
  <2>2. fn.name \in STRING /\ fn.attrs \in Seq([specs : Seq(Param), skip : BOOLEAN])
    BY <2>1 DEF Function
  <2>3. \A a \in DOMAIN fn.attrs : Distinct(fn.attrs[a].specs)
    BY ProgramsAssumption DEF Distinct
  <2> HIDE DEF fn
  <2>4. DOMAIN fn.attrs = 1 .. Len(fn.attrs) /\ Len(fn.attrs) \in Nat
    BY <2>2
  <2>5. \A a \in DOMAIN fn.attrs : fn.attrs[a].specs \in Seq(Param) /\ fn.attrs[a].skip \in BOOLEAN
    <3>1. \A a \in DOMAIN fn.attrs : fn.attrs[a] \in [specs : Seq(Param), skip : BOOLEAN]
      BY <2>2, ElementsOf, Zenon
    <3> QED BY <3>1
  <2>6. FunctionShape(fn)
    BY <2>2, <2>3, <2>4, <2>5 DEF FunctionShape, Shape
  <2> QED BY <2>6 DEF fn
<1>4. \A f, g \in DOMAIN prog : prog[f].name = prog[g].name => f = g
  BY ProgramsAssumption
<1> QED BY <1>2, <1>3, <1>4

LEMMA ProgramLists ==
    ASSUME NEW prog \in Programs
    PROVE  /\ Expanded(prog) \in Seq(Entry)
           /\ \E at : Lists(Expanded(prog), Registered(prog), EntryAt(prog), at)
<1> DEFINE ss == [f \in DOMAIN prog |-> Entries(prog[f])]
           A == [f \in DOMAIN prog |-> ChoicesOf(prog[f])]
           v == [f \in DOMAIN prog |->
                    [p \in ChoicesOf(prog[f]) |-> EntryOf(prog[f], p[1], p[2])]]
           B == Registered(prog)
           w == EntryAt(prog)
<1>1. \A f \in DOMAIN prog : ss[f] \in Seq(Entry) /\ \E at : Lists(ss[f], A[f], v[f], at)
  BY Shapes, FunctionLists
<1>2. ss \in Seq(Seq(Entry)) /\ DOMAIN prog = 1 .. Len(ss)
  <2>1. PICK n \in Nat : DOMAIN prog = 1 .. n
    BY Shapes
  <2>2. ss = [f \in 1 .. n |-> ss[f]] /\ \A f \in 1 .. n : ss[f] \in Seq(Entry)
    BY <1>1, <2>1
  <2> HIDE DEF ss
  <2> QED BY <2>1, <2>2, FunctionIsSeq
<1>3. Paired(B, w, Len(ss), A, v)
  <2>1. \A p : p \in B <=> p = <<p[1], p[2]>> /\ p[1] \in DOMAIN prog /\ p[2] \in A[p[1]]
    BY DEF Registered
  <2>2. \A p \in B : w[p] = v[p[1]][p[2]]
    BY <2>1 DEF EntryAt
  <2> HIDE DEF ss, A, v, w, B
  <2> QED BY <1>2, <2>1, <2>2 DEF Paired
<1>4. EachLists(ss, A, v)
  <2> HIDE DEF ss, A, v
  <2> QED BY <1>1, <1>2 DEF EachLists
<1>5. Expanded(prog) = FlattenSeq(ss)
  BY DEF Expanded
<1> HIDE DEF ss, A, v, w, B
<1>6. FlattenSeq(ss) \in Seq(Entry) /\ \E h : Lists(FlattenSeq(ss), B, w, h)
  BY <1>2, <1>3, <1>4, FlattenedLists
<1> QED BY <1>5, <1>6 DEF B, w

-----------------------------------------------------------------------------
(* The sum in the report. *)

(* The recursive function that FoldFunction chooses. *)
Summed(T, F, it) ==
    it = [s \in SUBSET T |->
            IF s = {} THEN 0 ELSE F[CHOOSE x \in s : TRUE] + it[s \ {CHOOSE x \in s : TRUE}]]

(* n tests that are run r times each are n * r runs, in whichever order    *)
(* they are added up.                                                      *)
LEMMA SumOfEqual ==
    ASSUME NEW T, IsFiniteSet(T), NEW r \in Nat
    PROVE  FoldFunction(+, 0, [e \in T |-> r]) = Cardinality(T) * r
<1> DEFINE F == [e \in T |-> r]
           closed == [s \in SUBSET T |-> Cardinality(s) * r]
<1>1. ASSUME NEW s \in SUBSET T
      PROVE  IsFiniteSet(s) /\ Cardinality(s) \in Nat
  BY FS_Subset, FS_CardinalityType
<1>2. ASSUME NEW s \in SUBSET T, s # {}
      PROVE  LET x == CHOOSE x \in s : TRUE
             IN  /\ x \in s /\ s \ {x} \in SUBSET T /\ F[x] = r
                 /\ Cardinality(s) \in Nat /\ Cardinality(s \ {x}) \in Nat
                 /\ Cardinality(s) = Cardinality(s \ {x}) + 1
                 /\ Cardinality(s) * r = r + Cardinality(s \ {x}) * r
  <2> DEFINE x == CHOOSE x \in s : TRUE
  <2>1. x \in s
    BY <1>2
  <2> HIDE DEF x
  <2>2. Cardinality(s \ {x}) = Cardinality(s) - 1 /\ Cardinality(s) \in Nat /\ Cardinality(s \ {x}) \in Nat
    BY <1>1, <2>1, FS_RemoveElement
  <2>3. \A a \in Nat : (a + 1) * r = r + a * r
    OBVIOUS
  <2>4. Cardinality(s) = Cardinality(s \ {x}) + 1
    BY <2>2
  <2>5. Cardinality(s) * r = r + Cardinality(s \ {x}) * r
    BY <2>2, <2>3, <2>4
  <2> QED BY <2>1, <2>2, <2>4, <2>5 DEF x
<1>3. Cardinality({}) = 0
  BY FS_EmptySet
<1>4. Summed(T, F, closed)
  <2>1. ASSUME NEW s \in SUBSET T
        PROVE  closed[s] = IF s = {} THEN 0 ELSE F[CHOOSE x \in s : TRUE] + closed[s \ {CHOOSE x \in s : TRUE}]
    <3>1. CASE s = {}
      <4>1. closed[s] = 0 * r
        BY <1>3, <3>1
      <4> QED BY <3>1, <4>1
    <3>2. CASE s # {}
      BY <1>2, <3>2
    <3> QED BY <3>1, <3>2
  <2>2. closed = [s \in SUBSET T |-> closed[s]]
    OBVIOUS
  <2> HIDE DEF closed, F
  <2> QED BY <2>1, <2>2 DEF Summed
<1>5. FoldFunction(+, 0, F) = (CHOOSE it : Summed(T, F, it))[T]
  BY DEF FoldFunction, FoldFunctionOnSet, MapThenFoldSet, Summed
<1>6. PICK it : Summed(T, F, it) /\ FoldFunction(+, 0, F) = it[T]
  BY <1>4, <1>5
<1> DEFINE N == {n \in Nat : \A s \in SUBSET T : Cardinality(s) = n => it[s] = n * r}
<1>7. 0 \in N
  <2>1. \A s \in SUBSET T : Cardinality(s) = 0 => s = {}
    BY <1>1, FS_EmptySet
  <2>2. it[{}] = 0
    BY <1>6 DEF Summed
  <2> QED BY <2>1, <2>2
<1>8. ASSUME NEW n \in Nat, n \in N PROVE n + 1 \in N
  <2> SUFFICES ASSUME NEW s \in SUBSET T, Cardinality(s) = n + 1 PROVE it[s] = (n + 1) * r
    OBVIOUS
  <2> DEFINE x == CHOOSE x \in s : TRUE
  <2>1. s # {}
    BY <1>3
  <2>2. it[s] = F[x] + it[s \ {x}]
    BY <1>6, <2>1 DEF Summed
  <2>3. s \ {x} \in SUBSET T /\ F[x] = r /\ Cardinality(s \ {x}) = n
        /\ Cardinality(s) * r = r + Cardinality(s \ {x}) * r
    BY <1>2, <2>1
  <2> HIDE DEF x, F
  <2>4. it[s \ {x}] = n * r
    BY <1>8, <2>3
  <2> QED BY <2>2, <2>3, <2>4
<1>9. Cardinality(T) \in Nat
  BY FS_CardinalityType
<1>10. Cardinality(T) \in N
  <2> HIDE DEF N
  <2> QED BY <1>7, <1>8, <1>9, UpFromZero
<1> QED BY <1>6, <1>10

-----------------------------------------------------------------------------
(* The invariant. *)

(* What the filter closure decides of an entry. *)
ChosenBy(F, e) == IF F = {} THEN ~e.skip ELSE \A f \in F : matches(f, Label(e), e.skip)
AnnotatedBy(F, e) == e.skip /\ ~ChosenBy(F, e) /\ \A f \in F : matches(f, Label(e), FALSE)

OneFilter == raw = {} \/ \E r \in Raws : raw = {r}

(* Before the filter is known nothing is decided; then it is what the user *)
(* wrote, and TEST_REPEAT is not zero.                                     *)
Configured ==
    IF pc \in {"macro", "config", "ConfigErr"}
    THEN filter = {} /\ i = 1 /\ tests = {} /\ skips = {}
    ELSE repeat # 0 /\ filter = {parse(r) : r \in raw}

Made == entries = IF pc = "macro" THEN << >> ELSE Expanded(program)

(* The entries that were looked at are where the closure has put them. *)
Sorted ==
    \A e \in 1 .. i - 1 : /\ e \in tests <=> ChosenBy(filter, entries[e])
                          /\ e \in skips <=> junit /\ AnnotatedBy(filter, entries[e])

Scheduled ==
    IF pc \in {"run", "Ok", "Err", "Panic"}
    THEN i = Len(entries) + 1 /\ scheduled = [e \in tests |-> repeat]
    ELSE scheduled = << >>

Reported ==
    IF pc \in {"Ok", "Err"}
    THEN \E failures \in 0 .. Cardinality(tests) * repeat :
            /\ report = IF junit THEN {Counts(Cardinality(tests) * repeat, failures)} ELSE {}
            /\ failures = 0 <=> pc = "Ok"
    ELSE report = {}

IInv == /\ TypeOK /\ OneFilter /\ Configured /\ Made /\ Sorted /\ Scheduled /\ Reported

LEMMA EntriesAre ==
    ASSUME IInv
    PROVE  /\ entries \in Seq(Entry) /\ Len(entries) \in Nat /\ DOMAIN entries = 1 .. Len(entries)
           /\ \A e \in DOMAIN entries : entries[e] \in Entry
<1>1. entries \in Seq(Entry)
  <2>1. << >> \in Seq(Entry)
    OBVIOUS
  <2> QED BY <2>1, ProgramLists DEF IInv, TypeOK, Made
<1> QED BY <1>1

LEMMA Initially == Init => IInv
<1> SUFFICES ASSUME Init PROVE IInv
  OBVIOUS
<1> USE DEF Init
<1>1. OneFilter
  BY DEF OneFilter
<1>2. TypeOK
  <2>1. \A r \in Raws : Cardinality({r}) = 1 /\ {r} \in SUBSET Raws
    BY FS_Singleton
  <2>2. Cardinality(raw) \in 0 .. 1 /\ raw \in SUBSET Raws /\ Cardinality({}) = 0
    <3>1. CASE raw = {}
      BY <3>1, FS_EmptySet
    <3>2. CASE \E r \in Raws : raw = {r}
      BY <2>1, <3>2, FS_EmptySet
    <3> QED BY <3>1, <3>2
  <2>3. Len(<< >>) = 0 /\ 1 \in 1 .. 0 + 1 /\ DOMAIN << >> = {}
    OBVIOUS
  <2> QED BY <2>2, <2>3 DEF TypeOK
<1>3. Sorted
  BY DEF Sorted
<1>4. Configured /\ Made /\ Scheduled /\ Reported
  BY DEF Configured, Made, Scheduled, Reported
<1> QED BY <1>1, <1>2, <1>3, <1>4 DEF IInv

LEMMA ExpandStep ==
    ASSUME IInv, Expand
    PROVE  IInv'
<1> USE DEF Expand, inputs
<1>1. i = 1 /\ tests = {} /\ skips = {} /\ filter = {} /\ scheduled = << >> /\ report = {}
  BY DEF IInv, Configured, Scheduled, Reported
<1>2. entries' = Expanded(program) /\ entries' \in Seq(Entry)
  BY ProgramLists DEF Expanded, IInv, TypeOK
<1>3. TypeOK'
  <2>1. Len(entries') \in Nat
    BY <1>2
  <2>2. 1 \in 1 .. Len(entries') + 1
    BY <2>1
  <2> QED BY <1>1, <2>2 DEF TypeOK, IInv
<1>4. OneFilter' /\ Configured' /\ Made' /\ Scheduled' /\ Reported'
  BY <1>1, <1>2 DEF IInv, OneFilter, Configured, Made, Scheduled, Reported
<1>5. Sorted'
  BY <1>1 DEF Sorted
<1> QED BY <1>3, <1>4, <1>5 DEF IInv

LEMMA ConfigureStep ==
    ASSUME IInv, Configure
    PROVE  IInv'
<1> USE DEF Configure, inputs
<1>1. i = 1 /\ tests = {} /\ skips = {} /\ filter = {} /\ scheduled = << >> /\ report = {}
  BY DEF IInv, Configured, Scheduled, Reported
<1>2. TypeOK'
  <2>1. Cardinality(filter') <= Cardinality(raw)
    <3>1. CASE UNCHANGED filter
      BY <3>1 DEF IInv, TypeOK
    <3>2. CASE filter' = {parse(r) : r \in raw}
      <4>1. CASE raw = {}
        BY <3>2, <4>1, FS_EmptySet
      <4>2. ASSUME NEW r, raw = {r} PROVE Cardinality(filter') <= Cardinality(raw)
        <5>1. filter' = {parse(r)}
          BY <3>2, <4>2
        <5>2. Cardinality(filter') = 1 /\ Cardinality(raw) = 1
          BY <4>2, <5>1, FS_Singleton
        <5> QED BY <5>2
      <4> QED BY <4>1, <4>2 DEF IInv, OneFilter
    <3> QED BY <3>1, <3>2
  <2> QED BY <2>1 DEF TypeOK, IInv
<1>3. OneFilter' /\ Configured' /\ Made' /\ Scheduled' /\ Reported'
  BY <1>1 DEF IInv, OneFilter, Configured, Made, Scheduled, Reported
<1>4. Sorted'
  BY <1>1 DEF Sorted
<1> QED BY <1>2, <1>3, <1>4 DEF IInv

LEMMA SelectStep ==
    ASSUME IInv, Select
    PROVE  IInv'
<1> USE DEF inputs
<1>1. /\ pc = "select" /\ i <= Len(entries) /\ i' = i + 1
      /\ UNCHANGED <<inputs, entries, filter, scheduled, report, pc>>
      /\ tests' = IF ChosenBy(filter, entries[i]) THEN tests \cup {i} ELSE tests
      /\ skips' = IF junit /\ AnnotatedBy(filter, entries[i]) THEN skips \cup {i} ELSE skips
  BY DEF Select, ChosenBy, AnnotatedBy
<1>2. /\ Len(entries) \in Nat /\ i \in 1 .. Len(entries) + 1
      /\ tests \subseteq 1 .. i - 1 /\ skips \subseteq 1 .. i - 1
  BY EntriesAre DEF IInv, TypeOK
<1>3. i' \in 1 .. Len(entries) + 1 /\ tests' \subseteq 1 .. i' - 1 /\ skips' \subseteq 1 .. i' - 1
  <2>1. i' \in 1 .. Len(entries) + 1 /\ i' - 1 = i /\ i \in 1 .. i
    BY <1>1, <1>2
  <2>2. 1 .. i - 1 \subseteq 1 .. i
    BY <1>2
  <2> QED BY <1>1, <1>2, <2>1, <2>2
<1>4. TypeOK'
  BY <1>1, <1>3 DEF TypeOK, IInv
<1>5. OneFilter' /\ Configured' /\ Made' /\ Scheduled'
  BY <1>1 DEF IInv, OneFilter, Configured, Made, Scheduled
<1>6. Reported'
  BY <1>1 DEF IInv, Reported
<1>7. Sorted'
  <2> SUFFICES ASSUME NEW e \in 1 .. i' - 1
               PROVE  /\ e \in tests' <=> ChosenBy(filter, entries[e])
                      /\ e \in skips' <=> junit /\ AnnotatedBy(filter, entries[e])
    BY <1>1 DEF Sorted, ChosenBy, AnnotatedBy
  <2>1. CASE e = i
    <3>1. i \notin tests /\ i \notin skips
      BY <1>2
    <3> QED BY <1>1, <2>1, <3>1
  <2>2. CASE e # i
    <3>1. e \in 1 .. i - 1
      BY <1>1, <1>2, <2>2
    <3> QED BY <1>1, <2>2, <3>1 DEF IInv, Sorted
  <2> QED BY <2>1, <2>2
<1> QED BY <1>4, <1>5, <1>6, <1>7 DEF IInv

LEMMA ScheduleStep ==
    ASSUME IInv, Schedule
    PROVE  IInv'
<1> USE DEF Schedule, inputs
<1>1. i = Len(entries) + 1
  BY EntriesAre DEF IInv, TypeOK
<1>2. repeat \in Repeats \ {0}
  BY DEF IInv, TypeOK, Configured
<1>3. TypeOK'
  BY <1>2 DEF TypeOK, IInv
<1>4. OneFilter' /\ Configured' /\ Made' /\ Scheduled'
  BY <1>1 DEF IInv, OneFilter, Configured, Made, Scheduled
<1>5. Reported'
  BY DEF IInv, Reported
<1>6. Sorted'
  BY DEF IInv, Sorted, ChosenBy, AnnotatedBy
<1> QED BY <1>3, <1>4, <1>5, <1>6 DEF IInv

(* format_junit gets as many results of tests as main has scheduled. *)
LEMMA RunsAre ==
    ASSUME IInv, pc = "run"
    PROVE  FoldFunction(+, 0, scheduled) = Cardinality(tests) * repeat
<1>1. IsFiniteSet(tests)
  <2>1. IsFiniteSet(1 .. i - 1) /\ tests \in SUBSET (1 .. i - 1)
    <3>1. tests \subseteq 1 .. i - 1 /\ i - 1 \in Int
      BY EntriesAre DEF IInv, TypeOK
    <3> QED BY <3>1, FS_Interval
  <2> QED BY <2>1, FS_Subset
<1>2. repeat \in Nat
  BY InputAssumption DEF IInv, TypeOK
<1>3. scheduled = [e \in tests |-> repeat]
  BY DEF IInv, Scheduled
<1> QED BY <1>1, <1>2, <1>3, SumOfEqual

LEMMA ReportStep ==
    ASSUME IInv, Report
    PROVE  IInv'
<1> USE DEF inputs
<1> DEFINE run == Cardinality(tests) * repeat
<1>1. /\ pc = "run" /\ UNCHANGED <<inputs, entries, filter, i, tests, skips, scheduled>>
      /\ \/ pc' = "Panic" /\ UNCHANGED report
         \/ \E failures \in 0 .. run :
               /\ report' = IF junit THEN {Counts(run, failures)} ELSE {}
               /\ pc' = IF failures = 0 THEN "Ok" ELSE "Err"
  BY RunsAre DEF Report
<1> HIDE DEF run
<1>2. pc' \in {"Panic", "Ok", "Err"}
  BY <1>1
<1>3. TypeOK'
  BY <1>1, <1>2 DEF TypeOK, IInv
<1>4. OneFilter' /\ Configured' /\ Made' /\ Scheduled'
  BY <1>1, <1>2 DEF IInv, OneFilter, Configured, Made, Scheduled
<1>5. Reported'
  <2>1. run' = run
    BY <1>1 DEF run
  <2>2. CASE pc' = "Panic"
    BY <1>1, <2>2 DEF IInv, Reported
  <2>3. ASSUME NEW failures \in 0 .. run,
               report' = IF junit THEN {Counts(run, failures)} ELSE {},
               pc' = IF failures = 0 THEN "Ok" ELSE "Err"
        PROVE  Reported'
    <3>1. Counts(run, failures)' = Counts(run, failures)
      BY <1>1, <2>1 DEF Counts
    <3>2. /\ report' = IF junit' THEN {Counts(run, failures)'} ELSE {}
          /\ failures = 0 <=> pc' = "Ok"
          /\ pc' \in {"Ok", "Err"} /\ failures \in 0 .. run'
      BY <1>1, <2>1, <2>3, <3>1
    <3> QED BY <3>2 DEF Reported, run
  <2> QED BY <1>1, <2>2, <2>3
<1>6. Sorted'
  BY <1>1 DEF IInv, Sorted, ChosenBy, AnnotatedBy
<1> QED BY <1>3, <1>4, <1>5, <1>6 DEF IInv

LEMMA Invariance == Spec => []IInv
<1>1. IInv /\ [Next]_vars => IInv'
  <2> SUFFICES ASSUME IInv, [Next]_vars PROVE IInv'
    OBVIOUS
  <2>1. CASE Next
    BY <2>1, ExpandStep, ConfigureStep, SelectStep, ScheduleStep, ReportStep DEF Next
  <2>2. CASE UNCHANGED vars
    BY <2>2 DEF vars, inputs, IInv, TypeOK, OneFilter, Configured, Made, Sorted, Scheduled,
                Reported, ChosenBy, AnnotatedBy, Counts
  <2> QED BY <2>1, <2>2
<1> QED
  BY <1>1, Initially, PTL DEF Spec

-----------------------------------------------------------------------------
(* Theorems. *)

(***************************************************************************)
(* The state is well typed: at most one filter, which is there only if the *)
(* user gave one, selected and skipped entries are entries that were       *)
(* looked at, and what is scheduled is not scheduled zero times.           *)
(***************************************************************************)
THEOREM TypeCorrect == Spec => []TypeOK
  BY Invariance, PTL DEF IInv

(* The tokens of a filter, by their sign. *)
Token == [neg : BOOLEAN, tok : Seq(STRING)]

LEMMA TokensOf ==
    ASSUME NEW r \in Seq(Token), NEW L
    PROVE  /\ \A t \in DOMAIN r : r[t].neg \in BOOLEAN
           /\ (Tokens(r, FALSE) \cap L # {}) <=> (\E t \in DOMAIN r : ~r[t].neg /\ r[t].tok \in L)
           /\ (Tokens(r, TRUE) \cap L # {}) <=> (\E t \in DOMAIN r : r[t].neg /\ r[t].tok \in L)
           /\ (Tokens(r, FALSE) = {}) <=> (\A t \in DOMAIN r : r[t].neg)
<1>1. \A t \in DOMAIN r : r[t].neg \in BOOLEAN
  <2>1. \A t \in DOMAIN r : r[t] \in Token
    BY ElementsOf, Zenon
  <2> QED BY <2>1 DEF Token
<1>2. \A x : x \in Tokens(r, FALSE) <=> \E t \in DOMAIN r : ~r[t].neg /\ x = r[t].tok
  BY <1>1 DEF Tokens
<1>3. \A x : x \in Tokens(r, TRUE) <=> \E t \in DOMAIN r : r[t].neg /\ x = r[t].tok
  BY <1>1 DEF Tokens
<1>4. (Tokens(r, FALSE) \cap L # {}) <=> (\E t \in DOMAIN r : ~r[t].neg /\ r[t].tok \in L)
  <2>1. (Tokens(r, FALSE) \cap L # {}) <=> (\E x : x \in Tokens(r, FALSE) /\ x \in L)
    OBVIOUS
  <2>2. ASSUME NEW x, x \in Tokens(r, FALSE), x \in L PROVE \E t \in DOMAIN r : ~r[t].neg /\ r[t].tok \in L
    <3>1. PICK t \in DOMAIN r : ~r[t].neg /\ x = r[t].tok
      BY <1>2, <2>2
    <3> QED BY <2>2, <3>1
  <2>3. ASSUME NEW t \in DOMAIN r, ~r[t].neg, r[t].tok \in L PROVE \E x : x \in Tokens(r, FALSE) /\ x \in L
    <3>1. r[t].tok \in Tokens(r, FALSE)
      BY <1>2, <2>3
    <3> QED BY <2>3, <3>1
  <2> QED BY <2>1, <2>2, <2>3
<1>5. (Tokens(r, TRUE) \cap L # {}) <=> (\E t \in DOMAIN r : r[t].neg /\ r[t].tok \in L)
  <2>1. (Tokens(r, TRUE) \cap L # {}) <=> (\E x : x \in Tokens(r, TRUE) /\ x \in L)
    OBVIOUS
  <2>2. ASSUME NEW x, x \in Tokens(r, TRUE), x \in L PROVE \E t \in DOMAIN r : r[t].neg /\ r[t].tok \in L
    <3>1. PICK t \in DOMAIN r : r[t].neg /\ x = r[t].tok
      BY <1>3, <2>2
    <3> QED BY <2>2, <3>1
  <2>3. ASSUME NEW t \in DOMAIN r, r[t].neg, r[t].tok \in L PROVE \E x : x \in Tokens(r, TRUE) /\ x \in L
    <3>1. r[t].tok \in Tokens(r, TRUE)
      BY <1>3, <2>3
    <3> QED BY <2>3, <3>1
  <2> QED BY <2>1, <2>2, <2>3
<1>6. (Tokens(r, FALSE) = {}) <=> (\A t \in DOMAIN r : r[t].neg)
  <2>1. (Tokens(r, FALSE) = {}) <=> (\A x : x \notin Tokens(r, FALSE))
    OBVIOUS
  <2> QED BY <1>1, <1>2, <2>1, Zenon
<1> QED BY <1>1, <1>4, <1>5, <1>6

(* An entry is skipped if an attribute of its function says so. *)
WrittenSkip(e) ==
    \E f \in DOMAIN program : /\ program[f].name = entries[e].name
                              /\ \E a \in DOMAIN program[f].attrs : program[f].attrs[a].skip

LEMMA SkipIsWritten ==
    ASSUME IInv, pc # "macro", NEW e \in DOMAIN entries
    PROVE  entries[e].skip <=> WrittenSkip(e)
<1> DEFINE B == Registered(program)
           w == EntryAt(program)
<1>1. program \in Programs /\ entries = Expanded(program)
  BY DEF IInv, TypeOK, Made
<1>2. PICK h : Lists(entries, B, w, h)
  BY <1>1, ProgramLists
<1>3. DOMAIN entries = 1 .. Len(entries)
  BY EntriesAre
<1>4. \A f, g \in DOMAIN program : program[f].name = program[g].name => f = g
  BY <1>1, Shapes
<1>5. PICK p \in B : h[p] = e
  BY <1>2, <1>3 DEF Lists
<1>6. p[1] \in DOMAIN program /\ w[p] = EntryOf(program[p[1]], p[2][1], p[2][2])
  BY DEF Registered, EntryAt
<1>7. entries[e] = w[p]
  BY <1>2, <1>5 DEF Lists
<1> HIDE DEF B, w
<1>8. /\ entries[e].name = program[p[1]].name
      /\ entries[e].skip = (\E b \in DOMAIN program[p[1]].attrs : program[p[1]].attrs[b].skip)
  BY <1>6, <1>7 DEF EntryOf
<1>9. WrittenSkip(e) <=> \E b \in DOMAIN program[p[1]].attrs : program[p[1]].attrs[b].skip
  BY <1>4, <1>6, <1>8 DEF WrittenSkip
<1> QED BY <1>8, <1>9

(***************************************************************************)
(* The filter means what the README says of the tokens, whatever tests are *)
(* registered: a negative token wins; with positive tokens the tests that  *)
(* have one of them run, skipped or not; without, none does of a function  *)
(* that any of its attributes skips (test_fn, TestFilter::parse and        *)
(* matches, the filter closure of main).                                   *)
(***************************************************************************)
THEOREM FilterIsAsWritten == Spec => []FilterDecides
<1>1. IInv => FilterDecides
  <2> SUFFICES ASSUME IInv, pc = "run", NEW r \in raw, NEW e \in DOMAIN entries
               PROVE  LET has(t) == r[t].tok \in Label(entries[e])
                          pos == {t \in DOMAIN r : ~r[t].neg}
                      IN e \in tests <=>
                            /\ \A t \in DOMAIN r : has(t) => ~r[t].neg
                            /\ IF pos = {} THEN ~WrittenSkip(e) ELSE \E t \in pos : has(t)
    BY DEF FilterDecides, WrittenSkip
  <2> DEFINE L == Label(entries[e])
             f == parse(r)
  <2>1. r \in Seq(Token)
    BY InputAssumption DEF IInv, TypeOK, Token
  <2>2. filter = {f}
    <3>1. raw = {r}
      BY DEF IInv, OneFilter
    <3>2. filter = {parse(q) : q \in raw}
      BY DEF IInv, Configured
    <3> QED BY <3>1, <3>2
  <2>3. e \in 1 .. i - 1
    BY EntriesAre DEF IInv, Scheduled
  <2>4. e \in tests <=> matches(f, L, entries[e].skip)
    BY <2>2, <2>3 DEF IInv, Sorted, ChosenBy
  <2>5. matches(f, L, entries[e].skip) <=>
            /\ ~ (Tokens(r, TRUE) \cap L # {})
            /\ IF Tokens(r, FALSE) = {} THEN ~entries[e].skip ELSE Tokens(r, FALSE) \cap L # {}
    BY DEF matches, parse
  <2> HIDE DEF L, f
  <2>6. \A t \in DOMAIN r : r[t].neg \in BOOLEAN
    BY <2>1, TokensOf
  <2>7. /\ (Tokens(r, FALSE) \cap L # {}) <=> (\E t \in DOMAIN r : ~r[t].neg /\ r[t].tok \in L)
        /\ (Tokens(r, TRUE) \cap L # {}) <=> (\E t \in DOMAIN r : r[t].neg /\ r[t].tok \in L)
        /\ (Tokens(r, FALSE) = {}) <=> (\A t \in DOMAIN r : r[t].neg)
    BY <2>1, TokensOf
  <2>8. e \in tests <=>
            /\ \A t \in DOMAIN r : r[t].tok \in L => ~r[t].neg
            /\ IF {t \in DOMAIN r : ~r[t].neg} = {} THEN ~entries[e].skip
               ELSE \E t \in {t \in DOMAIN r : ~r[t].neg} : r[t].tok \in L
    BY <2>4, <2>5, <2>6, <2>7
  <2> QED BY <2>8, SkipIsWritten DEF L
<1> QED
  BY <1>1, Invariance, PTL

(***************************************************************************)
(* Nothing falls between filter and report, for all sets of tests, all     *)
(* filters and all numbers of repetitions (main, format_junit).            *)
(***************************************************************************)
THEOREM NothingIsDropped == Spec => []ReportComplete
<1>1. IInv => ReportComplete
  <2> SUFFICES ASSUME IInv, pc \in {"Ok", "Err"} PROVE ReportComplete
    BY DEF ReportComplete
  <2>1. i = Len(entries) + 1 /\ scheduled = [e \in tests |-> repeat]
    BY DEF IInv, Scheduled
  <2>2. repeat > 0
    BY InputAssumption DEF IInv, TypeOK, Configured
  <2>3. 1 .. i - 1 = DOMAIN entries
    BY <2>1, EntriesAre
  <2>4. ASSUME NEW e \in DOMAIN entries
        PROVE  /\ e \in tests <=> ChosenBy(filter, entries[e])
               /\ e \in skips <=> junit /\ AnnotatedBy(filter, entries[e])
    BY <2>3 DEF IInv, Sorted
  <2>5. tests \cap skips = {}
    <3>1. tests \subseteq DOMAIN entries
      BY <2>3 DEF IInv, TypeOK
    <3> QED BY <2>4, <3>1 DEF AnnotatedBy
  <2>6. ASSUME junit, NEW e \in DOMAIN entries
        PROVE  (\E f \in filter : \/ f.exclude \cap Label(entries[e]) # {}
                                  \/ f.include # {} /\ f.include \cap Label(entries[e]) = {})
               <=> e \notin tests \cup skips
    <3> DEFINE E == entries[e]
               L == Label(entries[e])
    <3>1. E.skip \in BOOLEAN
      BY EntriesAre DEF Entry
    <3>2. e \in tests \cup skips <=> ChosenBy(filter, E) \/ AnnotatedBy(filter, E)
      BY <2>4, <2>6
    <3>3. CASE filter = {}
      BY <3>1, <3>2, <3>3 DEF ChosenBy, AnnotatedBy
    <3>4. ASSUME NEW f, filter = {f}
          PROVE  (\E g \in filter : g.exclude \cap L # {} \/ (g.include # {} /\ g.include \cap L = {}))
                 <=> e \notin tests \cup skips
      <4> HIDE DEF E, L
      <4>1. ChosenBy(filter, E) <=> matches(f, Label(E), E.skip)
        BY <3>4 DEF ChosenBy
      <4>2. AnnotatedBy(filter, E) <=> E.skip /\ ~ChosenBy(filter, E) /\ matches(f, Label(E), FALSE)
        BY <3>4 DEF AnnotatedBy
      <4>3. Label(E) = L
        BY DEF E, L
      <4>4. ChosenBy(filter, E) \/ AnnotatedBy(filter, E) <=>
                f.exclude \cap L = {} /\ (f.include # {} => f.include \cap L # {})
        BY <3>1, <4>1, <4>2, <4>3 DEF matches
      <4>5. (\E g \in filter : g.exclude \cap L # {} \/ (g.include # {} /\ g.include \cap L = {}))
            <=> (f.exclude \cap L # {} \/ (f.include # {} /\ f.include \cap L = {}))
        BY <3>4, Zenon
      <4> QED BY <3>2, <4>4, <4>5, Zenon
    <3>5. filter = {} \/ \E f : filter = {f}
      <4>1. filter = {parse(r) : r \in raw}
        BY DEF IInv, Configured
      <4> QED BY <4>1 DEF IInv, OneFilter
    <3> QED BY <3>3, <3>4, <3>5
  <2>7. PICK failures \in 0 .. Cardinality(tests) * repeat :
            /\ report = IF junit THEN {Counts(Cardinality(tests) * repeat, failures)} ELSE {}
            /\ failures = 0 <=> pc = "Ok"
    BY DEF IInv, Reported
  <2>8. /\ report # {} <=> junit
        /\ \A r \in report : /\ r.tests = r.skipped + Cardinality(tests) * repeat
                             /\ r.failures = 0 <=> pc = "Ok"
    <3>1. CASE junit
      <4>1. report = {Counts(Cardinality(tests) * repeat, failures)}
        BY <2>7, <3>1
      <4>2. \A n : /\ Counts(n, failures).tests = Counts(n, failures).skipped + n
                   /\ Counts(n, failures).failures = failures
        BY DEF Counts
      <4> QED BY <2>7, <3>1, <4>1, <4>2
    <3>2. CASE ~junit
      BY <2>7, <3>2
    <3> QED BY <3>1, <3>2
  <2>9. DOMAIN scheduled = tests /\ \A e \in DOMAIN scheduled : scheduled[e] > 0
    BY <2>1, <2>2
  <2> QED BY <2>5, <2>6, <2>8, <2>9 DEF ReportComplete
<1> QED
  BY <1>1, Invariance, PTL

(***************************************************************************)
(* The macro registers every test function once for every choice of values *)
(* that one of its attributes allows, for all attributes with any number   *)
(* of parameters and of values (test_fn, cartesian_product).               *)
(***************************************************************************)
THEOREM ProductIsRegistered == Spec => []ExpandsToProduct
<1>1. IInv => ExpandsToProduct
  <2> SUFFICES ASSUME IInv, pc # "macro", NEW f \in DOMAIN program
               PROVE  LET fn == program[f]
                          own == {e \in DOMAIN entries : entries[e].name = fn.name}
                      IN /\ \A a \in DOMAIN fn.attrs : \A g \in Assignments(fn.attrs[a]) :
                               \E e \in own : entries[e].props = Shown(fn.attrs[a], g)
                         /\ Cardinality(own) =
                               Cardinality(UNION {{<<a, g>> : g \in Assignments(fn.attrs[a])} :
                                                      a \in DOMAIN fn.attrs})
    BY DEF ExpandsToProduct
  <2> DEFINE fn == program[f]
             own == {e \in DOMAIN entries : entries[e].name = fn.name}
             U == ChoicesOf(fn)
             B == Registered(program)
             w == EntryAt(program)
  <2>1. program \in Programs /\ entries = Expanded(program)
    BY DEF IInv, TypeOK, Made
  <2>2. PICK h : Lists(entries, B, w, h)
    BY <2>1, ProgramLists
  <2>3. /\ entries \in Seq(Entry) /\ DOMAIN entries = 1 .. Len(entries)
        /\ \A e, g \in DOMAIN program : program[e].name = program[g].name => e = g
    BY <2>1, EntriesAre, Shapes
  <2>4. ASSUME NEW p \in B
        PROVE  /\ p = <<p[1], p[2]>> /\ p[1] \in DOMAIN program /\ p[2] \in ChoicesOf(program[p[1]])
               /\ w[p].name = program[p[1]].name
               /\ w[p].props = Shown(program[p[1]].attrs[p[2][1]], p[2][2])
               /\ h[p] \in DOMAIN entries /\ entries[h[p]] = w[p]
    <3>1. p = <<p[1], p[2]>> /\ p[1] \in DOMAIN program /\ p[2] \in ChoicesOf(program[p[1]])
      BY DEF Registered
    <3>2. w[p] = EntryOf(program[p[1]], p[2][1], p[2][2])
      BY DEF EntryAt
    <3>3. h[p] \in DOMAIN entries /\ entries[h[p]] = w[p]
      BY <2>2, <2>3 DEF Lists
    <3> HIDE DEF w
    <3> QED BY <3>1, <3>2, <3>3 DEF EntryOf
  <2>5. ASSUME NEW u \in U
        PROVE  /\ <<f, u>> \in B /\ h[<<f, u>>] \in own
               /\ entries[h[<<f, u>>]].props = Shown(fn.attrs[u[1]], u[2])
    <3> DEFINE p == <<f, u>>
    <3>1. p \in B /\ p[1] = f /\ p[2] = u
      BY DEF Registered
    <3> HIDE DEF p, B, w
    <3>2. /\ h[p] \in DOMAIN entries /\ entries[h[p]].name = fn.name
          /\ entries[h[p]].props = Shown(fn.attrs[u[1]], u[2])
      BY <2>4, <3>1
    <3> QED BY <3>1, <3>2 DEF p
  <2> DEFINE k == [u \in U |-> h[<<f, u>>]]
  <2>6. k \in Bijection(U, own)
    <3>1. k \in [U -> own]
      BY <2>5
    <3>2. \A u, v \in U : k[u] = k[v] => u = v
      <4> SUFFICES ASSUME NEW u \in U, NEW v \in U, h[<<f, u>>] = h[<<f, v>>] PROVE u = v
        OBVIOUS
      <4>1. <<f, u>> = <<f, v>>
        BY <2>2, <2>5 DEF Lists
      <4> QED BY <4>1
    <3>3. \A e \in own : \E u \in U : k[u] = e
      <4> SUFFICES ASSUME NEW e \in own PROVE \E u \in U : h[<<f, u>>] = e
        OBVIOUS
      <4>1. PICK p \in B : h[p] = e
        BY <2>2, <2>3 DEF Lists
      <4>2. p[1] = f
        BY <2>3, <2>4, <4>1
      <4>3. p = <<f, p[2]>> /\ p[2] \in U
        BY <2>4, <4>2
      <4> QED BY <4>1, <4>3
    <3> HIDE DEF k, own, U
    <3> QED BY <3>1, <3>2, <3>3 DEF Bijection, Injection, Surjection, IsInjective
  <2>7. Cardinality(own) = Cardinality(U)
    <3>1. IsFiniteSet(own)
      <4>1. IsFiniteSet(1 .. Len(entries)) /\ own \in SUBSET (1 .. Len(entries))
        BY <2>3, EntriesAre, FS_Interval
      <4> QED BY <4>1, FS_Subset
    <3> HIDE DEF k, own, U
    <3>2. ExistsBijection(U, own)
      BY <2>6 DEF ExistsBijection
    <3>3. ExistsBijection(own, U)
      BY <3>2, Fun_ExistsBijSymmetric
    <3> QED BY <3>1, <3>3, FS_Bijection
  <2>8. ASSUME NEW a \in DOMAIN fn.attrs, NEW g \in Assignments(fn.attrs[a])
        PROVE  \E e \in own : entries[e].props = Shown(fn.attrs[a], g)
    <3> DEFINE u == <<a, g>>
    <3>1. u \in U /\ u[1] = a /\ u[2] = g
      BY DEF ChoicesOf
    <3> HIDE DEF u, U, own
    <3> QED BY <2>5, <3>1
  <2> HIDE DEF own, k
  <2> QED BY <2>7, <2>8 DEF own, ChoicesOf
<1> QED
  BY <1>1, Invariance, PTL
=============================================================================
