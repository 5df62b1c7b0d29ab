------------------------- MODULE ReviewWritingProofs ------------------------
(***************************************************************************)
(* The review and its tables, for any references, sections, texts and      *)
(* bounds: a number in the text leads to the paper that its writer meant,  *)
(* the reference list is what the text cites, in the order of first use,   *)
(* a section cites only its evidence, and what is reviewed is stored.  A   *)
(* plan offers the best papers first, and the windows of sections that     *)
(* name no clusters cover all of them.                                     *)
(*                                                                         *)
(* The numbering is two recursions over sequences: the folds of Distinct   *)
(* and of FlattenSeq.  Each is unfolded once, into the sequence of its     *)
(* intermediate results (DistinctSteps, FlattenSteps); what holds of every *)
(* intermediate result is shown by a least counterexample (LeastNat).      *)
(***************************************************************************)
EXTENDS ReviewWriting, FiniteSetTheorems, SequenceTheorems, WellFoundedInduction, TLAPS

-----------------------------------------------------------------------------
(* Least counterexamples *)

\* A set of numbers that is not empty has a least element.
LEMMA LeastNat ==
  ASSUME NEW T \in SUBSET Nat, T # {}
  PROVE  \E m \in T : \A k \in T : m <= k
<1> DEFINE R == OpToRel(<, Nat)
<1>1. IsWellFoundedOn(R, Nat)
  BY NatLessThanWellFounded
<1>2. \A x, y \in Nat : x < y => <<x, y>> \in R
  BY DEF OpToRel
<1> HIDE DEF R
<1>3. PICK x \in T : \A y \in T : ~(<<y, x>> \in R)
  BY <1>1, WFMin, Zenon
<1>4. \A y \in T : y \in Nat /\ x \in Nat /\ ~(y < x)
  BY <1>2, <1>3, Zenon
<1> QED BY <1>4

\* Induction up to n, on a set: a set of numbers that has 0 and the successor of each of its
\* elements below n has every number up to n.
LEMMA UpTo ==
  ASSUME NEW n \in Nat, NEW P, 0 \in P, \A k \in 1..n : k - 1 \in P => k \in P
  PROVE  \A k \in 0..n : k \in P
<1> DEFINE T == {k \in 0..n : k \notin P}
<1> SUFFICES ASSUME T # {} PROVE FALSE
  OBVIOUS
<1>1. T \in SUBSET Nat
  OBVIOUS
<1>2. PICK m \in T : \A k \in T : m <= k
  BY <1>1, LeastNat
<1>3. m \in 1..n /\ m - 1 \in 0..n /\ m - 1 \notin T
  BY <1>2
<1> QED BY <1>3

\* A number up to m + 1 is one up to m, or the last.
LEMMA OneMore == \A m \in Nat : \A a \in 1..(m + 1) : a \in 1..m \/ a = m + 1
OBVIOUS

\* The largest of the first k positions.
LEMMA LastIsMax ==
  ASSUME NEW k \in Nat, NEW S \in SUBSET (1..k), k \in S
  PROVE  Max(S) = k
<1>1. k \in S /\ \A y \in S : k >= y
  OBVIOUS
<1>2. Max(S) \in S /\ \A y \in S : Max(S) >= y
  BY <1>1 DEF Max
<1>3. Max(S) \in 1..k /\ Max(S) >= k
  BY <1>1, <1>2
<1> QED BY <1>3

-----------------------------------------------------------------------------
(* Distinct *)

Fresh(seen, x) == IF Contains(seen, x) THEN seen ELSE Append(seen, x)

\* The recursion of Distinct(s) on the sets of positions of D.
Scan(s, D, i) ==
  i = [S \in SUBSET D |-> IF S = {} THEN <<>> ELSE Fresh(i[S \ {Max(S)}], s[Max(S)])]

\* Distinct is the fold of the library over all positions.
LEMMA DistinctIsScan ==
  ASSUME NEW s
  PROVE  Distinct(s) = (CHOOSE i : Scan(s, DOMAIN s, i))[DOMAIN s]
BY DEF Distinct, FoldLeft, MapThenFoldSet, Scan, Fresh

\* The recursion has a solution.
LEMMA ScanExists ==
  ASSUME NEW s, NEW n \in Nat
  PROVE  \E i : Scan(s, 1..n, i)
<1> DEFINE P == {k \in 0..n : \E i : Scan(s, 1..k, i)}
<1>1. 0 \in P
  <2> DEFINE i == [S \in SUBSET (1..0) |-> <<>>]
  <2>1. \A S \in SUBSET (1..0) : S = {}
    OBVIOUS
  <2>2. Scan(s, 1..0, i)
    BY <2>1 DEF Scan
  <2> QED BY <2>2
<1>2. ASSUME NEW k \in 1..n, k - 1 \in P PROVE k \in P
  <2>1. PICK i : Scan(s, 1..(k - 1), i)
    BY <1>2
  <2> DEFINE j == [S \in SUBSET (1..k) |->
                     IF k \in S THEN Fresh(i[S \ {k}], s[k]) ELSE i[S]]
  <2>2. \A S \in SUBSET (1..k) : k \notin S => S \in SUBSET (1..(k - 1))
    OBVIOUS
  <2>3. \A S \in SUBSET (1..(k - 1)) : S \in SUBSET (1..k) /\ k \notin S
    OBVIOUS
  <2>4. ASSUME NEW S \in SUBSET (1..k)
        PROVE  j[S] = IF S = {} THEN <<>> ELSE Fresh(j[S \ {Max(S)}], s[Max(S)])
    <3>1. CASE k \in S
      <4>1. Max(S) = k
        BY <3>1, LastIsMax
      <4>2. S \ {k} \in SUBSET (1..k) /\ k \notin S \ {k}
        OBVIOUS
      <4>3. j[S \ {k}] = i[S \ {k}] /\ j[S] = Fresh(i[S \ {k}], s[k])
        BY <3>1, <4>2
      <4> QED BY <3>1, <4>1, <4>3
    <3>2. CASE k \notin S
      <4>1. S \in SUBSET (1..(k - 1)) /\ S \ {Max(S)} \in SUBSET (1..k) /\ k \notin S \ {Max(S)}
        BY <2>2, <3>2
      <4>2. j[S] = i[S] /\ j[S \ {Max(S)}] = i[S \ {Max(S)}]
        BY <3>2, <4>1
      <4>3. i[S] = IF S = {} THEN <<>> ELSE Fresh(i[S \ {Max(S)}], s[Max(S)])
        BY <2>1, <4>1 DEF Scan
      <4> QED BY <4>2, <4>3
    <3> QED BY <3>1, <3>2
  <2>5. j = [S \in SUBSET (1..k) |-> j[S]]
    OBVIOUS
  <2> HIDE DEF j
  <2>6. Scan(s, 1..k, j)
    BY <2>4, <2>5 DEF Scan
  <2> QED BY <2>6
<1> HIDE DEF P
<1>3. n \in P
  BY <1>1, <1>2, UpTo
<1> QED BY <1>3 DEF P

\* The results of Distinct for every prefix of s, whose elements are in X.
Passes(X, s, d) ==
  /\ d \in [0..Len(s) -> Seq(X)]
  /\ d[0] = <<>> /\ \A k \in 1..Len(s) : d[k] = Fresh(d[k - 1], s[k])
  /\ Distinct(s) = d[Len(s)]

\* Distinct(s) is the last of these results.
LEMMA DistinctSteps ==
  ASSUME NEW X, NEW s \in Seq(X)
  PROVE  \E d : Passes(X, s, d)
<1> DEFINE n == Len(s)
<1>1. n \in Nat /\ DOMAIN s = 1..n /\ \A k \in 1..n : s[k] \in X
  BY LenProperties, ElementOfSeq
<1> HIDE DEF n
<1>2. PICK i : Scan(s, 1..n, i) /\ Distinct(s) = i[1..n]
  BY <1>1, DistinctIsScan, ScanExists
<1> DEFINE d == [k \in 0..n |-> i[1..k]]
<1>3. d[0] = <<>>
  <2>1. {} \in SUBSET (1..n) /\ 1..0 = {}
    OBVIOUS
  <2>2. i[{}] = <<>>
    BY <1>2, <2>1 DEF Scan
  <2> QED BY <1>1, <2>1, <2>2
<1>4. ASSUME NEW k \in 1..n PROVE d[k] = Fresh(d[k - 1], s[k])
  <2>1. 1..k \in SUBSET (1..n) /\ 1..k # {} /\ k \in 1..k /\ k \in Nat
    BY <1>1
  <2>2. Max(1..k) = k
    BY <2>1, LastIsMax
  <2>3. (1..k) \ {k} = 1..(k - 1)
    BY <1>1
  <2>4. i[1..k] = Fresh(i[(1..k) \ {Max(1..k)}], s[Max(1..k)])
    BY <1>2, <2>1 DEF Scan
  <2>5. d[k] = i[1..k] /\ d[k - 1] = i[1..(k - 1)]
    BY <1>1
  <2> QED BY <2>2, <2>3, <2>4, <2>5
<1>5. Distinct(s) = d[n] /\ d = [k \in 0..n |-> d[k]]
  BY <1>1, <1>2
<1> HIDE DEF d
<1>6. \A k \in 0..n : d[k] \in Seq(X)
  <2> DEFINE P == {k \in 0..n : d[k] \in Seq(X)}
  <2>1. 0 \in P
    <3>1. <<>> \in Seq(X) /\ 0 \in 0..n
      BY <1>1, EmptySeq
    <3> QED BY <1>3, <3>1
  <2>2. ASSUME NEW k \in 1..n, k - 1 \in P PROVE k \in P
    <3>1. d[k] = d[k - 1] \/ d[k] = Append(d[k - 1], s[k])
      BY <1>4 DEF Fresh
    <3>2. d[k - 1] \in Seq(X) /\ s[k] \in X
      BY <1>1, <2>2
    <3>3. d[k] \in Seq(X)
      BY <3>1, <3>2, AppendProperties
    <3> QED BY <1>1, <3>3
  <2> HIDE DEF P
  <2>3. \A k \in 0..n : k \in P
    BY <1>1, <2>1, <2>2, UpTo
  <2> QED BY <2>3 DEF P
<1>7. d \in [0..n -> Seq(X)]
  BY <1>5, <1>6
<1> QED BY <1>3, <1>4, <1>5, <1>7 DEF n, Passes

\* The intermediate results of Distinct: without repetitions, each the beginning of all later
\* ones, and with every element that was seen.
LEMMA DistinctPrefixes ==
  ASSUME NEW X, NEW s \in Seq(X), NEW d, Passes(X, s, d)
  PROVE  LET r == Distinct(s) IN
         /\ \A a, b \in 1..Len(r) : r[a] = r[b] => a = b
         /\ \A j \in 1..Len(s) : Contains(r, s[j])
         /\ \A k \in 0..Len(s) : /\ Len(d[k]) \in Nat /\ Len(d[k]) <= Len(r)
                                 /\ \A a \in 1..Len(d[k]) : r[a] = d[k][a]
<1>n. PICK n \in Nat : n = Len(s)
  BY LenProperties
<1>a. /\ d \in [0..n -> Seq(X)] /\ d[0] = <<>> /\ Distinct(s) = d[n]
       /\ \A k \in 1..n : d[k] = Fresh(d[k - 1], s[k])
  BY <1>n DEF Passes
<1> DEFINE Inj(q) == \A a, b \in 1..Len(q) : q[a] = q[b] => a = b
           Begins(p, q) == Len(p) <= Len(q) /\ \A a \in 1..Len(p) : q[a] = p[a]
           All(k) == /\ Inj(d[k])
                     /\ \A j \in 1..k : Contains(d[k], s[j])
                     /\ \A j \in 0..k : Begins(d[j], d[k])
           P == {k \in 0..n : All(k)}
<1>1. \A k \in 0..n : d[k] \in Seq(X) /\ Len(d[k]) \in Nat
  BY <1>a, LenProperties
<1>2. \A k \in 1..n : s[k] \in X
  BY <1>n, ElementOfSeq
<1>3. 0 \in P
  <2>1. Len(d[0]) = 0
    BY <1>a
  <2>2. All(0)
    BY <2>1
  <2> QED BY <2>2
<1>4. ASSUME NEW k \in 1..n, k - 1 \in P PROVE k \in P
  <2>1. /\ k - 1 \in 0..n /\ k \in 0..n /\ All(k - 1)
        /\ d[k - 1] \in Seq(X) /\ Len(d[k - 1]) \in Nat /\ s[k] \in X
    BY <1>1, <1>2, <1>4
  <2>2. CASE Contains(d[k - 1], s[k])
    <3>1. d[k] = d[k - 1]
      BY <1>a, <2>2 DEF Fresh
    <3>2. \A j \in 1..k : j = k \/ j \in 1..(k - 1)
      OBVIOUS
    <3>3. \A j \in 0..k : j = k \/ j \in 0..(k - 1)
      OBVIOUS
    <3>4. \A j \in 1..k : Contains(d[k], s[j])
      BY <2>1, <2>2, <3>1, <3>2
    <3>5. \A j \in 0..k : Begins(d[j], d[k])
      BY <2>1, <3>1, <3>3
    <3> QED BY <2>1, <3>1, <3>4, <3>5
  <2>3. CASE ~Contains(d[k - 1], s[k])
    <3> DEFINE q == d[k - 1]
    <3>1. d[k] = Append(q, s[k])
      BY <1>a, <2>3 DEF Fresh
    <3>2. /\ Len(d[k]) = Len(q) + 1 /\ d[k][Len(q) + 1] = s[k]
          /\ \A a \in 1..Len(q) : d[k][a] = q[a]
      BY <2>1, <3>1, AppendProperties
    <3>3. \A a \in 1..Len(q) : q[a] # s[k]
      BY <2>3 DEF Contains
    <3>4. Inj(q) /\ (\A j \in 1..(k - 1) : Contains(q, s[j]))
          /\ \A j \in 0..(k - 1) : Begins(d[j], q)
      BY <2>1
    <3>5. \A j \in 0..(k - 1) : Len(d[j]) \in Nat
      BY <1>1
    <3> HIDE DEF q
    <3>6. Len(q) \in Nat
      BY <2>1 DEF q
    <3>7. Inj(d[k])
      <4>1. ASSUME NEW a \in 1..Len(q) + 1, NEW b \in 1..Len(q) + 1, d[k][a] = d[k][b]
            PROVE  a = b
        <5>1. a \in 1..Len(q) \/ a = Len(q) + 1
          BY <3>6, OneMore
        <5>2. b \in 1..Len(q) \/ b = Len(q) + 1
          BY <3>6, OneMore
        <5> QED BY <3>2, <3>3, <3>4, <4>1, <5>1, <5>2
      <4> QED BY <3>2, <4>1
    <3>8. \A j \in 1..k : Contains(d[k], s[j])
      <4>1. ASSUME NEW j \in 1..(k - 1) PROVE Contains(d[k], s[j])
        <5>1. PICK i \in 1..Len(q) : q[i] = s[j]
          BY <3>4 DEF Contains
        <5>2. i \in 1..Len(d[k]) /\ d[k][i] = s[j]
          BY <3>2, <3>6, <5>1
        <5> QED BY <5>2 DEF Contains
      <4>2. Contains(d[k], s[k])
        BY <3>2, <3>6 DEF Contains
      <4>3. \A j \in 1..k : j = k \/ j \in 1..(k - 1)
        OBVIOUS
      <4> QED BY <4>1, <4>2, <4>3
    <3>9. \A j \in 0..k : Begins(d[j], d[k])
      <4>1. ASSUME NEW j \in 0..(k - 1) PROVE Begins(d[j], d[k])
        <5>1. Begins(d[j], q) /\ Len(d[j]) \in Nat
          BY <3>4, <3>5
        <5> QED BY <3>2, <3>6, <5>1
      <4>2. Begins(d[k], d[k])
        BY <1>1, <2>1
      <4>3. \A j \in 0..k : j = k \/ j \in 0..(k - 1)
        OBVIOUS
      <4> QED BY <4>1, <4>2, <4>3
    <3> QED BY <2>1, <3>7, <3>8, <3>9
  <2> QED BY <2>2, <2>3
<1> HIDE DEF P
<1>5. \A k \in 0..n : k \in P
  BY <1>3, <1>4, UpTo
<1>6. \A k \in 0..n : All(k)
  BY <1>5 DEF P
<1>7. n \in 0..n
  OBVIOUS
<1>8. All(n)
  BY <1>6, <1>7
<1> QED BY <1>n, <1>a, <1>1, <1>8

Counting(n) == [k \in 1..n |-> k]

\* A document is numbered by the places of its elements in Distinct of it: the numbers are used
\* for the first time one after the other.
LEMMA FirstUseCounts ==
  ASSUME NEW X, NEW s \in Seq(X), NEW r, r = Distinct(s), NEW t \in Seq(Nat), Len(t) = Len(s),
         \A k \in 1..Len(s) : t[k] \in 1..Len(r) /\ r[t[k]] = s[k]
  PROVE  Distinct(t) = Counting(Len(r))
<1>1. PICK n \in Nat : n = Len(s) /\ n = Len(t)
  BY LenProperties
<1>2. PICK d : Passes(X, s, d)
  BY DistinctSteps
<1>3. PICK e : Passes(Nat, t, e)
  BY DistinctSteps
<1>4. \A k \in 1..n : t[k] \in 1..Len(r) /\ r[t[k]] = s[k] /\ t[k] \in Nat /\ s[k] \in X
  BY <1>1, ElementOfSeq
<1>5. /\ \A a, b \in 1..Len(r) : r[a] = r[b] => a = b
      /\ \A k \in 0..n : /\ Len(d[k]) \in Nat /\ Len(d[k]) <= Len(r)
                         /\ \A a \in 1..Len(d[k]) : r[a] = d[k][a]
  BY <1>1, <1>2, DistinctPrefixes
<1>d. /\ d \in [0..n -> Seq(X)] /\ d[0] = <<>> /\ r = d[n]
      /\ \A k \in 1..n : d[k] = Fresh(d[k - 1], s[k])
  BY <1>1, <1>2 DEF Passes
<1>e. /\ e \in [0..n -> Seq(Nat)] /\ e[0] = <<>> /\ Distinct(t) = e[n]
      /\ \A k \in 1..n : e[k] = Fresh(e[k - 1], t[k])
  BY <1>1, <1>3 DEF Passes
<1> DEFINE Same(k) == Len(e[k]) = Len(d[k]) /\ \A a \in 1..Len(d[k]) : e[k][a] = a
           P == {k \in 0..n : Same(k)}
<1>6. 0 \in P
  <2>1. Len(d[0]) = 0 /\ Len(e[0]) = 0 /\ 0 \in 0..n
    BY <1>d, <1>e
  <2>2. Same(0)
    BY <2>1
  <2> QED BY <2>1, <2>2
<1>7. ASSUME NEW k \in 1..n, k - 1 \in P PROVE k \in P
  <2> DEFINE p == d[k - 1]
             q == e[k - 1]
  <2>1. /\ k \in 0..n /\ k - 1 \in 0..n /\ p \in Seq(X) /\ q \in Seq(Nat)
        /\ Len(q) = Len(p) /\ \A a \in 1..Len(p) : q[a] = a
    BY <1>d, <1>e, <1>7
  <2>2. d[k] = Fresh(p, s[k]) /\ e[k] = Fresh(q, t[k])
    BY <1>d, <1>e
  <2>3. Len(p) \in Nat /\ Len(p) <= Len(r) /\ \A a \in 1..Len(p) : r[a] = p[a]
    BY <1>5, <2>1
  <2>4. t[k] \in 1..Len(r) /\ r[t[k]] = s[k] /\ s[k] \in X /\ t[k] \in Nat
    BY <1>4
  <2> HIDE DEF p, q
  <2>5. Contains(p, s[k]) <=> t[k] \in 1..Len(p)
    <3>1. ASSUME NEW a \in 1..Len(p), p[a] = s[k] PROVE t[k] = a
      <4>1. a \in 1..Len(r) /\ r[a] = r[t[k]]
        BY <2>3, <2>4, <3>1, LenProperties
      <4> QED BY <1>5, <2>4, <4>1
    <3> QED BY <2>3, <2>4, <3>1 DEF Contains
  <2>6. Contains(q, t[k]) <=> t[k] \in 1..Len(p)
    BY <2>1 DEF Contains
  <2>7. CASE t[k] \in 1..Len(p)
    <3>1. d[k] = p /\ e[k] = q
      BY <2>2, <2>5, <2>6, <2>7 DEF Fresh
    <3> QED BY <2>1, <3>1
  <2>8. CASE t[k] \notin 1..Len(p)
    <3>1. d[k] = Append(p, s[k]) /\ e[k] = Append(q, t[k])
      BY <2>2, <2>5, <2>6, <2>8 DEF Fresh
    <3>2. Len(d[k]) = Len(p) + 1 /\ d[k][Len(p) + 1] = s[k]
      BY <2>1, <2>4, <3>1, AppendProperties
    <3>3. /\ Len(e[k]) = Len(p) + 1 /\ e[k][Len(p) + 1] = t[k]
          /\ \A a \in 1..Len(p) : e[k][a] = a
      BY <2>1, <2>4, <3>1, AppendProperties
    <3>4. Len(p) + 1 \in 1..Len(r) /\ r[Len(p) + 1] = s[k]
      <4>1. /\ Len(d[k]) <= Len(r) /\ \A a \in 1..Len(d[k]) : r[a] = d[k][a]
        BY <1>5, <2>1
      <4>2. Len(r) \in Nat
        BY <1>5, <1>d
      <4> QED BY <2>3, <3>2, <4>1, <4>2
    <3>5. t[k] = Len(p) + 1
      BY <1>5, <2>4, <3>4
    <3>6. \A a \in 1..(Len(p) + 1) : e[k][a] = a
      BY <2>3, <3>3, <3>5
    <3> QED BY <2>1, <3>2, <3>3, <3>6
  <2> QED BY <2>7, <2>8
<1> HIDE DEF P
<1>8. \A k \in 0..n : k \in P
  BY <1>6, <1>7, UpTo
<1>9. Len(e[n]) = Len(r) /\ \A a \in 1..Len(r) : e[n][a] = a
  <2>1. n \in 0..n
    OBVIOUS
  <2>2. Same(n)
    BY <1>8, <2>1 DEF P
  <2> QED BY <1>d, <2>2
<1>10. e[n] \in Seq(Nat)
  BY <1>e
<1>11. e[n] = Counting(Len(r))
  <2>1. DOMAIN e[n] = 1..Len(r) /\ e[n] = [a \in DOMAIN e[n] |-> e[n][a]]
    BY <1>9, <1>10, LenProperties
  <2> QED BY <1>9, <2>1 DEF Counting
<1> QED BY <1>e, <1>11

-----------------------------------------------------------------------------
(* FlattenSeq *)

\* The recursion of FlattenSeq on the first n of the sequences.
Joined(ss, n, f) == f = [i \in 1..n |-> IF i = 1 THEN ss[i] ELSE f[i - 1] \o ss[i]]

\* FlattenSeq is the last of the joined sequences of the library.
LEMMA FlattenIsJoined ==
  ASSUME NEW ss, Len(ss) # 0
  PROVE  FlattenSeq(ss) = (CHOOSE f : Joined(ss, Len(ss), f))[Len(ss)]
BY DEF FlattenSeq, Joined

\* The recursion has a solution.
LEMMA JoinedExists ==
  ASSUME NEW ss, NEW n \in Nat
  PROVE  \E f : Joined(ss, n, f)
<1> DEFINE P == {k \in 0..n : \E f : Joined(ss, k, f)}
<1>1. 0 \in P
  <2>1. Joined(ss, 0, [i \in 1..0 |-> <<>>])
    BY DEF Joined
  <2> QED BY <2>1
<1>2. ASSUME NEW k \in 1..n, k - 1 \in P PROVE k \in P
  <2>1. PICK f : Joined(ss, k - 1, f)
    BY <1>2
  <2> DEFINE g == [i \in 1..k |->
                     IF i < k THEN f[i] ELSE IF i = 1 THEN ss[i] ELSE f[i - 1] \o ss[i]]
  <2>2. ASSUME NEW i \in 1..k PROVE g[i] = IF i = 1 THEN ss[i] ELSE g[i - 1] \o ss[i]
    <3>1. CASE i < k
      <4>1. i \in 1..(k - 1)
        BY <3>1
      <4>2. f[i] = IF i = 1 THEN ss[i] ELSE f[i - 1] \o ss[i]
        BY <2>1, <4>1 DEF Joined
      <4>3. g[i] = f[i] /\ (i # 1 => g[i - 1] = f[i - 1])
        BY <3>1
      <4> QED BY <4>2, <4>3
    <3>2. CASE i = k
      <4>1. i # 1 => g[i - 1] = f[i - 1]
        BY <3>2
      <4>2. g[i] = IF i = 1 THEN ss[i] ELSE f[i - 1] \o ss[i]
        BY <3>2
      <4> QED BY <4>1, <4>2
    <3> QED BY <3>1, <3>2
  <2>3. g = [i \in 1..k |-> g[i]]
    OBVIOUS
  <2> HIDE DEF g
  <2>4. Joined(ss, k, g)
    BY <2>2, <2>3 DEF Joined
  <2> QED BY <2>4
<1> HIDE DEF P
<1>3. \A k \in 0..n : k \in P
  BY <1>1, <1>2, UpTo
<1>4. n \in 0..n
  OBVIOUS
<1> QED BY <1>3, <1>4 DEF P

\* What FlattenSeq has joined after each of the sequences, whose elements are in X.
Joins(X, ss, g) ==
  /\ g \in [0..Len(ss) -> Seq(X)]
  /\ g[0] = <<>> /\ \A k \in 1..Len(ss) : g[k] = g[k - 1] \o ss[k]
  /\ FlattenSeq(ss) = g[Len(ss)]

\* FlattenSeq(ss) is the last of these.
LEMMA FlattenSteps ==
  ASSUME NEW X, NEW ss \in Seq(Seq(X))
  PROVE  \E g : Joins(X, ss, g)
<1>1. PICK n \in Nat : n = Len(ss)
  BY LenProperties
<1>2. \A k \in 1..n : ss[k] \in Seq(X)
  BY <1>1, ElementOfSeq
<1>3. CASE n = 0
  <2>1. ss = <<>> /\ FlattenSeq(ss) = ss
    BY <1>1, <1>3, EmptySeq DEF FlattenSeq
  <2> DEFINE g == [k \in 0..0 |-> <<>>]
  <2>2. <<>> \in Seq(X)
    BY EmptySeq
  <2>3. g \in [0..0 -> Seq(X)] /\ g[0] = <<>>
    BY <2>2
  <2> HIDE DEF g
  <2>4. Joins(X, ss, g)
    BY <1>1, <1>3, <2>1, <2>3 DEF Joins
  <2> QED BY <2>4
<1>4. CASE n # 0
  <2>1. PICK f : Joined(ss, n, f) /\ FlattenSeq(ss) = f[n]
    BY <1>1, <1>4, FlattenIsJoined, JoinedExists
  <2> DEFINE g == [k \in 0..n |-> IF k = 0 THEN <<>> ELSE f[k]]
  <2>2. g[0] = <<>> /\ FlattenSeq(ss) = g[n] /\ g = [k \in 0..n |-> g[k]]
    BY <1>4, <2>1
  <2>3. ASSUME NEW k \in 1..n PROVE g[k] = g[k - 1] \o ss[k]
    <3>1. f[k] = IF k = 1 THEN ss[k] ELSE f[k - 1] \o ss[k]
      BY <2>1 DEF Joined
    <3>2. <<>> \o ss[k] = ss[k]
      BY <1>2, ConcatEmptySeq
    <3>3. g[k] = f[k] /\ g[k - 1] = IF k = 1 THEN <<>> ELSE f[k - 1]
      OBVIOUS
    <3> QED BY <3>1, <3>2, <3>3
  <2> HIDE DEF g
  <2> DEFINE P == {k \in 0..n : g[k] \in Seq(X)}
  <2>4. 0 \in P
    <3>1. <<>> \in Seq(X) /\ 0 \in 0..n
      BY EmptySeq
    <3> QED BY <2>2, <3>1
  <2>5. ASSUME NEW k \in 1..n, k - 1 \in P PROVE k \in P
    <3>1. g[k - 1] \in Seq(X) /\ ss[k] \in Seq(X)
      BY <1>2, <2>5
    <3>2. g[k] \in Seq(X)
      BY <2>3, <3>1, ConcatProperties
    <3> QED BY <3>2
  <2> HIDE DEF P
  <2>6. \A k \in 0..n : k \in P
    BY <2>4, <2>5, UpTo
  <2>7. \A k \in 0..n : g[k] \in Seq(X)
    BY <2>6 DEF P
  <2>8. g \in [0..n -> Seq(X)]
    BY <2>2, <2>7
  <2>9. Joins(X, ss, g)
    BY <1>1, <2>2, <2>3, <2>8 DEF Joins
  <2> QED BY <2>9
<1> QED BY <1>3, <1>4

\* A text of sections is a text, and has every element of every section.
LEMMA FlattenHas ==
  ASSUME NEW X, NEW ss \in Seq(Seq(X))
  PROVE  /\ FlattenSeq(ss) \in Seq(X)
         /\ \A j \in 1..Len(ss) : \A i \in 1..Len(ss[j]) : Contains(FlattenSeq(ss), ss[j][i])
<1>1. PICK n \in Nat : n = Len(ss)
  BY LenProperties
<1>2. PICK g : Joins(X, ss, g)
  BY FlattenSteps
<1>3. /\ g \in [0..n -> Seq(X)] /\ g[0] = <<>> /\ FlattenSeq(ss) = g[n]
      /\ \A k \in 1..n : g[k] = g[k - 1] \o ss[k]
  BY <1>1, <1>2 DEF Joins
<1>4. \A k \in 1..n : ss[k] \in Seq(X)
  BY <1>1, ElementOfSeq
<1> DEFINE Has(k) == \A j \in 1..k : \A i \in 1..Len(ss[j]) : Contains(g[k], ss[j][i])
           P == {k \in 0..n : Has(k)}
<1>5. 0 \in P
  OBVIOUS
<1>6. ASSUME NEW k \in 1..n, k - 1 \in P PROVE k \in P
  <2> DEFINE p == g[k - 1]
  <2>1. p \in Seq(X) /\ ss[k] \in Seq(X) /\ Has(k - 1) /\ g[k] = p \o ss[k]
    BY <1>3, <1>4, <1>6
  <2>2. /\ Len(p) \in Nat /\ Len(ss[k]) \in Nat /\ Len(g[k]) = Len(p) + Len(ss[k])
        /\ \A i \in 1..Len(p) + Len(ss[k]) :
             g[k][i] = IF i <= Len(p) THEN p[i] ELSE ss[k][i - Len(p)]
    <3> HIDE DEF p
    <3>1. Len(p) \in Nat /\ Len(ss[k]) \in Nat
      BY <2>1, LenProperties
    <3>2. /\ Len(p \o ss[k]) = Len(p) + Len(ss[k])
          /\ \A i \in 1..Len(p) + Len(ss[k]) :
               (p \o ss[k])[i] = IF i <= Len(p) THEN p[i] ELSE ss[k][i - Len(p)]
      BY <2>1, ConcatProperties
    <3> QED BY <2>1, <3>1, <3>2
  <2> HIDE DEF p
  <2>3. ASSUME NEW i \in 1..Len(ss[k]) PROVE Contains(g[k], ss[k][i])
    <3>1. Len(p) + i \in 1..Len(g[k]) /\ g[k][Len(p) + i] = ss[k][i]
      BY <2>2
    <3> QED BY <3>1 DEF Contains
  <2>4. ASSUME NEW j \in 1..(k - 1), NEW i \in 1..Len(ss[j]) PROVE Contains(g[k], ss[j][i])
    <3>1. PICK a \in 1..Len(p) : p[a] = ss[j][i]
      BY <2>1 DEF Contains, p
    <3>2. a \in 1..Len(g[k]) /\ g[k][a] = ss[j][i]
      BY <2>2, <3>1
    <3> QED BY <3>2 DEF Contains
  <2>5. \A j \in 1..k : j = k \/ j \in 1..(k - 1)
    OBVIOUS
  <2>6. Has(k)
    BY <2>3, <2>4, <2>5
  <2> QED BY <2>6
<1> HIDE DEF P
<1>7. \A k \in 0..n : k \in P
  BY <1>5, <1>6, UpTo
<1>8. n \in 0..n
  OBVIOUS
<1>9. Has(n)
  BY <1>7, <1>8 DEF P
<1> QED BY <1>1, <1>3, <1>8, <1>9

-----------------------------------------------------------------------------
(* Numbering *)

\* t has, for each element of s, a place of that element in r.
Numbers(t, s, r) ==
  Len(t) = Len(s) /\ \A k \in 1..Len(s) : t[k] \in 1..Len(r) /\ r[t[k]] = s[k]

\* Texts are numbered one after the other.
LEMMA NumbersConcat ==
  ASSUME NEW X, NEW s1 \in Seq(X), NEW s2 \in Seq(X), NEW t1 \in Seq(Nat), NEW t2 \in Seq(Nat),
         NEW r, Numbers(t1, s1, r), Numbers(t2, s2, r)
  PROVE  Numbers(t1 \o t2, s1 \o s2, r)
<1>1. PICK m \in Nat, n \in Nat : m = Len(s1) /\ m = Len(t1) /\ n = Len(s2) /\ n = Len(t2)
  BY LenProperties DEF Numbers
<1>2. /\ Len(s1 \o s2) = m + n
      /\ \A i \in 1..m + n : (s1 \o s2)[i] = IF i <= m THEN s1[i] ELSE s2[i - m]
  <2>1. /\ Len(s1 \o s2) = Len(s1) + Len(s2)
        /\ \A i \in 1..Len(s1) + Len(s2) :
             (s1 \o s2)[i] = IF i <= Len(s1) THEN s1[i] ELSE s2[i - Len(s1)]
    BY ConcatProperties
  <2> QED BY <1>1, <2>1
<1>3. /\ Len(t1 \o t2) = m + n
      /\ \A i \in 1..m + n : (t1 \o t2)[i] = IF i <= m THEN t1[i] ELSE t2[i - m]
  <2>1. /\ Len(t1 \o t2) = Len(t1) + Len(t2)
        /\ \A i \in 1..Len(t1) + Len(t2) :
             (t1 \o t2)[i] = IF i <= Len(t1) THEN t1[i] ELSE t2[i - Len(t1)]
    BY ConcatProperties
  <2> QED BY <1>1, <2>1
<1>4. ASSUME NEW i \in 1..m + n
      PROVE  (t1 \o t2)[i] \in 1..Len(r) /\ r[(t1 \o t2)[i]] = (s1 \o s2)[i]
  <2>1. CASE i <= m
    <3>1. i \in 1..m
      BY <2>1
    <3> QED BY <1>1, <1>2, <1>3, <2>1, <3>1 DEF Numbers
  <2>2. CASE ~(i <= m)
    <3>1. i - m \in 1..n
      BY <2>2
    <3>2. t2[i - m] \in 1..Len(r) /\ r[t2[i - m]] = s2[i - m]
      BY <1>1, <3>1 DEF Numbers
    <3>3. (t1 \o t2)[i] = t2[i - m] /\ (s1 \o s2)[i] = s2[i - m]
      BY <1>2, <1>3, <2>2
    <3> QED BY <3>2, <3>3
  <2> QED BY <2>1, <2>2
<1> QED BY <1>2, <1>3, <1>4 DEF Numbers

\* Sections that are numbered make a numbered text.
LEMMA NumbersFlatten ==
  ASSUME NEW X, NEW ss \in Seq(Seq(X)), NEW tt \in Seq(Seq(Nat)), Len(tt) = Len(ss), NEW r,
         \A j \in 1..Len(ss) : Numbers(tt[j], ss[j], r)
  PROVE  Numbers(FlattenSeq(tt), FlattenSeq(ss), r)
<1>1. PICK n \in Nat : n = Len(ss) /\ n = Len(tt)
  BY LenProperties
<1>2. PICK g, h : Joins(X, ss, g) /\ Joins(Nat, tt, h)
  BY FlattenSteps
<1>3. /\ g \in [0..n -> Seq(X)] /\ g[0] = <<>> /\ FlattenSeq(ss) = g[n]
      /\ \A k \in 1..n : g[k] = g[k - 1] \o ss[k]
  BY <1>1, <1>2 DEF Joins
<1>4. /\ h \in [0..n -> Seq(Nat)] /\ h[0] = <<>> /\ FlattenSeq(tt) = h[n]
      /\ \A k \in 1..n : h[k] = h[k - 1] \o tt[k]
  BY <1>1, <1>2 DEF Joins
<1>5. \A k \in 1..n : ss[k] \in Seq(X) /\ tt[k] \in Seq(Nat)
  BY <1>1, ElementOfSeq
<1> DEFINE P == {k \in 0..n : Numbers(h[k], g[k], r)}
<1>6. 0 \in P
  <2>1. Numbers(h[0], g[0], r)
    BY <1>3, <1>4 DEF Numbers
  <2> QED BY <2>1
<1>7. ASSUME NEW k \in 1..n, k - 1 \in P PROVE k \in P
  <2>1. g[k - 1] \in Seq(X) /\ h[k - 1] \in Seq(Nat) /\ ss[k] \in Seq(X) /\ tt[k] \in Seq(Nat)
    BY <1>3, <1>4, <1>5
  <2>2. Numbers(h[k - 1], g[k - 1], r) /\ Numbers(tt[k], ss[k], r)
    BY <1>1, <1>7
  <2>3. Numbers(h[k - 1] \o tt[k], g[k - 1] \o ss[k], r)
    BY <2>1, <2>2, NumbersConcat
  <2>4. Numbers(h[k], g[k], r)
    BY <1>3, <1>4, <2>3
  <2> QED BY <2>4
<1> HIDE DEF P
<1>8. \A k \in 0..n : k \in P
  BY <1>6, <1>7, UpTo
<1>9. n \in 0..n
  OBVIOUS
<1>10. Numbers(h[n], g[n], r)
  BY <1>8, <1>9 DEF P
<1> QED BY <1>3, <1>4, <1>10

\* Remap numbers a text by a list that has all its elements.
LEMMA RemapNumbers ==
  ASSUME NEW X, NEW s \in Seq(X), NEW r \in Seq(X), \A k \in 1..Len(s) : Contains(r, s[k])
  PROVE  Remap(s, r) \in Seq(1..Len(r)) /\ Numbers(Remap(s, r), s, r)
<1> DEFINE t == Remap(s, r)
<1>1. Len(s) \in Nat /\ DOMAIN s = 1..Len(s) /\ Len(r) \in Nat
  BY LenProperties
<1>2. ASSUME NEW k \in 1..Len(s)
      PROVE  t[k] \in 1..Len(r) /\ r[t[k]] = s[k]
  <2> DEFINE I == {i \in 1..Len(r) : r[i] = s[k]}
  <2>1. t[k] = IF I # {} THEN Min(I) ELSE 0
    BY <1>1 DEF Remap, SelectInSeq
  <2>2. I # {} /\ I \in SUBSET Nat
    BY <1>1 DEF Contains
  <2>3. Min(I) \in I
    <3>1. \E m \in I : \A y \in I : m <= y
      BY <2>2, LeastNat
    <3> HIDE DEF I
    <3> QED BY <3>1 DEF Min
  <2>4. t[k] \in I
    BY <2>1, <2>2, <2>3
  <2> QED BY <2>4
<1>3. t = [k \in 1..Len(s) |-> t[k]]
  BY <1>1 DEF Remap
<1> HIDE DEF t
<1>4. t \in Seq(1..Len(r)) /\ Len(t) = Len(s)
  BY <1>1, <1>2, <1>3
<1> QED BY <1>2, <1>4 DEF Numbers, t

\* A text has what its parts have.
LEMMA ConcatHas ==
  ASSUME NEW X, NEW s \in Seq(X), NEW t \in Seq(X)
  PROVE  /\ s \o t \in Seq(X)
         /\ \A x : Contains(s, x) \/ Contains(t, x) => Contains(s \o t, x)
<1>1. Len(s) \in Nat /\ Len(t) \in Nat
  BY LenProperties
<1>2. /\ s \o t \in Seq(X) /\ Len(s \o t) = Len(s) + Len(t)
      /\ \A i \in 1..Len(s) + Len(t) :
           (s \o t)[i] = IF i <= Len(s) THEN s[i] ELSE t[i - Len(s)]
  BY ConcatProperties
<1>3. ASSUME NEW i \in 1..Len(s) PROVE Contains(s \o t, s[i])
  <2>1. i \in 1..Len(s \o t) /\ (s \o t)[i] = s[i]
    BY <1>1, <1>2
  <2> QED BY <2>1 DEF Contains
<1>4. ASSUME NEW i \in 1..Len(t) PROVE Contains(s \o t, t[i])
  <2>1. Len(s) + i \in 1..Len(s \o t) /\ (s \o t)[Len(s) + i] = t[i]
    BY <1>1, <1>2
  <2> QED BY <2>1 DEF Contains
<1> QED BY <1>2, <1>3, <1>4 DEF Contains

-----------------------------------------------------------------------------
(* A review *)

\* d is a review whose sections were meant to cite meaning: its numbers lead there, they are
\* used for the first time in order, and the sections stay with their evidence.
DraftOK(d, meaning) ==
  /\ d.refs \in Seq(Refs) /\ IsInjective(d.refs)
  /\ d.title \in Seq(1..Len(d.refs)) /\ d.abstract \in Seq(1..Len(d.refs))
  /\ d.bodies \in Seq(Seq(1..Len(d.refs)))
  /\ Distinct(Assembled(d.title, d.abstract, d.bodies)) = [k \in DOMAIN d.refs |-> k]
  /\ meaning \in Seq(Seq(Refs)) /\ Len(meaning) = Len(d.bodies)
  /\ \A s \in DOMAIN d.bodies :
       /\ Means(d.bodies[s], d.refs, meaning[s])
       /\ meaning[s] # <<>> /\ ToSet(meaning[s]) \subseteq d.allowed[s]

\* The abstract cites references of the project.
LEMMA AbstractCites ==
  ASSUME NEW bodies \in Seq(Seq(Refs)), \A s \in DOMAIN bodies : bodies[s] # <<>>, NEW cut
  PROVE  Abstract(bodies, cut) \in Seq(Refs)
<1> DEFINE to(s) == IF s \in cut THEN 0 ELSE 1
           openings == [s \in DOMAIN bodies |-> SubSeq(bodies[s], 1, to(s))]
<1>1. DOMAIN bodies = 1..Len(bodies) /\ Len(bodies) \in Nat
  BY LenProperties
<1>2. ASSUME NEW s \in DOMAIN bodies PROVE SubSeq(bodies[s], 1, to(s)) \in Seq(Refs)
  <2>1. bodies[s] \in Seq(Refs) /\ bodies[s] # <<>>
    BY <1>1, ElementOfSeq
  <2>2. bodies[s][1] \in Refs
    BY <2>1, EmptySeq, ElementOfSeq
  <2>3. to(s) \in {0, 1} /\ \A i \in 1..to(s) : bodies[s][i] \in Refs
    BY <2>2
  <2> HIDE DEF to
  <2> QED BY <2>3, SubSeqProperties
<1>3. openings \in Seq(Seq(Refs))
  BY <1>1, <1>2
<1> HIDE DEF openings
<1>4. FlattenSeq(openings) \in Seq(Refs)
  BY <1>3, FlattenHas
<1> QED BY <1>4 DEF Abstract, openings

\* What is accepted becomes a review that says what was meant.
LEMMA NumberedIsSound ==
  ASSUME NEW title \in Seq(Refs), NEW bodies \in Seq(Seq(Refs)), NEW cut, NEW allowed,
         \A s \in DOMAIN bodies : bodies[s] # <<>> /\ ToSet(bodies[s]) \subseteq allowed[s]
  PROVE  DraftOK(Numbered(title, bodies, allowed, cut), bodies)
<1> DEFINE abstract == Abstract(bodies, cut)
           body == FlattenSeq(bodies)
           doc == Assembled(title, abstract, bodies)
           r == FirstUse(doc)
           d == Numbered(title, bodies, allowed, cut)
           numbered == [s \in DOMAIN bodies |-> Remap(bodies[s], r)]
<1>1. PICK n \in Nat : n = Len(bodies) /\ DOMAIN bodies = 1..n
  BY LenProperties
<1>2. \A s \in 1..n : bodies[s] \in Seq(Refs)
  BY <1>1, ElementOfSeq
<1>3. abstract \in Seq(Refs)
  BY AbstractCites
<1>4. /\ body \in Seq(Refs)
      /\ \A j \in 1..n : \A i \in 1..Len(bodies[j]) : Contains(body, bodies[j][i])
  BY <1>1, FlattenHas
<1>5. doc = title \o abstract \o body
  BY DEF Assembled
<1>6. /\ d.title = Remap(title, r) /\ d.abstract = Remap(abstract, r) /\ d.bodies = numbered
      /\ d.refs = r /\ d.allowed = allowed
  BY DEF Numbered
<1>7. r = Distinct(doc)
  BY DEF FirstUse
<1> HIDE DEF abstract, body, doc, r, d
<1>8. /\ doc \in Seq(Refs)
      /\ \A x : Contains(title, x) \/ Contains(abstract, x) \/ Contains(body, x) => Contains(doc, x)
  <2> DEFINE front == title \o abstract
  <2>1. /\ front \in Seq(Refs)
        /\ \A x : Contains(title, x) \/ Contains(abstract, x) => Contains(front, x)
    BY <1>3, ConcatHas
  <2>2. doc = front \o body
    BY <1>5
  <2> HIDE DEF front
  <2>3. /\ doc \in Seq(Refs)
        /\ \A x : Contains(front, x) \/ Contains(body, x) => Contains(doc, x)
    BY <1>4, <2>1, <2>2, ConcatHas
  <2> QED BY <2>1, <2>3
<1>9. /\ r \in Seq(Refs) /\ \A j \in 1..Len(doc) : Contains(r, doc[j])
      /\ \A a, b \in 1..Len(r) : r[a] = r[b] => a = b
  <2>1. PICK e : Passes(Refs, doc, e)
    BY <1>8, DistinctSteps
  <2>2. Len(doc) \in Nat
    BY <1>8, LenProperties
  <2>3. r \in Seq(Refs)
    <3>1. e \in [0..Len(doc) -> Seq(Refs)] /\ r = e[Len(doc)]
      BY <1>7, <2>1 DEF Passes
    <3>2. Len(doc) \in 0..Len(doc)
      BY <2>2
    <3> QED BY <3>1, <3>2
  <2> QED BY <1>7, <1>8, <2>1, <2>3, DistinctPrefixes
<1>10. \A x : Contains(doc, x) => Contains(r, x)
  BY <1>9 DEF Contains
<1>11. DOMAIN r = 1..Len(r) /\ Len(r) \in Nat
  BY <1>9, LenProperties
<1>12. /\ \A k \in 1..Len(title) : Contains(title, title[k])
       /\ \A k \in 1..Len(abstract) : Contains(abstract, abstract[k])
  BY DEF Contains
<1>13. d.title \in Seq(1..Len(r)) /\ Numbers(d.title, title, r)
  BY <1>6, <1>8, <1>9, <1>10, <1>12, RemapNumbers
<1>14. d.abstract \in Seq(1..Len(r)) /\ Numbers(d.abstract, abstract, r)
  BY <1>3, <1>6, <1>8, <1>9, <1>10, <1>12, RemapNumbers
<1>15. ASSUME NEW s \in 1..n
       PROVE  Remap(bodies[s], r) \in Seq(1..Len(r)) /\ Numbers(Remap(bodies[s], r), bodies[s], r)
  <2>1. \A k \in 1..Len(bodies[s]) : Contains(r, bodies[s][k])
    BY <1>4, <1>8, <1>10
  <2> QED BY <1>2, <1>9, <2>1, RemapNumbers
<1>16. /\ numbered \in Seq(Seq(1..Len(r))) /\ Len(numbered) = n /\ DOMAIN numbered = 1..n
       /\ \A s \in 1..n : Numbers(numbered[s], bodies[s], r)
  <2>1. numbered = [s \in 1..n |-> Remap(bodies[s], r)]
    BY <1>1
  <2> HIDE DEF numbered
  <2>2. \A s \in 1..n : numbered[s] \in Seq(1..Len(r)) /\ Numbers(numbered[s], bodies[s], r)
    BY <1>15, <2>1
  <2>3. numbered = [s \in 1..n |-> numbered[s]]
    BY <2>1
  <2>4. numbered \in Seq(Seq(1..Len(r))) /\ Len(numbered) = n
    BY <2>2, <2>3
  <2> QED BY <2>2, <2>3, <2>4
<1> HIDE DEF numbered
<1>17. Distinct(Assembled(d.title, d.abstract, d.bodies)) = [k \in 1..Len(r) |-> k]
  <2> DEFINE t == d.title
             a == d.abstract
             b == FlattenSeq(numbered)
  <2>1. t \in Seq(Nat) /\ a \in Seq(Nat) /\ numbered \in Seq(Seq(Nat))
    <3>1. 1..Len(r) \subseteq Nat /\ Seq(1..Len(r)) \subseteq Seq(Nat)
      BY <1>11, SeqMonotonic
    <3> QED BY <1>13, <1>14, <1>16, <3>1, SeqMonotonic
  <2>2. Numbers(t, title, r) /\ Numbers(a, abstract, r)
    BY <1>13, <1>14
  <2>3. b \in Seq(Nat) /\ Numbers(b, body, r)
    <3>1. b \in Seq(Nat)
      BY <2>1, FlattenHas
    <3>2. /\ Len(numbered) = Len(bodies)
          /\ \A j \in 1..Len(bodies) : Numbers(numbered[j], bodies[j], r)
      BY <1>1, <1>16
    <3>3. Numbers(b, FlattenSeq(bodies), r)
      BY <2>1, <3>2, NumbersFlatten
    <3> QED BY <3>1, <3>3 DEF body
  <2>4. Assembled(d.title, d.abstract, d.bodies) = (t \o a) \o b
    BY <1>6 DEF Assembled
  <2> HIDE DEF t, a, b
  <2>5. t \o a \in Seq(Nat) /\ title \o abstract \in Seq(Refs)
    BY <1>3, <2>1, ConcatProperties
  <2>6. Numbers(t \o a, title \o abstract, r)
    BY <1>3, <2>1, <2>2, NumbersConcat
  <2>7. Numbers((t \o a) \o b, (title \o abstract) \o body, r)
    BY <1>4, <2>3, <2>5, <2>6, NumbersConcat
  <2>8. (t \o a) \o b \in Seq(Nat) /\ Numbers((t \o a) \o b, doc, r)
    BY <1>5, <2>3, <2>5, <2>7, ConcatProperties
  <2>9. Distinct((t \o a) \o b) = [k \in 1..Len(r) |-> k]
    <3> DEFINE all == (t \o a) \o b
    <3>1. /\ Len(all) = Len(doc) /\ all \in Seq(Nat)
          /\ \A k \in 1..Len(doc) : all[k] \in 1..Len(r) /\ r[all[k]] = doc[k]
      BY <2>8 DEF Numbers
    <3> HIDE DEF all
    <3>2. Distinct(all) = Counting(Len(r))
      BY <1>7, <1>8, <3>1, FirstUseCounts
    <3> QED BY <3>2 DEF all, Counting
  <2> QED BY <2>4, <2>9
<1>18. ASSUME NEW s \in 1..n PROVE Means(numbered[s], r, bodies[s])
  <2>1. numbered[s] \in Seq(1..Len(r)) /\ Numbers(numbered[s], bodies[s], r)
    BY <1>16, ElementOfSeq
  <2>2. DOMAIN numbered[s] = 1..Len(numbered[s])
    BY <2>1, LenProperties
  <2> QED BY <2>1, <2>2 DEF Means, Numbers
<1>19. IsInjective(d.refs)
  BY <1>6, <1>9, <1>11 DEF IsInjective
<1> QED BY <1>1, <1>6, <1>9, <1>11, <1>13, <1>14, <1>16, <1>17, <1>18, <1>19 DEF DraftOK, d

-----------------------------------------------------------------------------
(* First places *)

\* A function on the first n numbers is a sequence.
LEMMA FunctionIsSeq ==
  ASSUME NEW X, NEW n \in Nat, NEW f \in [1..n -> X]
  PROVE  f \in Seq(X) /\ Len(f) = n
OBVIOUS

\* p is the first place of its element in s.
FirstPlace(s, p) == \A j \in 1..p - 1 : s[j] # s[p]

\* f leads from r to the first places of its elements among the first n of s, in their order.
FirstPlaces(f, s, r, n) ==
  /\ f \in [1..Len(r) -> 1..n]
  /\ \A a \in 1..Len(r) : s[f[a]] = r[a] /\ FirstPlace(s, f[a])
  /\ \A a, b \in 1..Len(r) : a < b => f[a] < f[b]

\* Distinct keeps the order in which the elements come for the first time.
LEMMA DistinctKeepsOrder ==
  ASSUME NEW X, NEW s \in Seq(X)
  PROVE  \E f : FirstPlaces(f, s, Distinct(s), Len(s))
<1>1. PICK n \in Nat : n = Len(s)
  BY LenProperties
<1>2. PICK d : Passes(X, s, d)
  BY DistinctSteps
<1>3. /\ d \in [0..n -> Seq(X)] /\ d[0] = <<>> /\ Distinct(s) = d[n]
      /\ \A k \in 1..n : d[k] = Fresh(d[k - 1], s[k])
  BY <1>1, <1>2 DEF Passes
<1>4. \A k \in 0..n : d[k] \in Seq(X) /\ Len(d[k]) \in Nat
  BY <1>3, LenProperties
<1>5. \A k \in 1..n : s[k] \in X
  BY <1>1, ElementOfSeq
<1> DEFINE Seen(k) == \A j \in 1..k : Contains(d[k], s[j])
           P == {k \in 0..n : Seen(k) /\ \E f : FirstPlaces(f, s, d[k], k)}
<1>6. 0 \in P
  <2> DEFINE f == [a \in 1..0 |-> 0]
  <2>1. f \in [1..0 -> 1..0] /\ Len(d[0]) = 0
    BY <1>3
  <2>2. FirstPlaces(f, s, d[0], 0)
    BY <2>1 DEF FirstPlaces
  <2> QED BY <2>2
<1>7. ASSUME NEW k \in 1..n, k - 1 \in P PROVE k \in P
  <2> DEFINE q == d[k - 1]
  <2>1. /\ q \in Seq(X) /\ Len(q) \in Nat /\ s[k] \in X /\ d[k] = Fresh(q, s[k])
        /\ \A j \in 1..(k - 1) : Contains(q, s[j])
    BY <1>3, <1>4, <1>5, <1>7
  <2>2. PICK f : FirstPlaces(f, s, q, k - 1)
    BY <1>7
  <2>3. \A j \in 1..k : j = k \/ j \in 1..(k - 1)
    OBVIOUS
  <2>4. /\ f \in [1..Len(q) -> 1..(k - 1)]
        /\ \A a \in 1..Len(q) : s[f[a]] = q[a] /\ FirstPlace(s, f[a])
        /\ \A a, b \in 1..Len(q) : a < b => f[a] < f[b]
    BY <2>2 DEF FirstPlaces
  <2> HIDE DEF q
  <2>5. CASE Contains(q, s[k])
    <3>1. d[k] = q
      BY <2>1, <2>5 DEF Fresh
    <3>2. f \in [1..Len(q) -> 1..k]
      BY <2>4
    <3>3. FirstPlaces(f, s, q, k)
      BY <2>4, <3>2 DEF FirstPlaces
    <3>4. Seen(k)
      BY <2>1, <2>3, <2>5, <3>1
    <3> QED BY <3>1, <3>3, <3>4
  <2>6. CASE ~Contains(q, s[k])
    <3> DEFINE e == [a \in 1..Len(q) + 1 |-> IF a = Len(q) + 1 THEN k ELSE f[a]]
    <3>1. d[k] = Append(q, s[k])
      BY <2>1, <2>6 DEF Fresh
    <3>2. /\ Len(d[k]) = Len(q) + 1 /\ d[k][Len(q) + 1] = s[k]
          /\ \A a \in 1..Len(q) : d[k][a] = q[a]
      BY <2>1, <3>1, AppendProperties
    <3>3. FirstPlace(s, k)
      BY <2>1, <2>6 DEF FirstPlace
    <3>4. \A a \in 1..Len(q) + 1 : a \in 1..Len(q) \/ a = Len(q) + 1
      BY <2>1, OneMore
    <3>5. e \in [1..Len(q) + 1 -> 1..k] /\ e[Len(q) + 1] = k /\ \A a \in 1..Len(q) : e[a] = f[a]
      BY <2>1, <2>4, <3>4
    <3> HIDE DEF e
    <3>6. ASSUME NEW a \in 1..Len(q) + 1
          PROVE  s[e[a]] = d[k][a] /\ FirstPlace(s, e[a])
      BY <2>4, <3>2, <3>3, <3>4, <3>5
    <3>7. ASSUME NEW a \in 1..Len(q) + 1, NEW b \in 1..Len(q) + 1, a < b PROVE e[a] < e[b]
      <4>1. a \in 1..Len(q)
        BY <2>1, <3>7
      <4>2. e[a] = f[a] /\ f[a] \in 1..(k - 1)
        BY <2>4, <3>5, <4>1
      <4>3. CASE b = Len(q) + 1
        BY <3>5, <4>2, <4>3
      <4>4. CASE b \in 1..Len(q)
        BY <2>4, <3>5, <3>7, <4>1, <4>4
      <4> QED BY <3>4, <4>3, <4>4
    <3>8. FirstPlaces(e, s, d[k], k)
      BY <3>2, <3>5, <3>6, <3>7 DEF FirstPlaces
    <3>9. ASSUME NEW j \in 1..k PROVE Contains(d[k], s[j])
      <4>1. CASE j = k
        <5>1. Len(q) + 1 \in 1..Len(d[k])
          BY <2>1, <3>2
        <5> QED BY <3>2, <4>1, <5>1 DEF Contains
      <4>2. CASE j \in 1..(k - 1)
        <5>1. PICK i \in 1..Len(q) : q[i] = s[j]
          BY <2>1, <4>2 DEF Contains
        <5>2. i \in 1..Len(d[k]) /\ d[k][i] = s[j]
          BY <2>1, <3>2, <5>1
        <5> QED BY <5>2 DEF Contains
      <4> QED BY <2>3, <4>1, <4>2
    <3> QED BY <3>8, <3>9
  <2> QED BY <2>5, <2>6
<1> HIDE DEF P
<1>8. \A k \in 0..n : k \in P
  BY <1>6, <1>7, UpTo
<1>9. n \in 0..n
  OBVIOUS
<1>10. n \in P
  BY <1>8, <1>9
<1> QED BY <1>1, <1>3, <1>10 DEF P

-----------------------------------------------------------------------------
(* The papers that a section is offered *)

\* q lists the numbers of S, in their order.
Sorted(q, S) ==
  /\ q \in Seq(S)
  /\ \A a, b \in 1..Len(q) : a < b => q[a] < q[b]
  /\ \A x \in S : Contains(q, x)

\* The papers of S come in the order of the project's list.
LEMMA ListedIsSorted ==
  ASSUME NEW S \in SUBSET Refs
  PROVE  Sorted(Listed(S), S)
<1> DEFINE ss == [i \in Refs |-> IF i \in S THEN <<i>> ELSE <<>>]
           n == NRefs
<1>1. n \in Nat /\ Refs = 1..n
  BY PlanAssumption DEF Refs
<1> HIDE DEF n
<1>2. \A i \in 1..n : ss[i] = (IF i \in S THEN <<i>> ELSE <<>>) /\ ss[i] \in Seq(S)
  BY <1>1
<1>3. ss \in Seq(Seq(S)) /\ Len(ss) = n
  <2>1. ss \in [1..n -> Seq(S)]
    BY <1>1, <1>2
  <2> HIDE DEF ss
  <2> QED BY <1>1, <2>1, FunctionIsSeq
<1>4. Listed(S) = FlattenSeq(ss)
  BY DEF Listed
<1> HIDE DEF ss
<1>5. PICK g : Joins(S, ss, g)
  BY <1>3, FlattenSteps
<1>6. /\ g \in [0..n -> Seq(S)] /\ g[0] = <<>> /\ Listed(S) = g[n]
      /\ \A k \in 1..n : g[k] = g[k - 1] \o ss[k]
  BY <1>3, <1>4, <1>5 DEF Joins
<1> DEFINE P == {k \in 0..n : Sorted(g[k], S \cap (1..k))}
<1>7. 0 \in P
  <2>1. Sorted(<<>>, S \cap (1..0))
    BY DEF Sorted
  <2> QED BY <1>1, <1>6, <2>1
<1>8. ASSUME NEW k \in 1..n, k - 1 \in P PROVE k \in P
  <2> DEFINE q == g[k - 1]
             T == S \cap (1..(k - 1))
             U == S \cap (1..k)
  <2>1. Sorted(q, T) /\ g[k] = q \o ss[k] /\ k \in 0..n
    <3>1. Sorted(q, T)
      BY <1>8
    <3> HIDE DEF P
    <3>2. k \in 0..n
      BY <1>1
    <3>3. g[k] = q \o ss[k]
      BY <1>6
    <3> QED BY <3>1, <3>2, <3>3
  <2>2. q \in Seq(T) /\ T \subseteq 1..(k - 1) /\ T \subseteq S
    BY <2>1 DEF Sorted
  <2>3. Len(q) \in Nat /\ q \in [1..Len(q) -> T]
    BY <2>2, LenProperties
  <2>4. CASE k \notin S
    <3>1. U = T
      BY <2>4
    <3>2. g[k] = q
      BY <1>2, <2>1, <2>2, <2>4, ConcatEmptySeq
    <3> QED BY <2>1, <3>1, <3>2
  <2>5. CASE k \in S
    <3>1. U = T \cup {k}
      BY <2>5
    <3> HIDE DEF q, T, U
    <3>2. g[k] = q \o <<k>> /\ q \in Seq(U) /\ <<k>> \in Seq(U)
      <4>1. q \in [1..Len(q) -> U]
        BY <2>3, <3>1
      <4>2. q \in Seq(U)
        BY <2>3, <4>1, FunctionIsSeq
      <4>3. ss[k] = <<k>> /\ k \in U
        BY <1>2, <2>5, <3>1
      <4>4. <<k>> \in Seq(U)
        BY <4>3
      <4> QED BY <2>1, <4>2, <4>3, <4>4
    <3>3. /\ g[k] \in Seq(U) /\ Len(g[k]) = Len(q) + 1 /\ g[k][Len(q) + 1] = k
          /\ \A a \in 1..Len(q) : g[k][a] = q[a]
      <4>1. Len(<<k>>) = 1 /\ <<k>>[1] = k
        OBVIOUS
      <4>2. /\ q \o <<k>> \in Seq(U) /\ Len(q \o <<k>>) = Len(q) + Len(<<k>>)
            /\ \A i \in 1..Len(q) + Len(<<k>>) :
                 (q \o <<k>>)[i] = IF i <= Len(q) THEN q[i] ELSE <<k>>[i - Len(q)]
        BY <3>2, ConcatProperties
      <4> QED BY <2>3, <3>2, <4>1, <4>2
    <3>4. \A a \in 1..Len(q) + 1 : a \in 1..Len(q) \/ a = Len(q) + 1
      BY <2>3, OneMore
    <3>5. ASSUME NEW a \in 1..Len(q) + 1, NEW b \in 1..Len(q) + 1, a < b
          PROVE  g[k][a] < g[k][b]
      <4>1. a \in 1..Len(q)
        BY <2>3, <3>5
      <4>2. q[a] \in 1..(k - 1) /\ g[k][a] = q[a]
        BY <2>2, <2>3, <3>3, <4>1
      <4>3. CASE b = Len(q) + 1
        BY <3>3, <4>2, <4>3
      <4>4. CASE b \in 1..Len(q)
        BY <2>1, <3>3, <3>5, <4>1, <4>4 DEF Sorted
      <4> QED BY <3>4, <4>3, <4>4
    <3>6. ASSUME NEW x \in U PROVE Contains(g[k], x)
      <4>1. CASE x = k
        BY <2>3, <3>3, <4>1 DEF Contains
      <4>2. CASE x \in T
        <5>1. PICK i \in 1..Len(q) : q[i] = x
          BY <2>1, <4>2 DEF Sorted, Contains
        <5>2. i \in 1..Len(g[k]) /\ g[k][i] = x
          BY <2>3, <3>3, <5>1
        <5> QED BY <5>2 DEF Contains
      <4> QED BY <3>1, <4>1, <4>2
    <3>7. Sorted(g[k], U)
      BY <3>3, <3>5, <3>6 DEF Sorted
    <3> QED BY <2>1, <3>7 DEF U
  <2> QED BY <2>4, <2>5
<1> HIDE DEF P
<1>9. \A k \in 0..n : k \in P
  BY <1>1, <1>7, <1>8, UpTo
<1>10. n \in 0..n /\ S \cap (1..n) = S
  <2>1. n \in 0..n
    BY <1>1
  <2>2. S \cap (1..n) = S
    BY <1>1
  <2> QED BY <2>1, <2>2
<1>11. Sorted(g[n], S \cap (1..n))
  BY <1>9, <1>10 DEF P
<1> QED BY <1>6, <1>10, <1>11

Precedes(i, j, rank) == rank[i] < rank[j] \/ (rank[i] = rank[j] /\ i < j)

\* t lists the papers of rank below m and no others, for the first time in the order of ranks.
ByRank(t, m, rank) ==
  /\ t \in Seq(Refs)
  /\ \A i \in Refs : Contains(t, i) <=> rank[i] < m
  /\ \A p, q \in 1..Len(t) :
       p < q /\ FirstPlace(t, p) /\ FirstPlace(t, q) => Precedes(t[p], t[q], rank)

\* The next tier may repeat papers of a better rank.
LEMMA NextRank ==
  ASSUME NEW rank \in [Refs -> Nat], NEW m \in Nat, NEW t, ByRank(t, m, rank),
         NEW S \in SUBSET Refs, NEW b, Sorted(b, S),
         \A i \in S : rank[i] <= m, \A i \in Refs : rank[i] = m => i \in S
  PROVE  ByRank(t \o b, m + 1, rank)
<1> DEFINE u == t \o b
<1>1. /\ t \in Seq(Refs) /\ Len(t) \in Nat /\ b \in Seq(S) /\ b \in Seq(Refs) /\ Len(b) \in Nat
      /\ t \in [1..Len(t) -> Refs] /\ b \in [1..Len(b) -> S]
  <2>1. t \in Seq(Refs) /\ b \in Seq(S)
    BY DEF ByRank, Sorted
  <2>2. b \in Seq(Refs)
    BY <2>1, SeqMonotonic
  <2> QED BY <2>1, <2>2, LenProperties
<1>2. /\ u \in Seq(Refs) /\ Len(u) = Len(t) + Len(b)
      /\ \A i \in 1..Len(t) + Len(b) : u[i] = IF i <= Len(t) THEN t[i] ELSE b[i - Len(t)]
  BY <1>1, ConcatProperties
<1> HIDE DEF u
<1>3. \A i \in 1..Len(t) : i \in 1..Len(u) /\ u[i] = t[i]
  BY <1>1, <1>2
<1>4. \A i \in 1..Len(b) : Len(t) + i \in 1..Len(u) /\ u[Len(t) + i] = b[i]
  <2>1. ASSUME NEW i \in 1..Len(b)
        PROVE  /\ Len(t) + i \in 1..Len(t) + Len(b) /\ ~(Len(t) + i <= Len(t))
               /\ (Len(t) + i) - Len(t) = i
    BY <1>1
  <2> QED BY <1>2, <2>1
<1>5. \A i \in 1..Len(u) : i \in 1..Len(t) \/ (i - Len(t) \in 1..Len(b) /\ u[i] = b[i - Len(t)])
  <2>1. ASSUME NEW i \in 1..Len(u), i \notin 1..Len(t)
        PROVE  i - Len(t) \in 1..Len(b) /\ u[i] = b[i - Len(t)]
    <3>1. ~(i <= Len(t)) /\ i \in 1..Len(t) + Len(b)
      BY <1>1, <1>2, <2>1
    <3>2. i - Len(t) \in 1..Len(b)
      BY <1>1, <3>1
    <3> QED BY <1>2, <3>1, <3>2
  <2> QED BY <2>1
<1>6. \A i \in Refs : Contains(u, i) <=> Contains(t, i) \/ Contains(b, i)
  <2>1. ASSUME NEW i, Contains(t, i) PROVE Contains(u, i)
    BY <1>3, <2>1 DEF Contains
  <2>2. ASSUME NEW i, Contains(b, i) PROVE Contains(u, i)
    BY <1>4, <2>2 DEF Contains
  <2>3. ASSUME NEW i, Contains(u, i) PROVE Contains(t, i) \/ Contains(b, i)
    BY <1>3, <1>5, <2>3 DEF Contains
  <2> QED BY <2>1, <2>2, <2>3
<1>7. \A i \in Refs : Contains(b, i) <=> i \in S
  BY <1>1 DEF Sorted, Contains
<1>8. ASSUME NEW i \in Refs PROVE Contains(u, i) <=> rank[i] < m + 1
  <2>1. rank[i] \in Nat /\ (Contains(t, i) <=> rank[i] < m)
    BY DEF ByRank
  <2>2. rank[i] < m + 1 <=> rank[i] < m \/ rank[i] = m
    BY <2>1
  <2>3. i \in S => rank[i] < m + 1
    BY <2>1
  <2> QED BY <1>6, <1>7, <2>1, <2>2, <2>3
<1>9. ASSUME NEW p \in 1..Len(u), NEW q \in 1..Len(u), p < q, FirstPlace(u, p), FirstPlace(u, q)
      PROVE  Precedes(u[p], u[q], rank)
  <2>1. \A k \in 1..Len(u) : u[k] \in Refs /\ rank[u[k]] \in Nat
    BY <1>2, ElementOfSeq
  \* What stands in b for the first time has rank m.
  <2>2. ASSUME NEW k \in 1..Len(u), k \notin 1..Len(t), FirstPlace(u, k)
        PROVE  rank[u[k]] = m /\ k - Len(t) \in 1..Len(b) /\ u[k] = b[k - Len(t)]
    <3>1. k - Len(t) \in 1..Len(b) /\ u[k] = b[k - Len(t)]
      BY <1>5, <2>2
    <3>2. \A j \in 1..Len(t) : t[j] # u[k]
      <4>1. \A j \in 1..Len(t) : j \in 1..k - 1
        BY <1>1, <1>2, <2>2
      <4> QED BY <1>3, <2>2, <4>1 DEF FirstPlace
    <3>3. ~Contains(t, u[k])
      BY <3>2 DEF Contains
    <3>4. ~(rank[u[k]] < m)
      BY <2>1, <3>3 DEF ByRank
    <3>5. rank[u[k]] <= m
      BY <1>1, <3>1
    <3> QED BY <2>1, <3>1, <3>4, <3>5
  <2>3. CASE q \in 1..Len(t)
    <3>1. p \in 1..Len(t)
      BY <1>1, <1>2, <1>9, <2>3
    <3>2. (\A j \in 1..q - 1 : j \in 1..Len(t)) /\ \A j \in 1..p - 1 : j \in 1..Len(t)
      BY <1>1, <2>3, <3>1
    <3>3. FirstPlace(t, p) /\ FirstPlace(t, q)
      BY <1>3, <1>9, <2>3, <3>1, <3>2 DEF FirstPlace
    <3> QED BY <1>3, <1>9, <2>3, <3>1, <3>3 DEF ByRank
  <2>4. CASE q \notin 1..Len(t) /\ p \in 1..Len(t)
    <3>1. Contains(t, u[p])
      BY <1>3, <2>4 DEF Contains
    <3>2. rank[u[p]] < m
      BY <2>1, <3>1 DEF ByRank
    <3>3. rank[u[q]] = m
      BY <1>9, <2>2, <2>4
    <3> QED BY <3>2, <3>3 DEF Precedes
  <2>5. CASE q \notin 1..Len(t) /\ p \notin 1..Len(t)
    <3>1. /\ rank[u[p]] = m /\ p - Len(t) \in 1..Len(b) /\ u[p] = b[p - Len(t)]
          /\ rank[u[q]] = m /\ q - Len(t) \in 1..Len(b) /\ u[q] = b[q - Len(t)]
      BY <1>9, <2>2, <2>5
    <3>2. p - Len(t) < q - Len(t)
      BY <1>1, <1>9
    <3>3. u[p] < u[q]
      BY <3>1, <3>2 DEF Sorted
    <3> QED BY <3>1, <3>3 DEF Precedes
  <2> QED BY <2>3, <2>4, <2>5
<1>10. ByRank(u, m + 1, rank)
  BY <1>2, <1>8, <1>9 DEF ByRank
<1> QED BY <1>10 DEF u

\* Core papers before auxiliary ones are two ranks.
LEMMA NextTwoRanks ==
  ASSUME NEW rank \in [Refs -> Nat], NEW m \in Nat, NEW t, ByRank(t, m, rank),
         NEW S \in SUBSET Refs,
         \A i \in S : rank[i] <= IF i <= Core THEN m ELSE m + 1,
         \A i \in Refs : rank[i] \in {m, m + 1} =>
           i \in S /\ rank[i] = IF i <= Core THEN m ELSE m + 1
  PROVE  ByRank(t \o CoreFirst(S), m + 2, rank)
<1> DEFINE A == {i \in S : i <= Core}
           B == {i \in S : i > Core}
<1>1. A \in SUBSET Refs /\ B \in SUBSET Refs /\ Core \in Nat /\ Refs \subseteq Nat
  <2>1. A \in SUBSET Refs /\ B \in SUBSET Refs
    OBVIOUS
  <2>2. Core \in Nat
    BY PlanAssumption
  <2>3. Refs \subseteq Nat
    BY PlanAssumption DEF Refs
  <2> QED BY <2>1, <2>2, <2>3
<1>2. (\A i \in A : rank[i] <= m) /\ \A i \in Refs : rank[i] = m => i \in A
  <2>1. ASSUME NEW i \in Refs, rank[i] = m PROVE i \in A
    <3>1. i \in S /\ m = IF i <= Core THEN m ELSE m + 1
      BY <2>1
    <3>2. m # m + 1
      OBVIOUS
    <3> QED BY <3>1, <3>2
  <2> QED BY <2>1
<1>3. (\A i \in B : rank[i] <= m + 1) /\ \A i \in Refs : rank[i] = m + 1 => i \in B
  <2>1. ASSUME NEW i \in Refs, rank[i] = m + 1 PROVE i \in B
    <3>1. i \in S /\ m + 1 = IF i <= Core THEN m ELSE m + 1
      BY <2>1
    <3>2. m # m + 1
      OBVIOUS
    <3>3. ~(i <= Core) => i > Core
      BY <1>1
    <3> QED BY <3>1, <3>2, <3>3
  <2>2. ASSUME NEW i \in B PROVE rank[i] <= m + 1
    <3>1. i \in S /\ ~(i <= Core)
      BY <1>1
    <3> QED BY <3>1
  <2> QED BY <2>1, <2>2
<1> HIDE DEF A, B
<1>4. Sorted(Listed(A), A) /\ Sorted(Listed(B), B)
  BY <1>1, ListedIsSorted
<1>5. ByRank(t \o Listed(A), m + 1, rank)
  BY <1>1, <1>2, <1>4, NextRank
<1>6. ByRank((t \o Listed(A)) \o Listed(B), (m + 1) + 1, rank)
  <2>1. m + 1 \in Nat
    OBVIOUS
  <2> QED BY <1>1, <1>3, <1>4, <1>5, <2>1, NextRank
<1>7. (t \o Listed(A)) \o Listed(B) = t \o (Listed(A) \o Listed(B))
  <2>1. t \in Seq(Refs) /\ Listed(A) \in Seq(Refs) /\ Listed(B) \in Seq(Refs)
    BY <1>1, <1>4, SeqMonotonic DEF ByRank, Sorted
  <2> QED BY <2>1, ConcatAssociative
<1>8. CoreFirst(S) = Listed(A) \o Listed(B)
  BY DEF CoreFirst, A, B
<1>9. (m + 1) + 1 = m + 2
  OBVIOUS
<1> QED BY <1>6, <1>7, <1>8, <1>9

\* What lists all papers by rank lists them, without repetitions, in the order of their ranks.
LEMMA DistinctByRank ==
  ASSUME NEW rank \in [Refs -> Nat], NEW m \in Nat, NEW t, ByRank(t, m, rank),
         \A i \in Refs : rank[i] < m
  PROVE  LET r == Distinct(t) IN
         /\ r \in Seq(Refs) /\ NRefs <= Len(r)
         /\ \A a, b \in 1..Len(r) : a < b => Precedes(r[a], r[b], rank)
         /\ \A i \in Refs : Contains(r, i)
<1> DEFINE r == Distinct(t)
<1>1. t \in Seq(Refs) /\ Len(t) \in Nat
  BY LenProperties DEF ByRank
<1>2. PICK d : Passes(Refs, t, d)
  BY <1>1, DistinctSteps
<1>3. r \in Seq(Refs) /\ Len(r) \in Nat
  <2>1. d \in [0..Len(t) -> Seq(Refs)] /\ r = d[Len(t)]
    BY <1>2 DEF Passes
  <2>2. Len(t) \in 0..Len(t)
    BY <1>1
  <2>3. r \in Seq(Refs)
    BY <2>1, <2>2
  <2> QED BY <2>3, LenProperties
<1>4. PICK f : FirstPlaces(f, t, r, Len(t))
  BY <1>1, DistinctKeepsOrder
<1>5. \A j \in 1..Len(t) : Contains(r, t[j])
  BY <1>1, <1>2, DistinctPrefixes
<1> HIDE DEF r
<1>6. ASSUME NEW a \in 1..Len(r), NEW b \in 1..Len(r), a < b
      PROVE  Precedes(r[a], r[b], rank)
  <2>1. /\ f[a] \in 1..Len(t) /\ f[b] \in 1..Len(t) /\ f[a] < f[b]
        /\ t[f[a]] = r[a] /\ t[f[b]] = r[b] /\ FirstPlace(t, f[a]) /\ FirstPlace(t, f[b])
    BY <1>4, <1>6 DEF FirstPlaces
  <2>2. Precedes(t[f[a]], t[f[b]], rank)
    BY <2>1 DEF ByRank
  <2> QED BY <2>1, <2>2
<1>7. ASSUME NEW i \in Refs PROVE Contains(r, i)
  <2>1. PICK j \in 1..Len(t) : t[j] = i
    BY DEF ByRank, Contains
  <2> QED BY <1>5, <2>1
<1>8. NRefs <= Len(r)
  <2>1. NRefs \in Nat /\ NRefs > 0
    BY PlanAssumption
  <2>2. Cardinality(Refs) = NRefs
    <3>1. Cardinality(1..NRefs) = IF 1 > NRefs THEN 0 ELSE NRefs - 1 + 1
      BY <2>1, FS_Interval
    <3> QED BY <2>1, <3>1 DEF Refs
  <2>3. r \in Surjection(1..Len(r), Refs)
    <3>1. r \in [1..Len(r) -> Refs]
      BY <1>3, LenProperties
    <3>2. \A i \in Refs : \E k \in 1..Len(r) : r[k] = i
      BY <1>7 DEF Contains
    <3> QED BY <3>1, <3>2 DEF Surjection
  <2>4. ExistsSurjection(1..Len(r), Refs)
    BY <2>3 DEF ExistsSurjection
  <2>5. Cardinality(Refs) <= Len(r)
    BY <1>3, <2>4, FS_SurjCardinalityBound
  <2> QED BY <2>2, <2>5
<1> QED BY <1>3, <1>6, <1>7, <1>8 DEF r

\* A section has as many papers as it is due, the best first.
LEMMA PlanIsBestFirst ==
  ASSUME NEW s, NEW keys, NEW clustering
  PROVE  BestFirst(SectionPlan(s, keys, clustering), s, keys, clustering)
<1> DEFINE C == Community(s, keys, clustering)
           R == Remaining(s, keys, clustering)
           tier(i) == Tier(i, s, keys, clustering)
           rank == [i \in Refs |-> tier(i)]
           t == CoreFirst(C) \o CoreFirst(R) \o CoreFirst(Refs)
           r == Distinct(t)
           plan == SubSeq(r, 1, Quota)
<1>1. plan = SectionPlan(s, keys, clustering)
  BY DEF SectionPlan
<1>2. C \in SUBSET Refs /\ R \in SUBSET Refs /\ \A i \in R : i \notin C
  BY DEF Community, Remaining, InCluster
<1>3. \A i \in Refs : tier(i) = (IF i \in C THEN IF i <= Core THEN 0 ELSE 1
                                 ELSE IF i \in R THEN IF i <= Core THEN 2 ELSE 3
                                 ELSE IF i <= Core THEN 4 ELSE 5)
  BY DEF Tier
<1>4. \A i, j \in Refs : Before(i, j, s, keys, clustering) <=> Precedes(i, j, rank)
  BY DEF Before, Precedes
<1>5. \A i \in Refs : rank[i] = tier(i)
  OBVIOUS
<1> HIDE DEF tier, C, R
<1>6. rank \in [Refs -> Nat] /\ \A i \in Refs : rank[i] < 6
  <2>1. \A i \in Refs : tier(i) \in Nat /\ tier(i) < 6
    BY <1>3
  <2> QED BY <2>1
<1> HIDE DEF rank
<1>7. ByRank(<<>>, 0, rank)
  BY <1>6 DEF ByRank, Contains
<1>8. ByRank(<<>> \o CoreFirst(C), 2, rank)
  <2>1. /\ \A i \in C : rank[i] <= IF i <= Core THEN 0 ELSE 0 + 1
        /\ \A i \in Refs : rank[i] \in {0, 0 + 1} =>
             i \in C /\ rank[i] = IF i <= Core THEN 0 ELSE 0 + 1
    BY <1>2, <1>3, <1>5
  <2>2. ByRank(<<>> \o CoreFirst(C), 0 + 2, rank)
    BY <1>2, <1>6, <1>7, <2>1, NextTwoRanks
  <2> QED BY <2>2
<1>9. CoreFirst(C) \in Seq(Refs) /\ ByRank(CoreFirst(C), 2, rank)
  <2>1. Listed({i \in C : i <= Core}) \in Seq(Refs) /\ Listed({i \in C : i > Core}) \in Seq(Refs)
    <3>1. {i \in C : i <= Core} \in SUBSET Refs /\ {i \in C : i > Core} \in SUBSET Refs
      BY <1>2
    <3>2. /\ Listed({i \in C : i <= Core}) \in Seq({i \in C : i <= Core})
          /\ Listed({i \in C : i > Core}) \in Seq({i \in C : i > Core})
      BY <3>1, ListedIsSorted DEF Sorted
    <3> QED BY <3>1, <3>2, SeqMonotonic
  <2>2. CoreFirst(C) \in Seq(Refs)
    BY <2>1, ConcatProperties DEF CoreFirst
  <2> QED BY <1>8, <2>2, ConcatEmptySeq
<1>10. ByRank(CoreFirst(C) \o CoreFirst(R), 4, rank)
  <2>1. /\ \A i \in R : rank[i] <= IF i <= Core THEN 2 ELSE 2 + 1
        /\ \A i \in Refs : rank[i] \in {2, 2 + 1} =>
             i \in R /\ rank[i] = IF i <= Core THEN 2 ELSE 2 + 1
    BY <1>2, <1>3, <1>5
  <2>2. ByRank(CoreFirst(C) \o CoreFirst(R), 2 + 2, rank)
    BY <1>2, <1>6, <1>9, <2>1, NextTwoRanks
  <2> QED BY <2>2
<1>11. ByRank(t, 6, rank)
  <2>1. /\ \A i \in Refs : rank[i] <= IF i <= Core THEN 4 ELSE 4 + 1
        /\ \A i \in Refs : rank[i] \in {4, 4 + 1} =>
             i \in Refs /\ rank[i] = IF i <= Core THEN 4 ELSE 4 + 1
    BY <1>3, <1>5
  <2>2. ByRank((CoreFirst(C) \o CoreFirst(R)) \o CoreFirst(Refs), 4 + 2, rank)
    BY <1>6, <1>10, <2>1, NextTwoRanks
  <2> QED BY <2>2
<1> HIDE DEF t
<1>12. /\ r \in Seq(Refs) /\ NRefs <= Len(r)
       /\ \A a, b \in 1..Len(r) : a < b => Precedes(r[a], r[b], rank)
       /\ \A i \in Refs : Contains(r, i)
  BY <1>6, <1>11, DistinctByRank
<1> HIDE DEF r
<1>13. Quota \in Nat /\ Quota <= Len(r) /\ Len(r) \in Nat
  <2>1. NRefs \in Nat /\ Target \in Nat /\ Len(r) \in Nat
    BY <1>12, PlanAssumption, LenProperties
  <2>2. {Target, NRefs} \in SUBSET Nat /\ {Target, NRefs} # {}
    BY <2>1
  <2>3. PICK m \in {Target, NRefs} : \A k \in {Target, NRefs} : m <= k
    BY <2>2, LeastNat
  <2>4. Quota \in {Target, NRefs} /\ \A k \in {Target, NRefs} : Quota <= k
    BY <2>3 DEF Quota, Min
  <2>5. Quota \in Nat /\ Quota <= NRefs
    BY <2>1, <2>4
  <2> QED BY <1>12, <2>1, <2>5
<1>14. /\ Len(plan) = Quota /\ DOMAIN plan = 1..Quota
       /\ \A k \in 1..Quota : k \in 1..Len(r) /\ plan[k] = r[k]
  <2>1. \A k \in 1..Quota : k \in 1..Len(r) /\ r[k] \in Refs
    BY <1>12, <1>13, ElementOfSeq
  <2>2. plan = [k \in 1..Quota |-> r[k]] /\ Len(plan) = Quota
    BY <1>12, <1>13, <2>1
  <2> QED BY <2>1, <2>2
<1>15. \A k \in 1..Len(r) : r[k] \in Refs
  BY <1>12, ElementOfSeq
<1> HIDE DEF plan
<1>16. ASSUME NEW k \in 1..Len(plan) - 1
       PROVE  Before(plan[k], plan[k + 1], s, keys, clustering)
  <2>1. k \in 1..Quota /\ k + 1 \in 1..Quota /\ k < k + 1
    BY <1>13, <1>14
  <2>2. /\ plan[k] = r[k] /\ plan[k + 1] = r[k + 1]
        /\ k \in 1..Len(r) /\ k + 1 \in 1..Len(r)
    BY <1>14, <2>1
  <2> QED BY <1>4, <1>12, <1>15, <2>1, <2>2
<1>17. ASSUME NEW i \in ToSet(plan), NEW j \in Refs \ ToSet(plan)
       PROVE  Before(i, j, s, keys, clustering)
  <2>1. PICK a \in 1..Quota : plan[a] = i
    BY <1>14 DEF ToSet
  <2>2. PICK b \in 1..Len(r) : r[b] = j
    BY <1>12 DEF Contains
  <2>3. ~(b \in 1..Quota)
    BY <1>14, <2>2 DEF ToSet
  <2>4. a \in 1..Len(r) /\ r[a] = i
    BY <1>14, <2>1
  <2>5. a < b
    BY <1>13, <2>3
  <2> QED BY <1>4, <1>12, <1>15, <2>2, <2>4, <2>5
<1>18. BestFirst(plan, s, keys, clustering)
  BY <1>14, <1>16, <1>17 DEF BestFirst
<1> QED BY <1>1, <1>18

-----------------------------------------------------------------------------
(* The windows of clusters *)

\* With c clusters and n sections, p is in the even share of section s.
InShare(s, n, c, p) ==
  /\ ((s - 1) * c) \div n \in 0..p
  /\ p - ((s - 1) * c) \div n < (c + n - 1) \div n

\* The first clusters of n windows over c clusters lie no further apart than their even width.
LEMMA SharesCover ==
  ASSUME NEW c \in Nat \ {0}, NEW n \in Nat \ {0}, n <= c, NEW p \in 0..c - 1
  PROVE  \E s \in 1..n : InShare(s, n, c, p)
<1> DEFINE T == {q \in 0..n - 1 : (q + 1) * c >= (p + 1) * n}
<1>1. n - 1 \in T
  <2>1. n - 1 \in 0..n - 1 /\ (n - 1) + 1 = n /\ c >= p + 1
    OBVIOUS
  <2>2. n * c >= n * (p + 1)
    BY <2>1
  <2>3. n * (p + 1) = (p + 1) * n
    OBVIOUS
  <2> QED BY <2>1, <2>2, <2>3
<1>2. PICK q \in T : \A k \in T : q <= k
  <2>1. T \in SUBSET Nat
    <3>1. \A k \in T : k \in 0..n - 1
      OBVIOUS
    <3> HIDE DEF T
    <3> QED BY <3>1
  <2> HIDE DEF T
  <2>2. T # {}
    BY <1>1
  <2> QED BY <2>1, <2>2, LeastNat
<1>3. q \in 0..n - 1 /\ (q + 1) * c >= (p + 1) * n
  OBVIOUS
\* The share before is too small: q is the last section that begins at p or before.
<1>4. q * c < (p + 1) * n
  <2>1. CASE q = 0
    <3>1. (p + 1) * n > 0
      BY SMT
    <3>2. q * c = 0
      BY <2>1
    <3> QED BY <3>1, <3>2
  <2>2. CASE q # 0
    <3>1. q - 1 \in 0..n - 1 /\ q - 1 \notin T /\ (q - 1) + 1 = q
      BY <1>2, <1>3, <2>2
    <3>2. ~(q * c >= (p + 1) * n)
      BY <3>1
    <3> QED BY <1>3, <3>2
  <2> QED BY <2>1, <2>2
<1> HIDE DEF T
<1> DEFINE f == (q * c) \div n
           e == (c + n - 1) \div n
<1>5. f \in Nat /\ n * f <= q * c /\ q * c < n * f + n
  BY <1>3
<1>6. e \in Nat /\ n * e >= c
  <2>1. n * e <= c + n - 1 /\ c + n - 1 < n * e + n /\ e \in Nat
    OBVIOUS
  <2> QED BY <2>1
<1> HIDE DEF f, e
<1>7. f <= p
  <2>1. n * f < (p + 1) * n
    BY <1>3, <1>4, <1>5
  <2> SUFFICES ASSUME f >= p + 1 PROVE FALSE
    BY <1>5
  <2>2. n * f >= n * (p + 1)
    BY <1>5
  <2> QED BY <1>5, <2>1, <2>2
<1>8. p - f < e
  <2> SUFFICES ASSUME p + 1 > f + e PROVE FALSE
    BY <1>5, <1>6
  <2>1. p >= f + e
    BY <1>5, <1>6
  <2>2. (p + 1) * n >= (f + e + 1) * n
    BY <1>5, <1>6, <2>1
  <2>3. (f + e + 1) * n = n * f + n * e + n
    BY <1>5, <1>6
  <2>4. (q + 1) * c = q * c + c
    BY <1>3
  <2> QED BY <1>3, <1>5, <1>6, <2>2, <2>3, <2>4
<1>9. q + 1 \in 1..n /\ (q + 1) - 1 = q
  BY <1>3
<1>10. ((q + 1) - 1) * c = q * c
  BY <1>9
<1>11. (((q + 1) - 1) * c) \div n = f
  BY <1>10 DEF f
<1>12. f \in 0..p
  BY <1>5, <1>7
<1>13. (c + n - 1) \div n = e
  BY DEF e
<1>14. InShare(q + 1, n, c, p)
  BY <1>8, <1>11, <1>12, <1>13 DEF InShare
<1> QED BY <1>9, <1>14

\* The clusters of the list are a list over those that papers are in.
LEMMA OrderedIsSeq ==
  ASSUME NEW clustering
  PROVE  \E X : OrderedClusters(clustering) \in Seq(X)
<1> DEFINE X == {clustering[i] : i \in Refs}
           ss == [i \in Refs |-> IF clustering[i] = NoCluster THEN <<>> ELSE <<clustering[i]>>]
           all == FlattenSeq(ss)
<1>1. NRefs \in Nat /\ Refs = 1..NRefs
  BY PlanAssumption DEF Refs
<1>2. \A i \in Refs : ss[i] \in Seq(X)
  <2>1. ASSUME NEW i \in Refs PROVE <<clustering[i]>> \in Seq(X) /\ <<>> \in Seq(X)
    <3>1. clustering[i] \in X
      OBVIOUS
    <3> HIDE DEF X
    <3> QED BY <3>1
  <2> QED BY <2>1
<1> HIDE DEF X
<1>3. ss \in Seq(Seq(X))
  <2>1. ss \in [1..NRefs -> Seq(X)]
    BY <1>1, <1>2
  <2> HIDE DEF ss
  <2> QED BY <1>1, <2>1, FunctionIsSeq
<1> HIDE DEF ss
<1>4. all \in Seq(X)
  BY <1>3, FlattenHas
<1>5. OrderedClusters(clustering) = Distinct(all)
  BY DEF OrderedClusters, ss
<1> HIDE DEF all
<1>6. PICK d : Passes(X, all, d)
  BY <1>4, DistinctSteps
<1>7. Len(all) \in 0..Len(all)
  BY <1>4, LenProperties
<1>8. Distinct(all) \in Seq(X)
  BY <1>6, <1>7 DEF Passes
<1> QED BY <1>5, <1>8

\* The window of section s, of c clusters, has none but them, and its share of them.
WindowOK(s, n, clustering, c) ==
  LET ordered == OrderedClusters(clustering)
      window == FallbackWindow(s, n, clustering)
      first == WindowStart(s, n, c)
  IN  /\ window \subseteq {ordered[i] : i \in 1..c}
      /\ \A p \in 0..c - 1 : p >= first /\ p - first < (c + n - 1) \div n =>
           ordered[1 + p] \in window

\* A window has clusters of the list only, and as many as an even share, from its first on.
LEMMA WindowHolds ==
  ASSUME NEW s, NEW n \in Nat \ {0}, NEW clustering, NEW c \in Nat \ {0},
         c = Len(OrderedClusters(clustering)), WindowStart(s, n, c) \in 0..c - 1
  PROVE  WindowOK(s, n, clustering, c)
<1> DEFINE ordered == OrderedClusters(clustering)
           first == WindowStart(s, n, c)
           Window(w) == {ordered[1 + ((first + k) % c)] : k \in 0..w - 1}
           even == (c + n - 1) \div n
           Wide(w) == w >= even /\ Cardinality(InCluster(clustering, Window(w))) >= Quota
           W == {w \in 1..c : Wide(w)} \cup {c}
           width == Min(W)
<1>1. FallbackWindow(s, n, clustering) = Window(width)
  BY DEF FallbackWindow
<1>2. width \in 1..c /\ (width >= even \/ width = c)
  <2>1. W \in SUBSET Nat /\ W # {} /\ \A w \in W : w \in 1..c /\ (w >= even \/ w = c)
    <3>1. \A w \in W : w \in 1..c /\ (w >= even \/ w = c)
      OBVIOUS
    <3>2. c \in W
      OBVIOUS
    <3> HIDE DEF W, even
    <3>3. \A w \in W : w \in Nat
      BY <3>1
    <3> QED BY <3>1, <3>2, <3>3
  <2> HIDE DEF W, even
  <2>2. PICK m \in W : \A k \in W : m <= k
    BY <2>1, LeastNat
  <2>3. width \in W
    BY <2>2 DEF Min
  <2> QED BY <2>1, <2>3
<1>e. even \in Nat
  OBVIOUS
<1> HIDE DEF ordered, width, W, Wide, first, even
<1>3. first \in 0..c - 1
  BY DEF first
<1>4. Window(width) \subseteq {ordered[i] : i \in 1..c}
  <2>1. ASSUME NEW k \in 0..width - 1 PROVE 1 + ((first + k) % c) \in 1..c
    <3>1. first + k \in Nat
      BY <1>2, <1>3
    <3>2. (first + k) % c \in 0..c - 1
      BY <3>1
    <3> QED BY <3>2
  <2> QED BY <2>1
<1>5. ASSUME NEW p \in 0..c - 1, p >= first, p - first < even PROVE ordered[1 + p] \in Window(width)
  <2>1. p - first \in 0..width - 1
    BY <1>2, <1>3, <1>5, <1>e
  <2>2. first + (p - first) = p /\ p % c = p
    BY <1>3
  <2> QED BY <2>1, <2>2
<1> QED BY <1>1, <1>4, <1>5 DEF WindowOK, ordered, first, even

\* Where no section names a cluster, the windows of all sections have every cluster.
LEMMA WindowsCover ==
  ASSUME NEW n \in Nat \ {0}, NEW keys, DOMAIN keys = 1..n, Len(keys) = n,
         \A s \in 1..n : keys[s] = {}, NEW clustering
  PROVE  ToSet(OrderedClusters(clustering))
           = UNION {PrimaryClusters(s, keys, clustering) : s \in DOMAIN keys}
<1> DEFINE ordered == OrderedClusters(clustering)
<1>1. PICK X : ordered \in Seq(X)
  BY OrderedIsSeq
<1>2. PICK c \in Nat : c = Len(ordered) /\ DOMAIN ordered = 1..c
  BY <1>1, LenProperties
<1>3. ToSet(ordered) = {ordered[i] : i \in 1..c}
  BY <1>2 DEF ToSet
<1>4. CASE ~(n > 1 /\ c > 1)
  <2>1. \A s \in 1..n : PrimaryClusters(s, keys, clustering) = ToSet(ordered)
    BY <1>2, <1>4 DEF PrimaryClusters, FallsBack
  <2>2. 1 \in 1..n
    OBVIOUS
  <2> QED BY <2>1, <2>2
<1>5. CASE n > 1 /\ c > 1
  <2>1. \A s \in 1..n : PrimaryClusters(s, keys, clustering) = FallbackWindow(s, n, clustering)
    BY <1>2, <1>5 DEF PrimaryClusters, FallsBack
  <2>2. ASSUME NEW s \in 1..n PROVE WindowStart(s, n, c) \in 0..c - 1
    <3>1. CASE n <= c
      <4> DEFINE f == ((s - 1) * c) \div n
      <4>1. s - 1 \in 0..n - 1 /\ (s - 1) * c \in Nat
        OBVIOUS
      <4>2. f \in Nat /\ n * f <= (s - 1) * c
        BY <4>1
      <4>3. (s - 1) * c < n * c
        BY <1>5, <4>1
      <4> HIDE DEF f
      <4>4. f < c
        <5> SUFFICES ASSUME f >= c PROVE FALSE
          BY <4>2
        <5>1. n * f >= n * c
          BY <4>2
        <5> QED BY <4>1, <4>2, <4>3, <5>1
      <4>5. WindowStart(s, n, c) = f
        BY <3>1 DEF WindowStart, f
      <4> QED BY <4>2, <4>4, <4>5
    <3>2. CASE ~(n <= c)
      <4>1. (s - 1) % c \in 0..c - 1
        BY <1>5
      <4> QED BY <3>2, <4>1 DEF WindowStart
    <3> QED BY <3>1, <3>2
  <2>3. ASSUME NEW s \in 1..n
        PROVE  /\ FallbackWindow(s, n, clustering) \subseteq {ordered[i] : i \in 1..c}
               /\ \A p \in 0..c - 1 :
                    p >= WindowStart(s, n, c) /\ p - WindowStart(s, n, c) < (c + n - 1) \div n =>
                      ordered[1 + p] \in FallbackWindow(s, n, clustering)
    <3>1. c \in Nat \ {0} /\ c = Len(OrderedClusters(clustering))
      BY <1>2, <1>5
    <3>2. WindowOK(s, n, clustering, c)
      BY <2>2, <3>1, WindowHolds
    <3> QED BY <3>2 DEF WindowOK
  <2>4. ASSUME NEW p \in 0..c - 1
        PROVE  \E s \in 1..n : ordered[1 + p] \in FallbackWindow(s, n, clustering)
    <3>1. CASE n <= c
      <4>1. PICK s \in 1..n : InShare(s, n, c, p)
        <5>1. c \in Nat \ {0}
          BY <1>5
        <5> QED BY <3>1, <5>1, SharesCover
      <4>2. WindowStart(s, n, c) = ((s - 1) * c) \div n
        BY <3>1 DEF WindowStart
      <4> DEFINE f == ((s - 1) * c) \div n
                 e == (c + n - 1) \div n
      <4> HIDE DEF f, e
      <4>3. p >= f /\ p - f < e
        BY <4>1 DEF f, e, InShare
      <4> QED BY <2>3, <4>2, <4>3 DEF f, e
    <3>2. CASE ~(n <= c)
      <4>1. p + 1 \in 1..n /\ (p + 1) - 1 = p /\ p % c = p
        BY <3>2
      <4>2. WindowStart(p + 1, n, c) = p
        BY <3>2, <4>1 DEF WindowStart
      <4>3. (c + n - 1) \div n > 0
        BY <3>2
      <4>4. p >= p /\ p - p < (c + n - 1) \div n
        BY <4>3
      <4> QED BY <2>3, <4>1, <4>2, <4>4
    <3> QED BY <3>1, <3>2
  <2>5. ASSUME NEW i \in 1..c
        PROVE  \E s \in 1..n : ordered[i] \in FallbackWindow(s, n, clustering)
    <3>1. i - 1 \in 0..c - 1 /\ 1 + (i - 1) = i
      OBVIOUS
    <3> QED BY <2>4, <3>1
  <2> DEFINE U == UNION {PrimaryClusters(s, keys, clustering) : s \in DOMAIN keys}
  <2>6. U = UNION {FallbackWindow(s, n, clustering) : s \in 1..n}
    BY <2>1
  <2> HIDE DEF U, ordered
  <2>7. U \subseteq {ordered[i] : i \in 1..c}
    BY <2>3, <2>6
  <2>8. \A i \in 1..c : ordered[i] \in U
    BY <2>5, <2>6
  <2> QED BY <1>3, <2>7, <2>8 DEF U, ordered
<1> QED BY <1>4, <1>5

-----------------------------------------------------------------------------
(* The inductive invariant *)

\* The tables hold the outline of d and its sections before upto, and no other section.
Holds(d, upto) ==
  /\ outline = [title |-> d.title, sections |-> Len(d.bodies)]
  /\ \A s \in Sections : IF s \in DOMAIN d.bodies THEN s < upto => rows[s] = d.bodies[s]
                                                  ELSE rows[s] = Absent

\* The phases, their attempts, the table of sections and the reviewer's feedback.
Placed ==
  /\ phase \in {"writing", "peer_review", "finalize", "done"}
  /\ failures \in [{"writing", "peer_review"} -> Nat]
  /\ DOMAIN rows = Sections
  /\ feedback \in 0..Len(review.refs)

\* The plans are those of the keys that the outline named.
OutlineOK(w) ==
  \E n \in SectionCounts :
    /\ w.keys \in [1..n -> Named]
    /\ w.plans = [s \in 1..n |-> SectionPlan(s, w.keys, clusterOf)]

\* What the writing node has in hand: nothing, an outline, or a draft that is being stored.
WorkOK ==
  \/ work = Idle
  \/ /\ phase = "writing" /\ work.step = "outlined"
     /\ work.title \in Titles /\ OutlineOK(work)
  \/ /\ phase = "writing" /\ work.step = "outline" /\ DraftOK(work.draft, work.meant.bodies)
  \/ /\ phase = "writing"
     /\ work = [step |-> "section", next |-> work.next, draft |-> work.draft,
                meant |-> work.meant]
     /\ work.next \in 1..Len(work.draft.bodies) + 1
     /\ DraftOK(work.draft, work.meant.bodies) /\ Holds(work.draft, work.next)

\* What has left the writing phase in good order is stored, and what is done is published.
StoredOK ==
  /\ phase # "done" => artifact.review = NoReview
  /\ phase = "done" => artifact.review = review
  /\ phase # "writing" /\ ~Exhausted("writing") => Holds(review, Len(review.bodies) + 1)

ReviewInv == Placed /\ DraftOK(review, meant.bodies) /\ WorkOK /\ StoredOK

\* A text that cites only elements of Y is a text over Y.
LEMMA CitedIsTyped ==
  ASSUME NEW X, NEW Y, NEW s \in Seq(X), ToSet(s) \subseteq Y
  PROVE  s \in Seq(Y)
<1>1. Len(s) \in Nat /\ DOMAIN s = 1..Len(s) /\ s \in [1..Len(s) -> X]
  BY LenProperties
<1>2. \A k \in 1..Len(s) : s[k] \in Y
  BY <1>1 DEF ToSet
<1>3. s \in [1..Len(s) -> Y]
  BY <1>1, <1>2
<1> QED BY <1>1, <1>3

\* What the acceptance of a draft lets through.
LEMMA AcceptedIsSound ==
  ASSUME NEW title \in Seq(Nat), NEW bodies \in Seq(Seq(Nat)), NEW allowed, NEW cut,
         Accepted(title, bodies, allowed)
  PROVE  DraftOK(Numbered(title, bodies, allowed, cut), bodies)
<1>1. title \in Seq(Refs)
  BY CitedIsTyped DEF Accepted, Cited
<1>2. /\ DOMAIN bodies = 1..Len(bodies) /\ Len(bodies) \in Nat
      /\ bodies \in [1..Len(bodies) -> Seq(Nat)]
  BY LenProperties
<1>3. ASSUME NEW s \in 1..Len(bodies)
      PROVE  bodies[s] \in Seq(Refs) /\ bodies[s] # <<>> /\ ToSet(bodies[s]) \subseteq allowed[s]
  <2>1. /\ bodies[s] \in Seq(Nat) /\ bodies[s] # <<>>
        /\ ToSet(bodies[s]) \subseteq allowed[s] \cap Refs
    BY <1>2 DEF Accepted, Grounded, Cited
  <2>2. ToSet(bodies[s]) \subseteq Refs
    BY <2>1
  <2> QED BY <2>1, <2>2, CitedIsTyped
<1>4. bodies \in Seq(Seq(Refs))
  <2>1. bodies \in [1..Len(bodies) -> Seq(Refs)]
    BY <1>2, <1>3
  <2> QED BY <1>2, <2>1, FunctionIsSeq
<1> QED BY <1>1, <1>2, <1>3, <1>4, NumberedIsSound

\* A phase that fails is tried again, or leads to the end.
LEMMA FailureKeeps ==
  ASSUME ReviewInv, NEW p \in {"writing", "peer_review"}, phase = p, PhaseFailure(p),
         UNCHANGED tables
  PROVE  ReviewInv'
<1>1. /\ failures' = [failures EXCEPT ![p] = failures[p] + 1]
      /\ phase' = IF failures[p] + 1 >= MaxAttempts THEN "finalize" ELSE phase
      /\ work' = Idle /\ UNCHANGED <<review, needsRevision, feedback, revision, meant, artifact>>
      /\ UNCHANGED <<outline, rows>>
  BY DEF PhaseFailure, stateVars, tables
<1>2. failures \in [{"writing", "peer_review"} -> Nat]
  BY DEF ReviewInv, Placed
<1>3. failures' \in [{"writing", "peer_review"} -> Nat] /\ failures'[p] = failures[p] + 1
  BY <1>1, <1>2
<1>4. Placed' /\ phase' \in {p, "finalize"}
  BY <1>1, <1>3 DEF ReviewInv, Placed
<1>5. DraftOK(review, meant.bodies)' /\ WorkOK'
  BY <1>1 DEF ReviewInv, WorkOK, DraftOK
<1>6. Exhausted("writing")' <=> failures'["writing"] >= MaxAttempts
  BY DEF Exhausted
<1>7. CASE p = "writing"
  <2>1. phase' # "writing" => Exhausted("writing")'
    BY <1>1, <1>3, <1>6, <1>7
  <2>2. StoredOK'
    BY <1>1, <1>4, <2>1, <1>7 DEF ReviewInv, StoredOK
  <2> QED BY <1>4, <1>5, <2>2 DEF ReviewInv
<1>8. CASE p = "peer_review"
  <2>1. failures'["writing"] = failures["writing"]
    BY <1>1, <1>2, <1>8
  <2>2. ~Exhausted("writing")' => ~Exhausted("writing")
    BY <1>6, <2>1 DEF Exhausted
  <2>3. ~Exhausted("writing")' => Holds(review, Len(review.bodies) + 1)
    BY <2>2, <1>8 DEF ReviewInv, StoredOK
  <2>4. StoredOK'
    BY <1>1, <1>4, <1>8, <2>3 DEF ReviewInv, StoredOK, Holds
  <2> QED BY <1>4, <1>5, <2>4 DEF ReviewInv
<1> QED BY <1>7, <1>8

\* A step of the writing node that touches nothing but its own work.
LEMMA WorkOnly ==
  ASSUME ReviewInv, phase = "writing", WorkOK',
         UNCHANGED <<phase, stateVars, failures, tables, artifact>>
  PROVE  ReviewInv'
<1>1. UNCHANGED <<phase, review, needsRevision, feedback, revision, meant, failures, outline,
                  rows, artifact>>
  BY DEF stateVars, tables
<1>2. Placed' /\ DraftOK(review, meant.bodies)' /\ StoredOK'
  BY <1>1 DEF ReviewInv, Placed, DraftOK, StoredOK
<1> QED BY <1>2 DEF ReviewInv

\* A draft is accepted and next to be stored, or the phase fails.
LEMMA SubmitKeeps ==
  ASSUME ReviewInv, phase = "writing", UNCHANGED tables, NEW title \in Seq(Nat),
         NEW bodies \in Seq(Seq(Nat)), NEW allowed, NEW meaning, meaning.bodies = bodies,
         Submit(title, bodies, allowed, meaning)
  PROVE  ReviewInv'
<1>1. CASE Accepted(title, bodies, allowed)
  <2>1. PICK cut \in SUBSET DOMAIN bodies :
           work' = [step |-> "outline", draft |-> Numbered(title, bodies, allowed, cut),
                    meant |-> meaning]
    BY <1>1 DEF Submit
  <2>2. DraftOK(Numbered(title, bodies, allowed, cut), bodies)
    BY <1>1, AcceptedIsSound
  <2>3. UNCHANGED <<phase, failures, stateVars, artifact>>
    BY <1>1 DEF Submit
  <2>4. /\ work'.step = "outline" /\ work'.draft = Numbered(title, bodies, allowed, cut)
        /\ work'.meant.bodies = bodies
    BY <2>1
  <2>5. DraftOK(work.draft, work.meant.bodies)'
    BY <2>2, <2>4 DEF DraftOK
  <2>6. WorkOK'
    BY <2>3, <2>4, <2>5 DEF WorkOK
  <2> QED BY <2>3, <2>6, WorkOnly
<1>2. CASE ~Accepted(title, bodies, allowed)
  BY <1>2, FailureKeeps DEF Submit
<1> QED BY <1>1, <1>2

-----------------------------------------------------------------------------
(* Every action keeps the invariant *)

\* The outline names its sections one after the other.
LEMMA MakeOutlineKeeps ==
  ASSUME ReviewInv, MakeOutline
  PROVE  ReviewInv'
<1>1. PICK answer \in OutlineAnswers :
        work' = [step |-> "outlined", title |-> answer.title, keys |-> answer.keys,
                 plans |-> [s \in DOMAIN answer.keys |->
                              SectionPlan(s, answer.keys, clusterOf)]]
  BY DEF MakeOutline
<1>2. phase = "writing" /\ UNCHANGED <<phase, stateVars, failures, tables, artifact>>
  BY DEF MakeOutline
<1>3. answer.title \in Titles /\ \E n \in SectionCounts : answer.keys \in [1..n -> Named]
  BY DEF OutlineAnswers
<1>4. /\ work'.step = "outlined" /\ work'.title = answer.title /\ work'.keys = answer.keys
      /\ work'.plans = [s \in DOMAIN answer.keys |-> SectionPlan(s, answer.keys, clusterOf)]
  BY <1>1
<1>5. OutlineOK(work)'
  <2>1. PICK n \in SectionCounts : answer.keys \in [1..n -> Named]
    BY <1>3
  <2>2. DOMAIN answer.keys = 1..n
    BY <2>1
  <2>3. clusterOf' = clusterOf
    BY DEF MakeOutline
  <2> QED BY <1>4, <2>1, <2>2, <2>3 DEF OutlineOK
<1>6. WorkOK'
  BY <1>2, <1>3, <1>4, <1>5 DEF WorkOK
<1> QED BY <1>2, <1>6, WorkOnly

\* The outline in hand has a plan for every section, of the keys that it named.
LEMMA OutlineInHand ==
  ASSUME ReviewInv, work.step = "outlined"
  PROVE  phase = "writing" /\ work.title \in Titles /\ OutlineOK(work)
BY DEF ReviewInv, WorkOK, Idle

\* The sections of a first draft are what the model writes.
LEMMA WriteSectionsKeeps ==
  ASSUME ReviewInv, WriteSections
  PROVE  ReviewInv'
<1>1. phase = "writing" /\ work.title \in Titles /\ OutlineOK(work)
  BY OutlineInHand DEF WriteSections
<1>2. PICK n \in SectionCounts : DOMAIN work.plans = 1..n
  BY <1>1 DEF OutlineOK
<1>3. PICK allowed \in [1..n -> SUBSET Refs] :
        \E bodies \in SectionAnswers(DOMAIN allowed) :
           Submit(work.title, bodies, allowed, [title |-> work.title, bodies |-> bodies])
  BY <1>2 DEF WriteSections
<1>4. PICK bodies \in [1..n -> Texts] :
        Submit(work.title, bodies, allowed, [title |-> work.title, bodies |-> bodies])
  BY <1>3 DEF SectionAnswers
<1>5. n \in Nat /\ Texts \subseteq Seq(Nat) /\ work.title \in Seq(Nat)
  <2>1. Nat \ {0} \subseteq Nat
    OBVIOUS
  <2>2. Seq(Nat \ {0}) \subseteq Seq(Nat)
    BY <2>1, SeqMonotonic
  <2> QED BY <1>1, <2>2, WritingAssumption
<1>6. bodies \in Seq(Seq(Nat))
  <2>1. bodies \in [1..n -> Seq(Nat)]
    BY <1>5
  <2> QED BY <1>5, <2>1, FunctionIsSeq
<1>7. UNCHANGED tables
  BY DEF WriteSections
<1> QED BY <1>1, <1>4, <1>5, <1>6, <1>7, SubmitKeeps

\* A revision keeps what its author meant: the numbers that the model is shown are the papers
\* that were meant, and so is the number that the feedback names.
LEMMA ReviseKeeps ==
  ASSUME ReviewInv, Revise
  PROVE  ReviewInv'
<1> DEFINE refs == review.refs
           shown == [s \in DOMAIN review.bodies |-> Restore(review.bodies[s], refs)]
           named == IF feedback = 0 THEN 0 ELSE Restore(<<feedback>>, refs)[1]
           asked == IF feedback = 0 THEN 0 ELSE refs[feedback]
<1>1. PICK sel \in [DOMAIN shown -> Selections] :
        /\ \A s \in DOMAIN shown : ToSet(sel[s]) \subseteq Offers(shown[s])
        /\ LET bodies == [s \in DOMAIN shown |-> Pick(sel[s], shown[s], named)]
               meaning == [s \in DOMAIN shown |-> Pick(sel[s], meant.bodies[s], asked)]
           IN  Submit(review.title, bodies, review.allowed,
                      [title |-> meant.title, bodies |-> meaning])
  BY DEF Revise
<1> DEFINE bodies == [s \in DOMAIN shown |-> Pick(sel[s], shown[s], named)]
           meaning == [s \in DOMAIN shown |-> Pick(sel[s], meant.bodies[s], asked)]
<1>2. Submit(review.title, bodies, review.allowed, [title |-> meant.title, bodies |-> meaning])
  BY <1>1
<1>3. phase = "writing" /\ UNCHANGED tables
  BY DEF Revise
<1>4. /\ refs \in Seq(Refs) /\ review.title \in Seq(1..Len(refs))
      /\ review.bodies \in Seq(Seq(1..Len(refs)))
      /\ meant.bodies \in Seq(Seq(Refs)) /\ Len(meant.bodies) = Len(review.bodies)
      /\ \A s \in DOMAIN review.bodies : Means(review.bodies[s], refs, meant.bodies[s])
  BY DEF ReviewInv, DraftOK
<1>5. PICK n \in Nat : n = Len(review.bodies) /\ DOMAIN review.bodies = 1..n
  BY <1>4, LenProperties
<1>6. ASSUME NEW s \in 1..n PROVE shown[s] = meant.bodies[s] /\ meant.bodies[s] \in Seq(Refs)
  <2>1. review.bodies[s] \in Seq(1..Len(refs)) /\ meant.bodies[s] \in Seq(Refs)
    BY <1>4, <1>5, ElementOfSeq
  <2>2. Means(review.bodies[s], refs, meant.bodies[s])
    BY <1>4, <1>5
  <2>3. /\ DOMAIN review.bodies[s] = 1..Len(review.bodies[s])
        /\ DOMAIN meant.bodies[s] = 1..Len(meant.bodies[s])
        /\ meant.bodies[s] = [k \in DOMAIN meant.bodies[s] |-> meant.bodies[s][k]]
    BY <2>1, LenProperties
  <2>4. shown[s] = [k \in DOMAIN review.bodies[s] |-> refs[review.bodies[s][k]]]
    BY <1>5 DEF Restore
  <2>5. /\ DOMAIN review.bodies[s] = DOMAIN meant.bodies[s]
        /\ \A k \in DOMAIN review.bodies[s] : refs[review.bodies[s][k]] = meant.bodies[s][k]
    BY <2>2, <2>3 DEF Means
  <2> QED BY <2>1, <2>3, <2>4, <2>5
<1>7. named = asked
  BY DEF Restore
<1>8. DOMAIN shown = 1..n
  BY <1>5
<1>9. bodies = meaning
  BY <1>6, <1>7, <1>8
<1>10. refs \in [1..Len(refs) -> Refs] /\ Refs \subseteq Nat /\ Len(refs) \in Nat
  <2>1. refs \in [1..Len(refs) -> Refs] /\ Len(refs) \in Nat
    BY <1>4, LenProperties
  <2>2. Refs \subseteq Nat
    BY PlanAssumption DEF Refs
  <2> QED BY <2>1, <2>2
<1>11. feedback # 0 => asked \in Nat
  <2>1. feedback \in 0..Len(refs)
    BY DEF ReviewInv, Placed
  <2>2. ASSUME feedback # 0 PROVE refs[feedback] \in Nat
    <3>1. feedback \in 1..Len(refs)
      BY <1>10, <2>1, <2>2
    <3> QED BY <1>10, <3>1
  <2> QED BY <2>2
<1>12. sel \in [1..n -> Selections] /\ \A s \in 1..n : ToSet(sel[s]) \subseteq Offers(shown[s])
  BY <1>1, <1>8
<1>13. bodies = [s \in 1..n |-> Pick(sel[s], meant.bodies[s], asked)]
  BY <1>6, <1>7, <1>8
<1> HIDE DEF bodies, meaning, shown, asked, named
<1>14. ASSUME NEW s \in 1..n PROVE bodies[s] \in Seq(Nat)
  <2> DEFINE text == meant.bodies[s]
  <2>1. text \in Seq(Refs) /\ ToSet(sel[s]) \subseteq Offers(text)
    BY <1>6, <1>12
  <2>2. PICK m \in Nat : sel[s] \in [1..m -> 0..MaxCites]
    <3>1. sel[s] \in Selections
      BY <1>12
    <3>2. PICK k \in 0..MaxCites : sel[s] \in [1..k -> 0..MaxCites]
      BY <3>1 DEF Selections
    <3>3. k \in Nat
      BY WritingAssumption
    <3> QED BY <3>2, <3>3
  <2>3. text \in [1..Len(text) -> Refs]
    BY <2>1, LenProperties
  <2> HIDE DEF text
  <2>4. ASSUME NEW k \in 1..m PROVE (IF sel[s][k] = 0 THEN asked ELSE text[sel[s][k]]) \in Nat
    <3>1. sel[s][k] \in ToSet(sel[s])
      BY <2>2 DEF ToSet
    <3>2. sel[s][k] \in Offers(text)
      BY <2>1, <3>1
    <3>3. CASE sel[s][k] = 0
      <4>1. feedback # 0
        BY <3>2, <3>3 DEF Offers
      <4> QED BY <1>11, <3>3, <4>1
    <3>4. CASE sel[s][k] # 0
      <4>1. sel[s][k] \in 1..Len(text)
        BY <3>2, <3>4 DEF Offers
      <4> QED BY <1>10, <2>3, <3>4, <4>1
    <3> QED BY <3>3, <3>4
  <2>5. bodies[s] = [k \in 1..m |-> IF sel[s][k] = 0 THEN asked ELSE text[sel[s][k]]]
    BY <1>13, <2>2 DEF Pick, text
  <2>6. bodies[s] \in [1..m -> Nat]
    BY <2>4, <2>5
  <2> QED BY <2>6, FunctionIsSeq
<1>15. bodies \in Seq(Seq(Nat))
  <2>1. bodies \in [1..n -> Seq(Nat)]
    BY <1>13, <1>14
  <2> QED BY <2>1, FunctionIsSeq
<1>16. review.title \in Seq(Nat)
  <2>1. 1..Len(refs) \subseteq Nat
    BY <1>10
  <2> QED BY <1>4, <2>1, SeqMonotonic
<1> DEFINE meant2 == [title |-> meant.title, bodies |-> meaning]
<1>17. meant2.bodies = bodies
  BY <1>9
<1>18. Submit(review.title, bodies, review.allowed, meant2)
  BY <1>2
<1> HIDE DEF meant2
<1> QED BY <1>3, <1>15, <1>16, <1>17, <1>18, SubmitKeeps

\* A call of the writing node fails.
LEMMA WritingFailsKeeps ==
  ASSUME ReviewInv, WritingFails
  PROVE  ReviewInv'
<1>1. phase = "writing" /\ PhaseFailure("writing") /\ UNCHANGED tables
  BY DEF WritingFails
<1> QED BY <1>1, FailureKeeps

\* The draft in hand is a sound one, whether its outline or its sections are next.
LEMMA InHand ==
  ASSUME ReviewInv
  PROVE  /\ work.step = "outline" =>
              phase = "writing" /\ DraftOK(work.draft, work.meant.bodies)
         /\ work.step = "section" =>
              /\ phase = "writing" /\ DraftOK(work.draft, work.meant.bodies)
              /\ work = [step |-> "section", next |-> work.next, draft |-> work.draft,
                         meant |-> work.meant]
              /\ work.next \in 1..Len(work.draft.bodies) + 1
              /\ Holds(work.draft, work.next)
BY DEF ReviewInv, WorkOK, Idle

\* A sound draft has a finite number of sections.
LEMMA DraftSections ==
  ASSUME NEW d, NEW meaning, DraftOK(d, meaning)
  PROVE  Len(d.bodies) \in Nat /\ DOMAIN d.bodies = 1..Len(d.bodies)
BY LenProperties DEF DraftOK

\* The new outline removes the rows of sections it does not have.
LEMMA SaveOutlineKeeps ==
  ASSUME ReviewInv, SaveOutline
  PROVE  ReviewInv'
<1> DEFINE d == work.draft
<1>1. /\ outline' = [title |-> d.title, sections |-> Len(d.bodies)]
      /\ rows' = [s \in Sections |-> IF s \in DOMAIN d.bodies THEN rows[s] ELSE Absent]
      /\ work' = [step |-> "section", next |-> 1, draft |-> d, meant |-> work.meant]
      /\ UNCHANGED <<phase, review, needsRevision, feedback, revision, meant, failures, artifact>>
  BY DEF SaveOutline, StoreOutline, stateVars
<1>2. phase = "writing" /\ DraftOK(d, work.meant.bodies)
  BY InHand DEF SaveOutline
<1>3. Len(d.bodies) \in Nat /\ DOMAIN d.bodies = 1..Len(d.bodies)
  BY <1>2, DraftSections
<1> HIDE DEF d
<1>4. /\ work'.draft = d /\ work'.meant = work.meant /\ work'.next = 1
      /\ work' = [step |-> "section", next |-> work'.next, draft |-> work'.draft,
                  meant |-> work'.meant]
  BY <1>1
<1>5. Holds(work.draft, work.next)'
  <2>1. ASSUME NEW s \in Sections
        PROVE  IF s \in DOMAIN d.bodies THEN s < 1 => rows'[s] = d.bodies[s]
                                       ELSE rows'[s] = Absent
    <3>1. s \in DOMAIN d.bodies => ~(s < 1)
      BY <1>3
    <3> QED BY <1>1, <3>1
  <2> QED BY <1>1, <1>4, <2>1 DEF Holds
<1>6. DraftOK(work.draft, work.meant.bodies)'
  BY <1>2, <1>4 DEF DraftOK
<1>7. 1 \in 1..Len(d.bodies) + 1
  BY <1>3
<1>8. WorkOK'
  BY <1>1, <1>2, <1>4, <1>5, <1>6, <1>7 DEF WorkOK
<1>9. Placed'
  BY <1>1 DEF ReviewInv, Placed
<1>10. DraftOK(review, meant.bodies)' /\ StoredOK'
  BY <1>1, <1>2 DEF ReviewInv, DraftOK, StoredOK
<1> QED BY <1>8, <1>9, <1>10 DEF ReviewInv

\* One more section of the draft is in its table.
LEMMA SaveSectionKeeps ==
  ASSUME ReviewInv, SaveSection
  PROVE  ReviewInv'
<1> DEFINE d == work.draft
           next == work.next
<1>1. /\ next \in DOMAIN d.bodies
      /\ rows' = [rows EXCEPT ![next] = d.bodies[next]]
      /\ work' = [work EXCEPT !.next = next + 1]
      /\ UNCHANGED <<phase, review, needsRevision, feedback, revision, meant, failures, outline,
                     artifact>>
  BY DEF SaveSection, stateVars
<1>2. /\ phase = "writing" /\ DraftOK(d, work.meant.bodies) /\ Holds(d, next)
      /\ work = [step |-> "section", next |-> next, draft |-> d, meant |-> work.meant]
  BY InHand DEF SaveSection
<1>3. Len(d.bodies) \in Nat /\ DOMAIN d.bodies = 1..Len(d.bodies)
  BY <1>2, DraftSections
<1>4. DOMAIN rows = Sections
  BY DEF ReviewInv, Placed
<1>5. work' = [step |-> "section", next |-> next + 1, draft |-> d, meant |-> work.meant]
  BY <1>1, <1>2
<1> HIDE DEF d, next
<1>6. /\ work'.draft = d /\ work'.meant = work.meant /\ work'.next = next + 1
      /\ work' = [step |-> "section", next |-> work'.next, draft |-> work'.draft,
                  meant |-> work'.meant]
  BY <1>5
<1>7. next + 1 \in 1..Len(d.bodies) + 1
  BY <1>1, <1>3
<1>8. Holds(work.draft, work.next)'
  <2>1. ASSUME NEW s \in Sections
        PROVE  IF s \in DOMAIN d.bodies THEN s < next + 1 => rows'[s] = d.bodies[s]
                                       ELSE rows'[s] = Absent
    <3>1. rows'[s] = IF s = next THEN d.bodies[next] ELSE rows[s]
      BY <1>1, <1>4
    <3>2. s \in DOMAIN d.bodies => (s < next + 1 => s < next \/ s = next)
      BY <1>1, <1>3
    <3> QED BY <1>1, <1>2, <3>1, <3>2 DEF Holds
  <2>2. outline' = [title |-> d.title, sections |-> Len(d.bodies)]
    BY <1>1, <1>2 DEF Holds
  <2> QED BY <1>6, <2>1, <2>2 DEF Holds
<1>9. DraftOK(work.draft, work.meant.bodies)'
  BY <1>2, <1>6 DEF DraftOK
<1>10. WorkOK'
  BY <1>1, <1>2, <1>6, <1>7, <1>8, <1>9 DEF WorkOK
<1>11. DOMAIN rows' = Sections
  BY <1>1, <1>4
<1>12. Placed'
  BY <1>1, <1>11 DEF ReviewInv, Placed
<1>13. DraftOK(review, meant.bodies)' /\ StoredOK'
  BY <1>1, <1>2 DEF ReviewInv, DraftOK, StoredOK
<1> QED BY <1>10, <1>12, <1>13 DEF ReviewInv

\* Storing the draft fails.
LEMMA SaveFailsKeeps ==
  ASSUME ReviewInv, SaveFails
  PROVE  ReviewInv'
<1>1. work.step \in {"outline", "section"} /\ PhaseFailure("writing") /\ UNCHANGED tables
  BY DEF SaveFails
<1>2. phase = "writing"
  BY <1>1, InHand
<1> QED BY <1>1, <1>2, FailureKeeps

\* What is stored in full becomes the review.
LEMMA WritingReturnsKeeps ==
  ASSUME ReviewInv, WritingReturns
  PROVE  ReviewInv'
<1> DEFINE d == work.draft
           next == work.next
<1>1. /\ next > Len(d.bodies) /\ review' = d /\ meant' = work.meant
      /\ feedback' = 0 /\ phase' = "peer_review" /\ work' = Idle
      /\ UNCHANGED <<failures, outline, rows, artifact>>
  BY DEF WritingReturns, tables
<1>2. /\ phase = "writing" /\ DraftOK(d, work.meant.bodies) /\ Holds(d, next)
      /\ next \in 1..Len(d.bodies) + 1
  BY InHand DEF WritingReturns
<1>3. Len(d.bodies) \in Nat
  BY <1>2, DraftSections
<1>4. Len(d.refs) \in Nat
  BY <1>2, LenProperties DEF DraftOK
<1> HIDE DEF d, next
<1>5. next = Len(d.bodies) + 1
  BY <1>1, <1>2, <1>3
<1>6. Holds(review, Len(review.bodies) + 1)'
  BY <1>1, <1>2, <1>5 DEF Holds
<1>7. DraftOK(review, meant.bodies)'
  BY <1>1, <1>2 DEF DraftOK
<1>8. 0 \in 0..Len(d.refs)
  BY <1>4
<1>9. Placed'
  BY <1>1, <1>8 DEF ReviewInv, Placed
<1>10. WorkOK' /\ StoredOK'
  BY <1>1, <1>2, <1>6 DEF ReviewInv, WorkOK, StoredOK
<1> QED BY <1>7, <1>9, <1>10 DEF ReviewInv

\* A stop loses what is in hand and nothing else.
LEMMA StopKeeps ==
  ASSUME ReviewInv, Stop
  PROVE  ReviewInv'
<1>1. work' = Idle /\ UNCHANGED <<phase, review, needsRevision, feedback, revision, meant, failures,
                                  outline, rows, artifact>>
  BY DEF Stop, stateVars, tables
<1>2. Placed' /\ DraftOK(review, meant.bodies)' /\ WorkOK' /\ StoredOK'
  BY <1>1 DEF ReviewInv, Placed, DraftOK, WorkOK, StoredOK, Holds, Exhausted
<1> QED BY <1>2 DEF ReviewInv

\* The reviewers send the review back or let it pass.
LEMMA PeerReviewKeeps ==
  ASSUME ReviewInv, PeerReview
  PROVE  ReviewInv'
<1>1. /\ phase = "peer_review" /\ phase' \in {"writing", "finalize"}
      /\ feedback' \in 0..Len(review.refs)
      /\ UNCHANGED <<review, meant, failures, work, outline, rows, artifact>>
  BY DEF PeerReview, Reports, tables, ReviewInv, Placed
<1>2. work = Idle
  BY <1>1 DEF ReviewInv, WorkOK
<1>3. Placed' /\ WorkOK'
  BY <1>1, <1>2 DEF ReviewInv, Placed, WorkOK
<1>4. DraftOK(review, meant.bodies)'
  BY <1>1 DEF ReviewInv, DraftOK
<1>5. Exhausted("writing")' <=> Exhausted("writing")
  BY <1>1 DEF Exhausted
<1>6. StoredOK'
  BY <1>1, <1>5 DEF ReviewInv, StoredOK, Holds
<1> QED BY <1>3, <1>4, <1>6 DEF ReviewInv

\* A peer review that fails leaves the review and the tables as they are.
LEMMA PeerReviewFailsKeeps ==
  ASSUME ReviewInv, PeerReviewFails
  PROVE  ReviewInv'
<1>1. phase = "peer_review" /\ PhaseFailure("peer_review") /\ UNCHANGED tables
  BY DEF PeerReviewFails
<1> QED BY <1>1, FailureKeeps

\* The artifact is the review that the state holds.
LEMMA FinalizeKeeps ==
  ASSUME ReviewInv, Finalize
  PROVE  ReviewInv'
<1>1. /\ phase = "finalize" /\ phase' = "done"
      /\ UNCHANGED <<review, needsRevision, feedback, revision, meant, failures, work, outline,
                     rows>>
  BY DEF Finalize, stateVars, tables
<1>2. artifact'.review = review
  <2>1. artifact.review = NoReview
    BY <1>1 DEF ReviewInv, StoredOK
  <2> QED BY <2>1 DEF Finalize
<1>3. work = Idle
  BY <1>1 DEF ReviewInv, WorkOK
<1>4. Placed' /\ WorkOK'
  BY <1>1, <1>3 DEF ReviewInv, Placed, WorkOK
<1>5. DraftOK(review, meant.bodies)'
  BY <1>1 DEF ReviewInv, DraftOK
<1>6. Exhausted("writing")' <=> Exhausted("writing")
  BY <1>1 DEF Exhausted
<1>7. StoredOK'
  BY <1>1, <1>2, <1>6 DEF ReviewInv, StoredOK, Holds
<1> QED BY <1>4, <1>5, <1>7 DEF ReviewInv

-----------------------------------------------------------------------------
(* The theorems *)

\* Before the first draft there is a review without text and without references.
LEMMA NoReviewIsSound == DraftOK(NoReview, NoMeaning.bodies)
<1>1. <<>> \in Seq(Refs) /\ <<>> \in Seq(1..Len(<<>>)) /\ <<>> \in Seq(Seq(1..Len(<<>>)))
  OBVIOUS
<1>2. Assembled(<<>>, <<>>, <<>>) = <<>>
  <2>1. <<>> \in Seq(Seq(Refs))
    OBVIOUS
  <2>2. PICK g : Joins(Refs, <<>>, g)
    BY <2>1, FlattenSteps
  <2>3. FlattenSeq(<<>>) = <<>>
    BY <2>2 DEF Joins
  <2> QED BY <2>3 DEF Assembled
<1>3. Distinct(<<>>) = <<>>
  <2>1. PICK e : Passes(Refs, <<>>, e)
    BY <1>1, DistinctSteps
  <2> QED BY <2>1 DEF Passes
<1>4. [k \in DOMAIN <<>> |-> k] = <<>>
  OBVIOUS
<1>5. IsInjective(<<>>)
  BY DEF IsInjective
<1> DEFINE d == NoReview
<1>6. /\ d.title = <<>> /\ d.abstract = <<>> /\ d.bodies = <<>> /\ d.refs = <<>>
      /\ NoMeaning.bodies = <<>>
  BY DEF NoReview, NoMeaning
<1> HIDE DEF d
<1>7. Distinct(Assembled(d.title, d.abstract, d.bodies)) = [k \in DOMAIN d.refs |-> k]
  BY <1>2, <1>3, <1>4, <1>6
<1>8. Len(NoMeaning.bodies) = Len(d.bodies) /\ DOMAIN d.bodies = {}
  BY <1>6
<1>9. DraftOK(d, NoMeaning.bodies)
  BY <1>1, <1>5, <1>6, <1>7, <1>8 DEF DraftOK
<1> QED BY <1>9 DEF d

\* The first state of an execution.
LEMMA ReviewInit == Init => ReviewInv
<1> SUFFICES ASSUME Init PROVE ReviewInv
  OBVIOUS
<1>1. DraftOK(review, meant.bodies)
  BY NoReviewIsSound DEF Init
<1>2. Placed
  <2>1. 0 \in 0..Len(NoReview.refs)
    BY DEF NoReview
  <2>2. failures \in [{"writing", "peer_review"} -> Nat]
    BY DEF Init
  <2>3. DOMAIN rows = Sections
    BY DEF Init
  <2> QED BY <2>1, <2>2, <2>3 DEF Init, Placed
<1>3. WorkOK /\ StoredOK
  BY DEF Init, WorkOK, StoredOK
<1> QED BY <1>1, <1>2, <1>3 DEF ReviewInv

\* Every step keeps the invariant.
LEMMA ReviewNext == ReviewInv /\ [Next]_vars => ReviewInv'
<1> SUFFICES ASSUME ReviewInv, [Next]_vars PROVE ReviewInv'
  OBVIOUS
<1>1. CASE Next
  BY <1>1, MakeOutlineKeeps, WriteSectionsKeeps, ReviseKeeps, WritingFailsKeeps,
     SaveOutlineKeeps, SaveSectionKeeps, SaveFailsKeeps, WritingReturnsKeeps, StopKeeps,
     PeerReviewKeeps, PeerReviewFailsKeeps, FinalizeKeeps DEF Next
<1>2. CASE UNCHANGED vars
  <2>1. UNCHANGED <<phase, review, feedback, meant, failures, work, outline, rows, artifact,
                    clusterOf>>
    BY <1>2 DEF vars, stateVars, tables
  <2>2. OutlineOK(work)' <=> OutlineOK(work)
    BY <2>1 DEF OutlineOK
  <2>3. WorkOK'
    BY <2>1, <2>2 DEF ReviewInv, WorkOK, DraftOK, Holds
  <2> QED BY <2>1, <2>3 DEF ReviewInv, Placed, DraftOK, StoredOK, Holds, Exhausted
<1> QED BY <1>1, <1>2

\* The tables, the review, the draft in hand and what each citation was meant to be agree in
\* every state.
THEOREM ReviewInvariant == Spec => []ReviewInv
<1> QED BY ReviewInit, ReviewNext, PTL DEF Spec

\* Through numbering, storing, restoring and revising, every number in a section body leads
\* to the paper its author meant, in a list that has an entry for each number and no other.
THEOREM CitationsStayTrue == Spec => []CitationsAreTrue
<1>1. ReviewInv => CitationsAreTrue
  BY DEF ReviewInv, DraftOK, CitationsAreTrue, CitationsKeepMeaning, ReferencesAreUsed
<1> QED BY <1>1, ReviewInvariant, PTL

\* A section cites, and cites only the evidence that its first draft was given, however often
\* it is revised and renumbered.
THEOREM SectionsStayGrounded == Spec => []GroundedSections
<1>1. ReviewInv => GroundedSections
  BY DEF ReviewInv, DraftOK, GroundedSections
<1> QED BY <1>1, ReviewInvariant, PTL

\* What is reviewed and published is what the tables hold, and they hold nothing else.
THEOREM StoredReviewIsPublished == Spec => []StoredIsReviewed
<1>1. ReviewInv => StoredIsReviewed
  <2> SUFFICES ASSUME ReviewInv, phase # "writing", ~Exhausted("writing")
               PROVE  /\ outline = [title |-> review.title, sections |-> Len(review.bodies)]
                      /\ \A s \in Sections :
                           rows[s] = IF s \in DOMAIN review.bodies THEN review.bodies[s] ELSE Absent
                      /\ phase = "done" => artifact.review = review
    BY DEF StoredIsReviewed
  <2>1. Len(review.bodies) \in Nat /\ DOMAIN review.bodies = 1..Len(review.bodies)
    BY DraftSections DEF ReviewInv
  <2>2. Holds(review, Len(review.bodies) + 1) /\ (phase = "done" => artifact.review = review)
    BY DEF ReviewInv, StoredOK
  <2>3. ASSUME NEW s \in Sections
        PROVE  rows[s] = IF s \in DOMAIN review.bodies THEN review.bodies[s] ELSE Absent
    <3>1. s \in DOMAIN review.bodies => s < Len(review.bodies) + 1
      BY <2>1
    <3> QED BY <2>2, <3>1 DEF Holds
  <2> QED BY <2>2, <2>3 DEF Holds
<1> QED BY <1>1, ReviewInvariant, PTL

\* A section is offered as many papers as the policy allows, no paper twice and none passed over
\* for a worse; and when the outline names no clusters, the sections cover all of them.
THEOREM PlansAreServed == Spec => []PlansServeSections
<1>1. ReviewInv => PlansServeSections
  <2> SUFFICES ASSUME ReviewInv, work.step = "outlined" PROVE PlansServeSections
    BY DEF PlansServeSections, PlansAreBestFirst, WindowsCoverClusters
  <2>1. PICK n \in SectionCounts :
          /\ work.keys \in [1..n -> Named]
          /\ work.plans = [s \in 1..n |-> SectionPlan(s, work.keys, clusterOf)]
    BY OutlineInHand DEF OutlineOK
  <2>2. n \in Nat \ {0}
    BY WritingAssumption
  <2>3. DOMAIN work.keys = 1..n /\ Len(work.keys) = n /\ DOMAIN work.plans = 1..n
    BY <2>1, <2>2, FunctionIsSeq
  <2>4. ASSUME NEW s \in 1..n PROVE BestFirst(work.plans[s], s, work.keys, clusterOf)
    BY <2>1, PlanIsBestFirst
  <2>5. PlansAreBestFirst
    BY <2>3, <2>4 DEF PlansAreBestFirst
  <2>6. ASSUME \A s \in DOMAIN work.keys : work.keys[s] = {}
        PROVE  ToSet(OrderedClusters(clusterOf))
                 = UNION {PrimaryClusters(s, work.keys, clusterOf) : s \in DOMAIN work.keys}
    <3>1. \A s \in 1..n : work.keys[s] = {}
      BY <2>3, <2>6
    <3> QED BY <2>2, <2>3, <3>1, WindowsCover
  <2>7. WindowsCoverClusters
    BY <2>6 DEF WindowsCoverClusters
  <2> QED BY <2>5, <2>7 DEF PlansServeSections
<1> QED BY <1>1, ReviewInvariant, PTL
=============================================================================
