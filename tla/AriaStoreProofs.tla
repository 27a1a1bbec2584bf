--------------------------- MODULE AriaStoreProofs ---------------------------
(***************************************************************************)
(* Proofs about AriaStore, for every value of its constants: what readers  *)
(* see is the one log per aria that AriaLog promises, and the caches tell  *)
(* what a replay would tell.                                               *)
(***************************************************************************)
EXTENDS AriaStore, TLAPS, SequenceTheorems, FiniteSetTheorems, WellFoundedInduction

-----------------------------------------------------------------------------
(* Least and greatest numbers *)

\* A set of naturals has a least element,
LEMMA LeastOf ==
  ASSUME NEW S, S \subseteq Nat, S # {} PROVE \E i \in S : \A j \in S : i <= j
<1>1. IsWellFoundedOn(OpToRel(<, Nat), Nat)
  BY NatLessThanWellFounded
<1>2. PICK i \in S : \A j \in S : ~ (<<j, i>> \in OpToRel(<, Nat))
  BY <1>1, WFMin
<1>3. \A j \in S : ~ (j < i)
  BY <1>2 DEF OpToRel
<1> QED BY <1>3

\* and one that is bounded a greatest.
LEMMA GreatestOf ==
  ASSUME NEW n \in Nat, NEW S, S \subseteq 0..n, S # {}
  PROVE  \E k \in S : \A j \in (k + 1)..n : j \notin S
<1> DEFINE T == {m \in 0..n : n - m \in S}
<1>1. T \subseteq Nat /\ T # {}
  <2>1. PICK k \in S : TRUE
    OBVIOUS
  <2>2. n - k \in 0..n /\ n - (n - k) = k
    BY <2>1
  <2>3. n - k \in T
    BY <2>1, <2>2
  <2>4. \A m \in T : m \in Nat
    OBVIOUS
  <2> HIDE DEF T
  <2> QED BY <2>3, <2>4
<1>2. PICK m \in T : \A j \in T : m <= j
  BY <1>1, LeastOf
<1>3. n - m \in S
  BY <1>2
<1>4. ASSUME NEW j \in (n - m + 1)..n, j \in S PROVE FALSE
  <2>1. n - j \in 0..n /\ n - (n - j) = j
    BY <1>2, <1>4
  <2>2. n - j \in T
    BY <1>4, <2>1
  <2> QED BY <1>2, <1>4, <2>1, <2>2
<1> QED BY <1>3, <1>4

-----------------------------------------------------------------------------
(* Induction and recursion up to a bound *)

\* What holds of 0 and, if of k, of k + 1, holds up to n.
LEMMA Upward ==
  ASSUME NEW n \in Nat, NEW T, 0 \in T, \A k \in 0..(n - 1) : k \in T => k + 1 \in T
  PROVE  \A k \in 0..n : k \in T
<1> SUFFICES ASSUME NEW c \in 0..n, c \notin T PROVE FALSE
  OBVIOUS
<1> DEFINE S == {k \in 0..n : k \notin T}
<1>1. S # {} /\ S \subseteq Nat
  <2>1. c \in S /\ \A k \in S : k \in Nat
    OBVIOUS
  <2> HIDE DEF S
  <2> QED BY <2>1
<1>2. PICK m \in S : \A j \in S : m <= j
  BY <1>1, LeastOf
<1>3. m \in 0..n /\ m \notin T /\ m # 0
  BY <1>2
<1>4. m - 1 \in 0..(n - 1) /\ m - 1 \in 0..n /\ ~(m <= m - 1) /\ (m - 1) + 1 = m
  BY <1>3
<1>5. m - 1 \in T
  BY <1>2, <1>4
<1> QED BY <1>3, <1>4, <1>5

\* A function with a given start and step.
Stepwise(n, D, step) == \A k \in 1..n : \A d \in D : step[<<k, d>>] \in D

LEMMA Recursion ==
  ASSUME NEW n \in Nat, NEW D, NEW b \in D, NEW step, Stepwise(n, D, step)
  PROVE  \E f \in [0..n -> D] : f[0] = b /\ \A k \in 1..n : f[k] = step[<<k, f[k - 1]>>]
<1> DEFINE Runs(m, f) == f[0] = b /\ \A k \in 1..m : f[k] = step[<<k, f[k - 1]>>]
           T == {m \in 0..n : \E f \in [0..m -> D] : Runs(m, f)}
<1>1. 0 \in T
  <2>1. [i \in 0..0 |-> b] \in [0..0 -> D] /\ Runs(0, [i \in 0..0 |-> b])
    OBVIOUS
  <2> HIDE DEF Runs
  <2> QED BY <2>1
<1>2. ASSUME NEW m \in 0..(n - 1), m \in T PROVE m + 1 \in T
  <2>1. PICK f \in [0..m -> D] : Runs(m, f)
    BY <1>2
  <2>2. PICK e : e = step[<<m + 1, f[m]>>]
    OBVIOUS
  <2>3. e \in D
    <3>1. m + 1 \in 1..n /\ m \in 0..m
      BY <1>2
    <3>2. f[m] \in D
      BY <3>1
    <3>3. \A k \in 1..n : \A d \in D : step[<<k, d>>] \in D
      BY DEF Stepwise
    <3> QED BY <2>2, <3>1, <3>2, <3>3
  <2>4. PICK g : g = [i \in 0..(m + 1) |-> IF i = m + 1 THEN e ELSE f[i]]
    OBVIOUS
  <2>5. g \in [0..(m + 1) -> D]
    BY <1>2, <2>3, <2>4
  <2>6. g[m + 1] = e /\ \A i \in 0..m : g[i] = f[i]
    BY <1>2, <2>4
  <2>7. ASSUME NEW k \in 1..(m + 1) PROVE g[k] = step[<<k, g[k - 1]>>]
    <3>1. CASE k = m + 1
      <4>1. k - 1 = m /\ m \in 0..m
        BY <1>2, <3>1
      <4> QED BY <2>2, <2>6, <3>1, <4>1
    <3>2. CASE k # m + 1
      <4>1. k \in 1..m /\ k \in 0..m /\ k - 1 \in 0..m
        BY <1>2, <2>7, <3>2
      <4> QED BY <2>1, <2>6, <4>1
    <3> QED BY <3>1, <3>2
  <2>8. g[0] = b
    BY <1>2, <2>1, <2>6
  <2>9. Runs(m + 1, g)
    BY <2>7, <2>8
  <2>10. m + 1 \in 0..n
    BY <1>2
  <2> HIDE DEF Runs
  <2> QED BY <2>5, <2>9, <2>10
<1> HIDE DEF T
<1>3. \A m \in 0..n : m \in T
  BY <1>1, <1>2, Upward
<1>4. n \in T
  BY <1>3
<1> QED BY <1>4 DEF T

-----------------------------------------------------------------------------
(* Picking records *)

LEMMA PickedRuns ==
  ASSUME NEW S, NEW s \in Seq(S), NEW I
  PROVE  \E G : /\ Picked(s, I) = G[Len(s)] /\ G[0] = <<>>
                /\ \A k \in 1..Len(s) : G[k] = IF k \in I THEN Append(G[k - 1], s[k]) ELSE G[k - 1]
<1>0. PICK n : n = Len(s)
  OBVIOUS
<1> DEFINE G == CHOOSE upto : upto = [k \in 0..Len(s) |->
                  IF k = 0 THEN <<>> ELSE IF k \in I THEN Append(upto[k - 1], s[k]) ELSE upto[k - 1]]
           step == [x \in (1..n) \X Seq(S) |-> IF x[1] \in I THEN Append(x[2], s[x[1]]) ELSE x[2]]
<1>1. n \in Nat
  BY <1>0, LenProperties
<1>2. \A k \in 1..n : \A t \in Seq(S) : step[<<k, t>>] \in Seq(S)
  <2>1. \A k \in 1..n, t \in Seq(S) : Append(t, s[k]) \in Seq(S)
    BY <1>0, ElementOfSeq, AppendProperties
  <2> QED BY <2>1
<1>3. <<>> \in Seq(S)
  BY EmptySeq
<1>4. PICK f \in [0..n -> Seq(S)] : f[0] = <<>> /\ \A k \in 1..n : f[k] = step[<<k, f[k - 1]>>]
  <2>1. PICK D, g, b : D = Seq(S) /\ g = step /\ b = <<>>
    OBVIOUS
  <2> HIDE DEF step
  <2>3. b \in D /\ Stepwise(n, D, g)
    BY <1>2, <1>3, <2>1 DEF Stepwise
  <2>4. \E f \in [0..n -> D] : f[0] = b /\ \A k \in 1..n : f[k] = g[<<k, f[k - 1]>>]
    BY <1>1, <2>3, Recursion
  <2> QED BY <2>1, <2>4
<1>5. \A k \in 1..n : f[k] = IF k \in I THEN Append(f[k - 1], s[k]) ELSE f[k - 1]
  <2> TAKE k \in 1..n
  <2>1. k - 1 \in 0..n
    BY <1>1
  <2>2. f[k - 1] \in Seq(S)
    BY <1>4, <2>1
  <2>3. step[<<k, f[k - 1]>>] = IF k \in I THEN Append(f[k - 1], s[k]) ELSE f[k - 1]
    BY <2>2
  <2> QED BY <1>4, <2>3
<1>6. f = [k \in 0..Len(s) |-> IF k = 0 THEN <<>> ELSE IF k \in I THEN Append(f[k - 1], s[k]) ELSE f[k - 1]]
  <2>1. \A k \in 0..n : f[k] = IF k = 0 THEN <<>> ELSE IF k \in I THEN Append(f[k - 1], s[k]) ELSE f[k - 1]
    <3> HIDE DEF step
    <3> TAKE k \in 0..n
    <3>1. CASE k = 0
      BY <1>4, <3>1
    <3>2. CASE k # 0
      <4>1. k \in 1..n
        BY <1>1, <3>2
      <4> QED BY <1>5, <3>2, <4>1
    <3> QED BY <3>1, <3>2
  <2> HIDE DEF step
  <2> QED BY <1>0, <1>4, <2>1
<1>7. G = [k \in 0..Len(s) |-> IF k = 0 THEN <<>> ELSE IF k \in I THEN Append(G[k - 1], s[k]) ELSE G[k - 1]]
  BY <1>6
<1>8. Picked(s, I) = G[Len(s)]
  BY DEF Picked
<1> HIDE DEF G
<1>9. /\ G[0] = <<>>
      /\ \A k \in 1..Len(s) : G[k] = IF k \in I THEN Append(G[k - 1], s[k]) ELSE G[k - 1]
  <2>1. \A k \in 0..Len(s) : G[k] = IF k = 0 THEN <<>> ELSE IF k \in I THEN Append(G[k - 1], s[k]) ELSE G[k - 1]
    BY <1>7
  <2>2. 0 \in 0..Len(s) /\ \A k \in 1..Len(s) : k \in 0..Len(s) /\ k # 0
    BY <1>0, <1>1
  <2> QED BY <2>1, <2>2
<1> QED BY <1>8, <1>9

\* A recursion that starts and steps like the one of Picked ends where it ends.
LEMMA PickedUnique ==
  ASSUME NEW S, NEW s \in Seq(S), NEW I, NEW F, F[0] = <<>>,
         \A k \in 1..Len(s) : F[k] = IF k \in I THEN Append(F[k - 1], s[k]) ELSE F[k - 1]
  PROVE  Picked(s, I) = F[Len(s)]
<1>1. PICK n \in Nat : n = Len(s)
  BY LenProperties
<1>2. PICK G : /\ Picked(s, I) = G[n] /\ G[0] = <<>>
               /\ \A k \in 1..n : G[k] = IF k \in I THEN Append(G[k - 1], s[k]) ELSE G[k - 1]
  BY <1>1, PickedRuns
<1> DEFINE T == {k \in 0..n : F[k] = G[k]}
<1>3. 0 \in T
  BY <1>2
<1>4. ASSUME NEW m \in 0..(n - 1), m \in T PROVE m + 1 \in T
  <2>1. m + 1 \in 1..n /\ (m + 1) - 1 = m /\ m + 1 \in 0..n
    BY <1>4
  <2>2. F[m] = G[m]
    BY <1>4
  <2>3. F[m + 1] = IF m + 1 \in I THEN Append(F[m], s[m + 1]) ELSE F[m]
    BY <1>1, <2>1
  <2>4. G[m + 1] = IF m + 1 \in I THEN Append(G[m], s[m + 1]) ELSE G[m]
    BY <1>2, <2>1
  <2> QED BY <2>1, <2>2, <2>3, <2>4
<1> HIDE DEF T
<1>5. n \in T
  <2>1. \A k \in 0..n : k \in T
    BY <1>3, <1>4, Upward
  <2> QED BY <2>1
<1> QED BY <1>1, <1>2, <1>5 DEF T

LEMMA PickedEmpty ==
  ASSUME NEW I PROVE Picked(<<>>, I) = <<>>
<1>1. PICK s \in Seq({}) : s = <<>> /\ Len(s) = 0
  BY EmptySeq
<1>2. PICK G : Picked(s, I) = G[Len(s)] /\ G[0] = <<>>
  BY PickedRuns
<1> QED BY <1>1, <1>2

\* What is picked of one more record.
LEMMA PickedAppend ==
  ASSUME NEW S, NEW s \in Seq(S), NEW e \in S, NEW I, NEW J, \A k \in 1..Len(s) : k \in I <=> k \in J
  PROVE  Picked(Append(s, e), J) = IF Len(s) + 1 \in J THEN Append(Picked(s, I), e) ELSE Picked(s, I)
<1>1. PICK n \in Nat : n = Len(s)
  BY LenProperties
<1>2. PICK q \in Seq(S) : q = Append(s, e) /\ Len(q) = n + 1 /\ q[n + 1] = e /\ \A k \in 1..n : q[k] = s[k]
  <2>1. /\ Append(s, e) \in Seq(S) /\ Len(Append(s, e)) = n + 1 /\ Append(s, e)[n + 1] = e
        /\ \A k \in 1..n : Append(s, e)[k] = s[k]
    BY <1>1, AppendProperties
  <2> QED BY <2>1
<1>3. PICK G : /\ Picked(q, J) = G[n + 1] /\ G[0] = <<>>
               /\ \A k \in 1..(n + 1) : G[k] = IF k \in J THEN Append(G[k - 1], q[k]) ELSE G[k - 1]
  <2>1. PICK N : N = Len(q)
    OBVIOUS
  <2>2. \E G : /\ Picked(q, J) = G[N] /\ G[0] = <<>>
               /\ \A k \in 1..N : G[k] = IF k \in J THEN Append(G[k - 1], q[k]) ELSE G[k - 1]
    BY <2>1, PickedRuns
  <2>3. N = n + 1
    BY <1>2, <2>1
  <2> QED BY <2>2, <2>3
<1>4. \A k \in 1..n : G[k] = IF k \in I THEN Append(G[k - 1], s[k]) ELSE G[k - 1]
  <2> TAKE k \in 1..n
  <2>1. k \in 1..(n + 1) /\ q[k] = s[k] /\ (k \in I <=> k \in J)
    BY <1>1, <1>2
  <2> QED BY <1>3, <2>1
<1>5. Picked(s, I) = G[n]
  BY <1>1, <1>3, <1>4, PickedUnique
<1>6. n + 1 \in 1..(n + 1) /\ (n + 1) - 1 = n
  BY <1>1
<1>7. G[n + 1] = IF n + 1 \in J THEN Append(G[n], e) ELSE G[n]
  BY <1>2, <1>3, <1>6
<1> QED BY <1>1, <1>2, <1>3, <1>5, <1>7

\* A sequence grows record by record.
LEMMA OneMore ==
  ASSUME NEW S, NEW s \in Seq(S), NEW m \in 0..(Len(s) - 1)
  PROVE  /\ SubSeq(s, 1, m) \in Seq(S) /\ Len(SubSeq(s, 1, m)) = m /\ s[m + 1] \in S
         /\ \A k \in 1..m : SubSeq(s, 1, m)[k] = s[k]
         /\ SubSeq(s, 1, m + 1) = Append(SubSeq(s, 1, m), s[m + 1])
<1>1. PICK n \in Nat : n = Len(s)
  BY LenProperties
<1>2. m \in 0..n /\ m + 1 \in 1..n /\ (m + 1) - 1 = m /\ 1 \in 1..n /\ m + 1 \in 1..n
  BY <1>1
<1>3. s[m + 1] \in S
  BY <1>1, <1>2, ElementOfSeq
<1>4. /\ SubSeq(s, 1, m) \in Seq(S) /\ Len(SubSeq(s, 1, m)) = m
      /\ \A k \in 1..m : SubSeq(s, 1, m)[k] = s[k]
  <2>1. \A i \in 1..m : s[i] \in S
    BY <1>1, <1>2, ElementOfSeq
  <2>2. m \in Int /\ 1 \in Int /\ (m < 1 => m = 0)
    BY <1>2
  <2> QED BY <2>1, <2>2, SubSeqProperties
<1>5. SubSeq(s, 1, m + 1) = SubSeq(s, 1, m) \o <<s[m + 1]>>
  BY <1>1, <1>2, SubSeqRecursiveSecond
<1>6. SubSeq(s, 1, m) \o <<s[m + 1]>> = Append(SubSeq(s, 1, m), s[m + 1])
  BY <1>3, <1>4, AppendIsConcat
<1> QED BY <1>3, <1>4, <1>5, <1>6

-----------------------------------------------------------------------------
(* Channels *)

Vals    == Nat \cup {Genesis, Birth, None}
Records == [ch : {"ir", "translations"}, lt : Nat, v : Vals] \cup [ch : {"chalk"}, lt : Nat, v : Keys \X Nat]
Of(c)   == {r \in Records : r.ch = c}

LEMMA ChannelEmpty ==
  ASSUME NEW c PROVE OnChannel(<<>>, c) = <<>>
BY PickedEmpty DEF OnChannel

\* A record joins its channel and no other.
LEMMA ChannelAppend ==
  ASSUME NEW S, NEW j \in Seq(S), NEW r \in S, NEW c
  PROVE  OnChannel(Append(j, r), c) = IF r.ch = c THEN Append(OnChannel(j, c), r) ELSE OnChannel(j, c)
<1>1. PICK n \in Nat : n = Len(j) /\ DOMAIN j = 1..n
  BY LenProperties
<1>2. PICK q : q = Append(j, r)
  OBVIOUS
<1>3. q \in Seq(S) /\ Len(q) = n + 1 /\ q[n + 1] = r /\ \A k \in 1..n : q[k] = j[k]
  BY <1>1, <1>2, AppendProperties
<1>4. DOMAIN q = 1..(n + 1)
  BY <1>3, LenProperties
<1>5. PICK I, J : I = {i \in DOMAIN j : j[i].ch = c} /\ J = {i \in DOMAIN q : q[i].ch = c}
  OBVIOUS
<1>6. \A k \in 1..n : k \in I <=> k \in J
  BY <1>1, <1>3, <1>4, <1>5
<1>7. n + 1 \in J <=> r.ch = c
  BY <1>1, <1>3, <1>4, <1>5
<1>8. Picked(q, J) = IF n + 1 \in J THEN Append(Picked(j, I), r) ELSE Picked(j, I)
  BY <1>1, <1>2, <1>6, PickedAppend
<1> QED BY <1>2, <1>5, <1>7, <1>8 DEF OnChannel

\* A channel holds records of its own.
LEMMA ChannelType ==
  ASSUME NEW j \in Seq(Records), NEW c
  PROVE  OnChannel(j, c) \in Seq(Of(c))
<1>1. PICK n \in Nat : n = Len(j)
  BY LenProperties
<1> DEFINE T == {k \in 0..n : OnChannel(SubSeq(j, 1, k), c) \in Seq(Of(c))}
<1>2. 0 \in T
  <2>1. SubSeq(j, 1, 0) = <<>>
    BY SubSeqEmpty
  <2>2. OnChannel(SubSeq(j, 1, 0), c) \in Seq(Of(c))
    BY <2>1, ChannelEmpty, EmptySeq
  <2> QED BY <1>1, <2>2
<1>3. ASSUME NEW m \in 0..(n - 1), m \in T PROVE m + 1 \in T
  <2>1. PICK s, r : s = SubSeq(j, 1, m) /\ r = j[m + 1]
    OBVIOUS
  <2>2. s \in Seq(Records) /\ r \in Records /\ SubSeq(j, 1, m + 1) = Append(s, r)
    BY <1>1, <2>1, OneMore
  <2>3. OnChannel(s, c) \in Seq(Of(c))
    BY <1>3, <2>1
  <2>4. OnChannel(Append(s, r), c) = IF r.ch = c THEN Append(OnChannel(s, c), r) ELSE OnChannel(s, c)
    BY <2>2, ChannelAppend
  <2>5. r.ch = c => r \in Of(c)
    BY <2>2 DEF Of
  <2>6. OnChannel(Append(s, r), c) \in Seq(Of(c))
    BY <2>3, <2>4, <2>5, AppendProperties
  <2>7. m + 1 \in 0..n
    BY <1>3
  <2> QED BY <2>2, <2>6, <2>7
<1> HIDE DEF T
<1>4. n \in T
  <2>1. \A k \in 0..n : k \in T
    BY <1>2, <1>3, Upward
  <2> QED BY <2>1
<1>5. SubSeq(j, 1, n) = j
  BY <1>1, SubSeqFull
<1> QED BY <1>4, <1>5 DEF T

\* The first records of a sequence are not touched by an append.
LEMMA CutAppend ==
  ASSUME NEW S, NEW s \in Seq(S), NEW r \in S, NEW m \in 0..Len(s)
  PROVE  SubSeq(Append(s, r), 1, m) = SubSeq(s, 1, m)
<1>1. PICK n \in Nat : n = Len(s)
  BY LenProperties
<1>2. PICK q \in Seq(S) : q = Append(s, r) /\ \A k \in 1..n : q[k] = s[k]
  <2>1. Append(s, r) \in Seq(S) /\ \A k \in 1..n : Append(s, r)[k] = s[k]
    BY <1>1, AppendProperties
  <2> QED BY <2>1
<1>3. \A k \in 1..m : q[k] = s[k] /\ s[k] \in S /\ q[k] \in S
  <2> TAKE k \in 1..m
  <2>1. k \in 1..n
    BY <1>1
  <2> QED BY <1>1, <1>2, <2>1, ElementOfSeq
<1>4. m \in Int /\ 1 \in Int /\ m - 1 + 1 = m
  BY <1>1
<1>5. PICK x, y : x = SubSeq(q, 1, m) /\ y = SubSeq(s, 1, m)
  OBVIOUS
<1>6. x \in Seq(S) /\ Len(x) = (IF 1 <= m THEN m - 1 + 1 ELSE 0) /\ \A i \in 1..(m - 1 + 1) : x[i] = q[1 + i - 1]
  BY <1>3, <1>4, <1>5, SubSeqProperties
<1>7. y \in Seq(S) /\ Len(y) = (IF 1 <= m THEN m - 1 + 1 ELSE 0) /\ \A i \in 1..(m - 1 + 1) : y[i] = s[1 + i - 1]
  BY <1>3, <1>4, <1>5, SubSeqProperties
<1>8. Len(x) = m /\ Len(y) = m /\ \A i \in 1..m : x[i] = q[i] /\ y[i] = s[i]
  BY <1>1, <1>6, <1>7
<1>9. x = y
  BY <1>3, <1>6, <1>7, <1>8, SeqEqual
<1> QED BY <1>2, <1>5, <1>9

LEMMA PrefixGrows ==
  ASSUME NEW S, NEW s, NEW t \in Seq(S), NEW e \in S, IsPrefix(s, t), Len(s) \in Nat
  PROVE  IsPrefix(s, Append(t, e))
<1>1. Len(s) <= Len(t) /\ SubSeq(s, 1, Len(s)) = SubSeq(t, 1, Len(s)) /\ Len(t) \in Nat
  BY LenProperties DEF IsPrefix
<1>2. SubSeq(Append(t, e), 1, Len(s)) = SubSeq(t, 1, Len(s))
  <2>1. Len(s) \in 0..Len(t)
    BY <1>1
  <2> QED BY <2>1, CutAppend
<1>3. Len(Append(t, e)) = Len(t) + 1
  BY AppendProperties
<1> QED BY <1>1, <1>2, <1>3 DEF IsPrefix

LEMMA PrefixSelf ==
  ASSUME NEW s, Len(s) \in Nat PROVE IsPrefix(s, s)
BY DEF IsPrefix

\* What is left of a journal leaves a prefix of each channel.
LEMMA ChannelPrefix ==
  ASSUME NEW j \in Seq(Records), NEW c, NEW k \in 0..Len(j)
  PROVE  IsPrefix(OnChannel(SubSeq(j, 1, k), c), OnChannel(j, c))
<1>1. PICK n \in Nat : n = Len(j)
  BY LenProperties
<1>2. PICK p : p = OnChannel(SubSeq(j, 1, k), c)
  OBVIOUS
<1>3. \A m \in 0..n : SubSeq(j, 1, m) \in Seq(Records)
  <2> TAKE m \in 0..n
  <2>1. \A i \in 1..m : j[i] \in Records
    BY <1>1, ElementOfSeq
  <2>2. m \in Int /\ 1 \in Int
    OBVIOUS
  <2> QED BY <2>1, <2>2, SubSeqProperties
<1>4. \A m \in 0..n : OnChannel(SubSeq(j, 1, m), c) \in Seq(Of(c))
  BY <1>3, ChannelType
<1>5. p \in Seq(Of(c))
  BY <1>1, <1>2, <1>4
<1> DEFINE T == {m \in 0..n : m >= k => IsPrefix(p, OnChannel(SubSeq(j, 1, m), c))}
<1>6. 0 \in T
  <2>1. 0 >= k => k = 0
    BY <1>1
  <2>2. IsPrefix(p, p)
    <3>1. Len(p) \in Nat
      BY <1>5, LenProperties
    <3> QED BY <3>1, PrefixSelf
  <2> QED BY <1>1, <1>2, <2>1, <2>2
<1>7. ASSUME NEW m \in 0..(n - 1), m \in T PROVE m + 1 \in T
  <2>1. PICK s, r : s = SubSeq(j, 1, m) /\ r = j[m + 1]
    OBVIOUS
  <2>2. s \in Seq(Records) /\ r \in Records /\ SubSeq(j, 1, m + 1) = Append(s, r)
    BY <1>1, <2>1, OneMore
  <2>3. OnChannel(Append(s, r), c) = IF r.ch = c THEN Append(OnChannel(s, c), r) ELSE OnChannel(s, c)
    BY <2>2, ChannelAppend
  <2>4. r.ch = c => r \in Of(c)
    BY <2>2 DEF Of
  <2>5. OnChannel(s, c) \in Seq(Of(c))
    BY <2>2, ChannelType
  <2>6. ASSUME m + 1 >= k PROVE IsPrefix(p, OnChannel(Append(s, r), c))
    <3>1. CASE m + 1 = k
      <4>1. p = OnChannel(Append(s, r), c)
        BY <1>2, <2>2, <3>1
      <4>2. Len(p) \in Nat
        BY <1>5, LenProperties
      <4> QED BY <4>1, <4>2, PrefixSelf
    <3>2. CASE m + 1 # k
      <4>1. m >= k
        BY <1>1, <2>6, <3>2
      <4>2. IsPrefix(p, OnChannel(s, c))
        BY <1>7, <2>1, <4>1
      <4>3. Len(p) \in Nat
        BY <1>5, LenProperties
      <4> QED BY <2>3, <2>4, <2>5, <4>2, <4>3, PrefixGrows
    <3> QED BY <3>1, <3>2
  <2>7. m + 1 \in 0..n
    BY <1>7
  <2> QED BY <2>2, <2>6, <2>7
<1> HIDE DEF T
<1>8. n \in T
  <2>1. \A m \in 0..n : m \in T
    BY <1>6, <1>7, Upward
  <2> QED BY <2>1
<1>9. SubSeq(j, 1, n) = j /\ n >= k
  BY <1>1, SubSeqFull
<1> QED BY <1>2, <1>8, <1>9 DEF T

\* Clearing the translations leaves the other channels as they are.
Cleared(j) == Picked(j, {i \in DOMAIN j : j[i].ch # "translations"})

LEMMA ClearedChannels ==
  ASSUME NEW j \in Seq(Records)
  PROVE  /\ Cleared(j) \in Seq(Records)
         /\ \A c : OnChannel(Cleared(j), c) = IF c = "translations" THEN <<>> ELSE OnChannel(j, c)
<1>1. PICK n \in Nat : n = Len(j)
  BY LenProperties
<1> DEFINE Good(s) == /\ Cleared(s) \in Seq(Records)
                      /\ \A c : OnChannel(Cleared(s), c) = IF c = "translations" THEN <<>> ELSE OnChannel(s, c)
           T == {k \in 0..n : Good(SubSeq(j, 1, k))}
<1>2. 0 \in T
  <2>1. PICK e : e = SubSeq(j, 1, 0) /\ e = <<>>
    <3>1. SubSeq(j, 1, 0) = <<>>
      BY SubSeqEmpty
    <3> QED BY <3>1
  <2>2. Cleared(e) = e
    BY <2>1, PickedEmpty DEF Cleared
  <2>3. Good(e)
    BY <2>1, <2>2, ChannelEmpty, EmptySeq
  <2> HIDE DEF Good
  <2> QED BY <1>1, <2>1, <2>3
<1>3. ASSUME NEW m \in 0..(n - 1), m \in T PROVE m + 1 \in T
  <2>1. PICK s, r : s = SubSeq(j, 1, m) /\ r = j[m + 1]
    OBVIOUS
  <2>2. s \in Seq(Records) /\ r \in Records /\ SubSeq(j, 1, m + 1) = Append(s, r)
    BY <1>1, <2>1, OneMore
  <2>3. Good(s)
    BY <1>3, <2>1
  <2>4. PICK q \in Seq(Records) : q = Append(s, r) /\ Len(q) = Len(s) + 1 /\ q[Len(s) + 1] = r
                                  /\ \A k \in 1..Len(s) : q[k] = s[k]
    <3>1. /\ Append(s, r) \in Seq(Records) /\ Len(Append(s, r)) = Len(s) + 1 /\ Append(s, r)[Len(s) + 1] = r
          /\ \A k \in 1..Len(s) : Append(s, r)[k] = s[k]
      BY <2>2, AppendProperties
    <3> QED BY <3>1
  <2>5. Cleared(q) = IF r.ch # "translations" THEN Append(Cleared(s), r) ELSE Cleared(s)
    <3>1. DOMAIN s = 1..Len(s) /\ DOMAIN q = 1..(Len(s) + 1) /\ Len(s) \in Nat
      BY <2>2, <2>4, LenProperties
    <3>2. PICK I, J : I = {i \in DOMAIN s : s[i].ch # "translations"} /\ J = {i \in DOMAIN q : q[i].ch # "translations"}
      OBVIOUS
    <3>3. \A k \in 1..Len(s) : k \in I <=> k \in J
      BY <2>4, <3>1, <3>2
    <3>4. Len(s) + 1 \in J <=> r.ch # "translations"
      BY <2>4, <3>1, <3>2
    <3>5. Picked(q, J) = IF Len(s) + 1 \in J THEN Append(Picked(s, I), r) ELSE Picked(s, I)
      BY <2>2, <2>4, <3>3, PickedAppend
    <3> QED BY <3>2, <3>4, <3>5 DEF Cleared
  <2>6. Cleared(q) \in Seq(Records)
    BY <2>2, <2>3, <2>5, AppendProperties
  <2>7. ASSUME NEW c PROVE OnChannel(Cleared(q), c) = IF c = "translations" THEN <<>> ELSE OnChannel(q, c)
    <3>1. OnChannel(q, c) = IF r.ch = c THEN Append(OnChannel(s, c), r) ELSE OnChannel(s, c)
      BY <2>2, <2>4, ChannelAppend
    <3>2. OnChannel(Append(Cleared(s), r), c) = IF r.ch = c THEN Append(OnChannel(Cleared(s), c), r) ELSE OnChannel(Cleared(s), c)
      BY <2>2, <2>3, ChannelAppend
    <3>3. OnChannel(Cleared(s), c) = IF c = "translations" THEN <<>> ELSE OnChannel(s, c)
      BY <2>3
    <3> QED BY <2>5, <3>1, <3>2, <3>3
  <2>8. Good(q) /\ m + 1 \in 0..n
    BY <1>3, <2>6, <2>7
  <2> HIDE DEF Good
  <2> QED BY <2>2, <2>4, <2>8
<1> HIDE DEF T
<1>4. n \in T
  <2>1. \A k \in 0..n : k \in T
    BY <1>2, <1>3, Upward
  <2> QED BY <2>1
<1>5. SubSeq(j, 1, n) = j
  BY <1>1, SubSeqFull
<1> QED BY <1>4, <1>5 DEF T

-----------------------------------------------------------------------------
(* The messages of a fork *)

Lower(a, b) == IF a <= b THEN a ELSE b

\* A fork at a message has the messages up to it and no more.
LEMMA ForkMessages ==
  ASSUME NEW j \in Seq(Records), NEW at \in 0..Len(OnChannel(j, "ir"))
  PROVE  UpTo(j, at) \in Seq(Records) /\ OnChannel(UpTo(j, at), "ir") = SubSeq(OnChannel(j, "ir"), 1, at)
<1>1. PICK n \in Nat : n = Len(j) /\ DOMAIN j = 1..n
  BY LenProperties
<1>2. at \in Nat /\ Len(OnChannel(j, "ir")) \in Nat
  BY ChannelType, LenProperties
<1>3. PICK I : I = {i \in DOMAIN j : LTOf(j, i) <= at}
  OBVIOUS
<1> DEFINE M(s) == OnChannel(s, "ir")
           Good(s) == /\ Picked(s, I) \in Seq(Records)
                      /\ M(Picked(s, I)) = SubSeq(M(s), 1, Lower(at, Len(M(s))))
           T == {k \in 0..n : Good(SubSeq(j, 1, k))}
<1>4. 0 \in T
  <2>1. PICK e : e = SubSeq(j, 1, 0) /\ e = <<>>
    <3>1. SubSeq(j, 1, 0) = <<>>
      BY SubSeqEmpty
    <3> QED BY <3>1
  <2>2. Picked(e, I) = e /\ M(e) = e
    BY <2>1, PickedEmpty, ChannelEmpty
  <2>3. e \in Seq(Records) /\ Lower(at, Len(e)) = 0
    BY <1>2, <2>1, EmptySeq DEF Lower
  <2>4. SubSeq(e, 1, 0) = e
    BY <2>1, SubSeqEmpty
  <2>5. Good(e)
    BY <2>2, <2>3, <2>4
  <2> HIDE DEF Good
  <2> QED BY <1>1, <2>1, <2>5
<1>5. ASSUME NEW m \in 0..(n - 1), m \in T PROVE m + 1 \in T
  <2>1. PICK s, r : s = SubSeq(j, 1, m) /\ r = j[m + 1]
    OBVIOUS
  <2>2. s \in Seq(Records) /\ r \in Records /\ SubSeq(j, 1, m + 1) = Append(s, r) /\ Len(s) = m
    BY <1>1, <2>1, OneMore
  <2>3. Good(s)
    BY <1>5, <2>1
  <2>4. PICK q : q = Append(s, r)
    OBVIOUS
  <2>5. m + 1 \in DOMAIN j /\ m + 1 \in 0..n /\ m \in Nat
    BY <1>1, <1>5
  <2>6. PICK o, N : o = M(s) /\ N = Len(o)
    OBVIOUS
  <2>7. o \in Seq(Records) /\ N \in Nat
    <3>1. o \in Seq(Of("ir")) /\ Of("ir") \subseteq Records
      BY <2>2, <2>6, ChannelType DEF Of
    <3>2. o \in Seq(Records)
      BY <3>1, SeqMonotonic
    <3> QED BY <2>6, <3>2, LenProperties
  <2>8. M(q) = IF r.ch = "ir" THEN Append(o, r) ELSE o
    BY <2>2, <2>4, <2>6, ChannelAppend
  <2>9. PICK p \in Seq(Records) : p = Picked(s, I) /\ M(p) = SubSeq(o, 1, Lower(at, N))
    BY <2>3, <2>6
  <2>10. Picked(q, I) = IF m + 1 \in I THEN Append(p, r) ELSE p
    BY <2>2, <2>4, <2>9, PickedAppend
  <2>11. M(Append(p, r)) = IF r.ch = "ir" THEN Append(M(p), r) ELSE M(p)
    BY <2>2, ChannelAppend
  <2>12. Append(p, r) \in Seq(Records) /\ Append(o, r) \in Seq(Records) /\ Len(Append(o, r)) = N + 1
    BY <2>2, <2>6, <2>7, AppendProperties
  <2>13. CASE r.ch # "ir"
    <3>1. M(q) = o /\ M(Picked(q, I)) = SubSeq(o, 1, Lower(at, N)) /\ Picked(q, I) \in Seq(Records)
      BY <2>8, <2>9, <2>10, <2>11, <2>12, <2>13
    <3>2. Good(q)
      BY <2>6, <3>1
    <3> HIDE DEF Good
    <3> QED BY <2>2, <2>4, <2>5, <3>2
  <2>14. CASE r.ch = "ir"
    <3>1. LTOf(j, m + 1) = N + 1
      <4>1. LTOf(j, m + 1) = Len(M(q))
        BY <2>1, <2>2, <2>4, <2>14 DEF LTOf
      <4> QED BY <2>8, <2>12, <2>14, <4>1
    <3>2. m + 1 \in I <=> N + 1 <= at
      BY <1>3, <2>5, <3>1
    <3>3. CASE N + 1 <= at
      <4>1. Lower(at, N) = N /\ Lower(at, N + 1) = N + 1
        BY <1>2, <2>7, <3>3 DEF Lower
      <4>2. SubSeq(o, 1, N) = o /\ SubSeq(Append(o, r), 1, N + 1) = Append(o, r)
        BY <2>6, <2>7, <2>12, SubSeqFull
      <4>3. M(Picked(q, I)) = Append(o, r) /\ Picked(q, I) \in Seq(Records)
        BY <2>9, <2>10, <2>11, <2>12, <2>14, <3>2, <3>3, <4>1, <4>2
      <4>4. M(q) = Append(o, r) /\ Len(M(q)) = N + 1
        BY <2>8, <2>12, <2>14
      <4>5. Good(q)
        BY <4>1, <4>2, <4>3, <4>4
      <4> HIDE DEF Good
      <4> QED BY <2>2, <2>4, <2>5, <4>5
    <3>4. CASE ~(N + 1 <= at)
      <4>1. Lower(at, N) = at /\ Lower(at, N + 1) = at /\ at \in 0..N
        BY <1>2, <2>7, <3>4 DEF Lower
      <4>2. SubSeq(Append(o, r), 1, at) = SubSeq(o, 1, at)
        BY <2>2, <2>6, <2>7, <4>1, CutAppend
      <4>3. M(Picked(q, I)) = SubSeq(o, 1, at) /\ Picked(q, I) \in Seq(Records)
        BY <2>9, <2>10, <3>2, <3>4, <4>1
      <4>4. M(q) = Append(o, r) /\ Len(M(q)) = N + 1
        BY <2>8, <2>12, <2>14
      <4>5. Good(q)
        BY <4>1, <4>2, <4>3, <4>4
      <4> HIDE DEF Good
      <4> QED BY <2>2, <2>4, <2>5, <4>5
    <3> QED BY <3>3, <3>4
  <2> QED BY <2>13, <2>14
<1> HIDE DEF T
<1>6. n \in T
  <2>1. \A k \in 0..n : k \in T
    BY <1>4, <1>5, Upward
  <2> QED BY <2>1
<1>7. Good(j)
  <2>1. SubSeq(j, 1, n) = j
    BY <1>1, SubSeqFull
  <2>2. Good(SubSeq(j, 1, n))
    BY <1>6 DEF T
  <2> HIDE DEF Good
  <2> QED BY <2>1, <2>2
<1>8. Lower(at, Len(M(j))) = at
  BY <1>2 DEF Lower
<1> QED BY <1>3, <1>7, <1>8 DEF UpTo

-----------------------------------------------------------------------------
(* What is read of a channel *)

LEMMA ValuesType ==
  ASSUME NEW s \in Seq(Of("ir"))
  PROVE  Values(s) \in Seq(Vals) /\ Len(Values(s)) = Len(s)
<1>1. PICK n \in Nat : n = Len(s) /\ DOMAIN s = 1..n
  BY LenProperties
<1>2. \A i \in 1..n : s[i].v \in Vals
  <2>1. \A i \in 1..n : s[i] \in Of("ir")
    BY <1>1, ElementOfSeq
  <2>2. \A r \in Of("ir") : r.v \in Vals
    BY DEF Of, Records
  <2> QED BY <2>1, <2>2
<1>3. PICK f : f = Values(s)
  OBVIOUS
<1>4. f \in [1..n -> Vals] /\ DOMAIN f = 1..n
  BY <1>1, <1>2, <1>3 DEF Values
<1> QED BY <1>1, <1>3, <1>4

LEMMA ValuesAppend ==
  ASSUME NEW S, NEW s \in Seq(S), NEW r \in S
  PROVE  Values(Append(s, r)) = Append(Values(s), r.v)
<1>1. PICK n \in Nat : n = Len(s) /\ DOMAIN s = 1..n
  BY LenProperties
<1>2. PICK q : q = Append(s, r)
  OBVIOUS
<1>3. q \in Seq(S) /\ Len(q) = n + 1 /\ q[n + 1] = r /\ \A k \in 1..n : q[k] = s[k]
  BY <1>1, <1>2, AppendProperties
<1>4. DOMAIN q = 1..(n + 1)
  BY <1>3, LenProperties
<1>5. PICK V : V = {s[i].v : i \in 1..n} \cup {r.v}
  OBVIOUS
<1>6. PICK f : f = Values(s)
  OBVIOUS
<1>7. f = [i \in 1..n |-> s[i].v]
  BY <1>1, <1>6 DEF Values
<1>8. f \in Seq(V) /\ Len(f) = n
  <2>1. f \in [1..n -> V]
    BY <1>5, <1>7
  <2> QED BY <2>1
<1>9. PICK g : g = Append(f, r.v)
  OBVIOUS
<1>10. g \in Seq(V) /\ Len(g) = n + 1 /\ g[n + 1] = r.v /\ \A k \in 1..n : g[k] = f[k]
  <2>1. r.v \in V
    BY <1>5
  <2> QED BY <1>8, <1>9, <2>1, AppendProperties
<1>11. DOMAIN g = 1..(n + 1) /\ g = [i \in 1..(n + 1) |-> g[i]]
  BY <1>10, LenProperties
<1>12. \A i \in 1..(n + 1) : g[i] = q[i].v
  <2> TAKE i \in 1..(n + 1)
  <2>1. CASE i = n + 1
    BY <1>3, <1>10, <2>1
  <2>2. CASE i # n + 1
    <3>1. i \in 1..n
      BY <2>2
    <3> QED BY <1>3, <1>7, <1>10, <3>1
  <2> QED BY <2>1, <2>2
<1>13. Values(q) = [i \in 1..(n + 1) |-> q[i].v]
  BY <1>4 DEF Values
<1>14. Values(q) = g
  BY <1>11, <1>12, <1>13
<1> QED BY <1>2, <1>6, <1>9, <1>14

\* The values of a beginning.
LEMMA ValuesCut ==
  ASSUME NEW s \in Seq(Of("ir")), NEW m \in 0..Len(s)
  PROVE  Values(SubSeq(s, 1, m)) = SubSeq(Values(s), 1, m)
<1>1. PICK n \in Nat : n = Len(s) /\ DOMAIN s = 1..n
  BY LenProperties
<1>2. m \in Int /\ 1 \in Int /\ m - 1 + 1 = m /\ m <= n
  BY <1>1
<1>3. PICK f \in Seq(Vals) : f = Values(s) /\ Len(f) = n
  BY <1>1, ValuesType
<1>4. \A i \in 1..n : f[i] = s[i].v
  BY <1>1, <1>3 DEF Values
<1>5. PICK x, y : x = SubSeq(s, 1, m) /\ y = SubSeq(f, 1, m)
  OBVIOUS
<1>6. \A i \in 1..m : i \in 1..n /\ s[i] \in Of("ir") /\ f[i] \in Vals
  <2>1. \A i \in 1..m : i \in 1..n
    BY <1>1
  <2> QED BY <1>1, <1>3, <2>1, ElementOfSeq
<1>7. x \in Seq(Of("ir")) /\ Len(x) = (IF 1 <= m THEN m - 1 + 1 ELSE 0) /\ \A i \in 1..(m - 1 + 1) : x[i] = s[1 + i - 1]
  BY <1>2, <1>5, <1>6, SubSeqProperties
<1>8. y \in Seq(Vals) /\ Len(y) = (IF 1 <= m THEN m - 1 + 1 ELSE 0) /\ \A i \in 1..(m - 1 + 1) : y[i] = f[1 + i - 1]
  BY <1>2, <1>5, <1>6, SubSeqProperties
<1>9. Len(x) = m /\ Len(y) = m /\ \A i \in 1..m : x[i] = s[i] /\ y[i] = f[i]
  BY <1>1, <1>7, <1>8
<1>10. PICK z : z = Values(x)
  OBVIOUS
<1>11. z \in Seq(Vals) /\ Len(z) = m /\ \A i \in 1..m : z[i] = x[i].v
  <2>1. DOMAIN x = 1..m
    BY <1>7, <1>9, LenProperties
  <2> QED BY <1>7, <1>9, <1>10, <2>1, ValuesType DEF Values
<1>12. \A i \in 1..m : z[i] = y[i]
  BY <1>4, <1>6, <1>9, <1>11
<1>13. z = y
  BY <1>8, <1>9, <1>11, <1>12, SeqEqual
<1> QED BY <1>3, <1>5, <1>10, <1>13

LEMMA ValuesPrefix ==
  ASSUME NEW s \in Seq(Of("ir")), NEW t \in Seq(Of("ir")), IsPrefix(s, t)
  PROVE  IsPrefix(Values(s), Values(t))
<1>1. Len(s) \in Nat /\ Len(t) \in Nat /\ Len(s) <= Len(t) /\ SubSeq(s, 1, Len(s)) = SubSeq(t, 1, Len(s))
  BY LenProperties DEF IsPrefix
<1>5. PICK n : n = Len(s) /\ n \in 0..Len(s) /\ n \in 0..Len(t)
  BY <1>1
<1>2. Values(SubSeq(s, 1, n)) = SubSeq(Values(s), 1, n)
  BY <1>5, ValuesCut
<1>3. Values(SubSeq(t, 1, n)) = SubSeq(Values(t), 1, n)
  BY <1>5, ValuesCut
<1>4. Len(Values(s)) = Len(s) /\ Len(Values(t)) = Len(t)
  BY ValuesType
<1> QED BY <1>1, <1>2, <1>3, <1>4, <1>5 DEF IsPrefix

\* The main LTs of a channel of translations.
Lts(s) == [i \in DOMAIN s |-> s[i].lt]

LEMMA LtsAppend ==
  ASSUME NEW S, NEW s \in Seq(S), NEW r \in S
  PROVE  Lts(Append(s, r)) = Append(Lts(s), r.lt)
<1>1. PICK n \in Nat : n = Len(s) /\ DOMAIN s = 1..n
  BY LenProperties
<1>2. PICK q : q = Append(s, r)
  OBVIOUS
<1>3. q \in Seq(S) /\ Len(q) = n + 1 /\ q[n + 1] = r /\ \A k \in 1..n : q[k] = s[k]
  BY <1>1, <1>2, AppendProperties
<1>4. DOMAIN q = 1..(n + 1)
  BY <1>3, LenProperties
<1>5. PICK V : V = {s[i].lt : i \in 1..n} \cup {r.lt}
  OBVIOUS
<1>6. PICK f : f = Lts(s)
  OBVIOUS
<1>7. f = [i \in 1..n |-> s[i].lt]
  BY <1>1, <1>6 DEF Lts
<1>8. f \in Seq(V) /\ Len(f) = n
  <2>1. f \in [1..n -> V]
    BY <1>5, <1>7
  <2> QED BY <2>1
<1>9. PICK g : g = Append(f, r.lt)
  OBVIOUS
<1>10. g \in Seq(V) /\ Len(g) = n + 1 /\ g[n + 1] = r.lt /\ \A k \in 1..n : g[k] = f[k]
  <2>1. r.lt \in V
    BY <1>5
  <2> QED BY <1>8, <1>9, <2>1, AppendProperties
<1>11. DOMAIN g = 1..(n + 1) /\ g = [i \in 1..(n + 1) |-> g[i]]
  BY <1>10, LenProperties
<1>12. \A i \in 1..(n + 1) : g[i] = q[i].lt
  <2> TAKE i \in 1..(n + 1)
  <2>1. CASE i = n + 1
    BY <1>3, <1>10, <2>1
  <2>2. CASE i # n + 1
    <3>1. i \in 1..n
      BY <2>2
    <3> QED BY <1>3, <1>7, <1>10, <3>1
  <2> QED BY <2>1, <2>2
<1>13. Lts(q) = [i \in 1..(n + 1) |-> q[i].lt]
  BY <1>4 DEF Lts
<1>14. Lts(q) = g
  BY <1>11, <1>12, <1>13
<1> QED BY <1>2, <1>6, <1>9, <1>14

LEMMA LtsType ==
  ASSUME NEW s \in Seq(Records) PROVE Lts(s) \in Seq(Nat)
<1>1. PICK n \in Nat : n = Len(s) /\ DOMAIN s = 1..n
  BY LenProperties
<1>2. \A i \in 1..n : s[i].lt \in Nat
  <2>1. \A i \in 1..n : s[i] \in Records
    BY <1>1, ElementOfSeq
  <2>2. \A r \in Records : r.lt \in Nat
    BY DEF Records
  <2> QED BY <2>1, <2>2
<1>3. PICK f : f = Lts(s)
  OBVIOUS
<1>4. f \in [1..n -> Nat]
  BY <1>1, <1>2, <1>3 DEF Lts
<1> QED BY <1>3, <1>4

-----------------------------------------------------------------------------
(* Chalkboards *)

Boards == [Keys -> Nat \cup {None}]

LEMMA MaxOf ==
  ASSUME NEW n \in Nat, NEW A, A \subseteq 1..n, A # {}
  PROVE  Max(A) \in A /\ \A y \in A : Max(A) >= y
<1>1. A \subseteq 0..n
  OBVIOUS
<1>2. PICK k \in A : \A j \in (k + 1)..n : j \notin A
  BY <1>1, GreatestOf
<1>3. \A y \in A : k >= y
  <2> TAKE y \in A
  <2>1. y \in 1..n /\ k \in 1..n /\ y \notin (k + 1)..n
    BY <1>2
  <2> QED BY <2>1
<1>4. \E x \in A : \A y \in A : x >= y
  BY <1>3
<1> QED BY <1>4 DEF Max

LEMMA ReplayType ==
  ASSUME NEW ps \in Seq(Of("chalk")) PROVE Replay(ps) \in Boards
<1>1. PICK n \in Nat : n = Len(ps) /\ DOMAIN ps = 1..n
  BY LenProperties
<1>2. ASSUME NEW k \in Keys, NEW A, A = {i \in DOMAIN ps : ps[i].v[1] = k}, A # {}
      PROVE  ps[Max(A)].v[2] \in Nat
  <2>1. A \subseteq 1..n
    BY <1>1, <1>2
  <2>2. Max(A) \in 1..n
    BY <1>2, <2>1, MaxOf
  <2>3. ps[Max(A)] \in Of("chalk")
    BY <1>1, <2>2, ElementOfSeq
  <2>4. \A r \in Of("chalk") : r.v \in Keys \X Nat
    BY DEF Of, Records
  <2> QED BY <2>3, <2>4
<1>3. \A k \in Keys : (LET at == {i \in DOMAIN ps : ps[i].v[1] = k} IN IF at = {} THEN None ELSE ps[Max(at)].v[2]) \in Nat \cup {None}
  BY <1>2
<1> QED BY <1>3 DEF Replay, Boards

\* One more patch sets its key.
LEMMA ReplayAppend ==
  ASSUME NEW ps \in Seq(Of("chalk")), NEW p \in Of("chalk"), NEW k \in Keys, NEW v, p.v = <<k, v>>
  PROVE  Replay(Append(ps, p)) = [Replay(ps) EXCEPT ![k] = v]
<1>1. PICK n \in Nat : n = Len(ps) /\ DOMAIN ps = 1..n
  BY LenProperties
<1>2. PICK q : q = Append(ps, p)
  OBVIOUS
<1>3. q \in Seq(Of("chalk")) /\ Len(q) = n + 1 /\ q[n + 1] = p /\ \A i \in 1..n : q[i] = ps[i]
  BY <1>1, <1>2, AppendProperties
<1>4. DOMAIN q = 1..(n + 1)
  BY <1>3, LenProperties
<1>5. ASSUME NEW x \in Keys PROVE Replay(q)[x] = IF x = k THEN v ELSE Replay(ps)[x]
  <2>1. PICK A, B : A = {i \in DOMAIN ps : ps[i].v[1] = x} /\ B = {i \in DOMAIN q : q[i].v[1] = x}
    OBVIOUS
  <2>2. Replay(q)[x] = IF B = {} THEN None ELSE q[Max(B)].v[2]
    BY <2>1 DEF Replay
  <2>3. Replay(ps)[x] = IF A = {} THEN None ELSE ps[Max(A)].v[2]
    BY <2>1 DEF Replay
  <2>4. A \subseteq 1..n /\ B \subseteq 1..(n + 1)
    BY <1>1, <1>4, <2>1
  <2>5. CASE x = k
    <3>1. n + 1 \in B
      BY <1>3, <1>4, <2>1, <2>5
    <3>2. Max(B) \in B /\ Max(B) >= n + 1
      BY <2>4, <3>1, MaxOf
    <3>3. Max(B) = n + 1
      BY <2>4, <3>2
    <3> QED BY <1>3, <2>2, <2>5, <3>1, <3>3
  <2>6. CASE x # k
    <3>1. A = B
      <4>1. n + 1 \notin B
        BY <1>3, <2>1, <2>6
      <4>2. \A i \in 1..n : i \in A <=> i \in B
        BY <1>1, <1>3, <1>4, <2>1
      <4>3. \A i \in B : i \in 1..n
        BY <2>4, <4>1
      <4> QED BY <2>4, <4>2, <4>3
    <3>2. A # {} => Max(A) \in 1..n
      BY <2>4, MaxOf
    <3>3. A # {} => q[Max(A)] = ps[Max(A)]
      BY <1>3, <3>2
    <3> QED BY <2>2, <2>3, <2>6, <3>1, <3>3
  <2> QED BY <2>5, <2>6
<1>6. PICK f, g : f = Replay(q) /\ g = Replay(ps)
  OBVIOUS
<1>7. f = [x \in Keys |-> f[x]] /\ g = [x \in Keys |-> g[x]]
  BY <1>6 DEF Replay
<1>8. \A x \in Keys : f[x] = [g EXCEPT ![k] = v][x]
  BY <1>5, <1>6, <1>7
<1>9. f = [g EXCEPT ![k] = v]
  BY <1>7, <1>8
<1> QED BY <1>2, <1>6, <1>9

-----------------------------------------------------------------------------
(* The inductive invariant *)

MessagesOf(j)     == Values(OnChannel(j, "ir"))
PatchesOf(j)      == OnChannel(j, "chalk")
TranslationsOf(j) == Lts(OnChannel(j, "translations"))

Handles == [open : BOOLEAN, rows : Seq(Vals), trans : Seq(Nat) \cup {None}]
Chalks  == [ready : BOOLEAN, state : Boards, patches : Seq(Of("chalk"))]
Forks   == [pc : {"idle", "meta", "stamp", "stamping"}, of : Arias \cup {None}, alt : Arias \cup {None}, at : Nat]

\* No agent is restored between a kill and the removal it leads to.
NoLate == "late" \notin Kinds

\* The types, of an agent that has its handle.
Types ==
  /\ journal \in [Arias -> Seq(Records)] /\ stored \subseteq minted /\ minted \subseteq Arias
  /\ handle \in [Arias -> Handles] /\ chalk \in [Arias -> Chalks]
  /\ chalkBy \in [Arias -> {None, "agent", "fork"}] /\ guess \in [Arias -> Nat]
  /\ agent \in [Arias -> {"none", "up"}] /\ board \in [Arias -> Boards]
  /\ fork \in Forks /\ (fork.pc # "idle" => fork.alt \in minted)

\* The caches of an id that was never given.
Clean(a) == handle[a] = NoHandle /\ chalk[a] = NotReady /\ agent[a] = "none" /\ guess[a] = 0 /\ chalkBy[a] = None

\* The caches of an aria that is stored.
CachesOK(a) ==
  /\ handle[a].open => handle[a].rows = MessagesOf(journal[a])
  /\ agent[a] = "up" => handle[a].open
  /\ handle[a].trans # None => handle[a].trans = TranslationsOf(journal[a])
  /\ chalk[a].ready => /\ chalk[a].state = Replay(PatchesOf(journal[a]))
                       /\ a \notin raced => chalk[a].patches = PatchesOf(journal[a])
  /\ agent[a] = "up" /\ a \notin raced \cup failed => board[a] = Replay(PatchesOf(journal[a]))

\* A patch that was keyed is keyed to the next message, as long as nothing was
\* appended since; an agent restored before its aria was stamped is noted.
AriaOK(a) ==
  /\ a \notin minted => Clean(a)
  /\ a \in stored => CachesOK(a)
  /\ guess[a] > 0 => /\ chalkBy[a] # None
                     /\ a \in stored \ raced => guess[a] = Len(MessagesOf(journal[a])) + 1
  /\ fork.alt = a /\ agent[a] = "up" => a \in raced

StoreInv == Types /\ \A a \in Arias : AriaOK(a)

-----------------------------------------------------------------------------
(* Appends *)

LEMMA JoinIsAppend ==
  ASSUME NEW j \in Seq(Records), NEW r \in Records
  PROVE  j \o <<r>> = Append(j, r) /\ Append(j, r) \in Seq(Records)
BY AppendIsConcat, AppendProperties

LEMMA ReadsType ==
  ASSUME NEW j \in Seq(Records)
  PROVE  /\ MessagesOf(j) \in Seq(Vals) /\ Len(MessagesOf(j)) \in Nat
         /\ PatchesOf(j) \in Seq(Of("chalk")) /\ Len(PatchesOf(j)) \in Nat
         /\ TranslationsOf(j) \in Seq(Nat)
<1>1. OnChannel(j, "ir") \in Seq(Of("ir")) /\ OnChannel(j, "chalk") \in Seq(Of("chalk"))
  BY ChannelType
<1>2. MessagesOf(j) \in Seq(Vals)
  BY <1>1, ValuesType DEF MessagesOf
<1>3. OnChannel(j, "translations") \in Seq(Records)
  <2>1. OnChannel(j, "translations") \in Seq(Of("translations")) /\ Of("translations") \subseteq Records
    BY ChannelType DEF Of
  <2> QED BY <2>1, SeqMonotonic
<1> QED BY <1>1, <1>2, <1>3, LtsType, LenProperties DEF PatchesOf, TranslationsOf

LEMMA AppendsMessage ==
  ASSUME NEW j \in Seq(Records), NEW v \in Vals
  PROVE  /\ j \o <<IRRecord(v)>> \in Seq(Records)
         /\ MessagesOf(j \o <<IRRecord(v)>>) = Append(MessagesOf(j), v)
         /\ PatchesOf(j \o <<IRRecord(v)>>) = PatchesOf(j)
         /\ TranslationsOf(j \o <<IRRecord(v)>>) = TranslationsOf(j)
<1>1. PICK r : r = IRRecord(v)
  OBVIOUS
<1>2. r \in Of("ir") /\ r \in Records /\ r.ch = "ir" /\ r.v = v
  BY <1>1 DEF IRRecord, Of, Records
<1>3. j \o <<r>> = Append(j, r) /\ Append(j, r) \in Seq(Records)
  BY <1>2, JoinIsAppend
<1>4. \A c : OnChannel(Append(j, r), c) = IF r.ch = c THEN Append(OnChannel(j, c), r) ELSE OnChannel(j, c)
  BY <1>2, ChannelAppend
<1>5. OnChannel(j, "ir") \in Seq(Of("ir"))
  BY ChannelType
<1>6. Values(Append(OnChannel(j, "ir"), r)) = Append(Values(OnChannel(j, "ir")), v)
  BY <1>2, <1>5, ValuesAppend
<1>7. /\ OnChannel(Append(j, r), "ir") = Append(OnChannel(j, "ir"), r)
      /\ OnChannel(Append(j, r), "chalk") = OnChannel(j, "chalk")
      /\ OnChannel(Append(j, r), "translations") = OnChannel(j, "translations")
  BY <1>2, <1>4
<1> QED BY <1>1, <1>3, <1>6, <1>7 DEF MessagesOf, PatchesOf, TranslationsOf

LEMMA AppendsPatch ==
  ASSUME NEW j \in Seq(Records), NEW lt \in Nat, NEW k \in Keys, NEW v \in Nat, NEW p, p = Patch(lt, k, v)
  PROVE  /\ j \o <<p>> \in Seq(Records) /\ p \in Of("chalk")
         /\ MessagesOf(j \o <<p>>) = MessagesOf(j)
         /\ PatchesOf(j \o <<p>>) = Append(PatchesOf(j), p)
         /\ TranslationsOf(j \o <<p>>) = TranslationsOf(j)
<1>1. p \in Of("chalk") /\ p \in Records /\ p.ch = "chalk"
  BY DEF Patch, Of, Records
<1>2. j \o <<p>> = Append(j, p) /\ Append(j, p) \in Seq(Records)
  BY <1>1, JoinIsAppend
<1>3. \A c : OnChannel(Append(j, p), c) = IF p.ch = c THEN Append(OnChannel(j, c), p) ELSE OnChannel(j, c)
  BY <1>1, ChannelAppend
<1>4. /\ OnChannel(Append(j, p), "ir") = OnChannel(j, "ir")
      /\ OnChannel(Append(j, p), "chalk") = Append(OnChannel(j, "chalk"), p)
      /\ OnChannel(Append(j, p), "translations") = OnChannel(j, "translations")
  BY <1>1, <1>3
<1> QED BY <1>1, <1>2, <1>4 DEF MessagesOf, PatchesOf, TranslationsOf

Translation(lt) == [ch |-> "translations", lt |-> lt, v |-> None]

LEMMA AppendsTranslation ==
  ASSUME NEW j \in Seq(Records), NEW lt \in Nat
  PROVE  /\ j \o <<Translation(lt)>> \in Seq(Records)
         /\ MessagesOf(j \o <<Translation(lt)>>) = MessagesOf(j)
         /\ PatchesOf(j \o <<Translation(lt)>>) = PatchesOf(j)
         /\ TranslationsOf(j \o <<Translation(lt)>>) = Append(TranslationsOf(j), lt)
<1>1. PICK r : r = Translation(lt)
  OBVIOUS
<1>2. r \in Of("translations") /\ r \in Records /\ r.ch = "translations" /\ r.lt = lt
  BY <1>1 DEF Translation, Of, Records, Vals
<1>3. j \o <<r>> = Append(j, r) /\ Append(j, r) \in Seq(Records)
  BY <1>2, JoinIsAppend
<1>4. \A c : OnChannel(Append(j, r), c) = IF r.ch = c THEN Append(OnChannel(j, c), r) ELSE OnChannel(j, c)
  BY <1>2, ChannelAppend
<1>5. /\ OnChannel(Append(j, r), "ir") = OnChannel(j, "ir")
      /\ OnChannel(Append(j, r), "chalk") = OnChannel(j, "chalk")
      /\ OnChannel(Append(j, r), "translations") = Append(OnChannel(j, "translations"), r)
  BY <1>2, <1>4
<1>6. OnChannel(j, "translations") \in Seq(Of("translations"))
  BY ChannelType
<1>7. Lts(Append(OnChannel(j, "translations"), r)) = Append(Lts(OnChannel(j, "translations")), lt)
  BY <1>2, <1>6, LtsAppend
<1> QED BY <1>1, <1>3, <1>5, <1>7 DEF MessagesOf, PatchesOf, TranslationsOf

LEMMA ClearsTranslations ==
  ASSUME NEW j \in Seq(Records)
  PROVE  /\ Cleared(j) \in Seq(Records) /\ MessagesOf(Cleared(j)) = MessagesOf(j)
         /\ PatchesOf(Cleared(j)) = PatchesOf(j) /\ TranslationsOf(Cleared(j)) = <<>>
<1>1. /\ Cleared(j) \in Seq(Records)
      /\ \A c : OnChannel(Cleared(j), c) = IF c = "translations" THEN <<>> ELSE OnChannel(j, c)
  BY ClearedChannels
<1>2. Lts(<<>>) = <<>>
  <2>1. DOMAIN <<>> = {}
    OBVIOUS
  <2> QED BY <2>1 DEF Lts
<1> QED BY <1>1, <1>2 DEF MessagesOf, PatchesOf, TranslationsOf

\* What the module's readers of the channels say.
LEMMA Reads ==
  ASSUME NEW a \in Arias
  PROVE  /\ IR(a) = MessagesOf(journal[a]) /\ TailLT(a) = Len(MessagesOf(journal[a]))
         /\ Patches(a) = PatchesOf(journal[a]) /\ Translations(a) = TranslationsOf(journal[a])
BY DEF IR, TailLT, Patches, Translations, MessagesOf, PatchesOf, TranslationsOf, Lts

LEMMA Beginnings ==
  /\ NoHandle \in Handles /\ NotReady \in Chalks /\ NoFork \in Forks /\ Blank \in Boards
  /\ ~NoHandle.open /\ NoHandle.trans = None /\ ~NotReady.ready /\ NoFork.pc = "idle" /\ NoFork.alt = None
<1>1. <<>> \in Seq(Of("chalk")) /\ <<>> \in Seq(Vals)
  BY EmptySeq
<1>2. Blank \in Boards
  BY <1>1, ReplayType DEF Blank
<1> QED BY <1>1, <1>2 DEF NoHandle, Handles, NotReady, Chalks, NoFork, Forks

-----------------------------------------------------------------------------
(* The steps *)

\* An aria that a step does not touch; removing it is not touching it.
LEMMA Untouched ==
  ASSUME NEW a \in Arias, AriaOK(a),
         handle'[a] = handle[a], chalk'[a] = chalk[a], chalkBy'[a] = chalkBy[a], guess'[a] = guess[a],
         agent'[a] = agent[a], board'[a] = board[a],
         a \in stored' => a \in stored /\ journal'[a] = journal[a],
         minted \subseteq minted', raced \subseteq raced', failed \subseteq failed',
         fork'.alt = a => fork.alt = a
  PROVE  AriaOK(a)'
<1>1. a \notin minted' => Clean(a)'
  BY DEF AriaOK, Clean
<1>2. ASSUME a \in stored' PROVE CachesOK(a)'
  <2>1. CachesOK(a) /\ journal'[a] = journal[a]
    BY <1>2 DEF AriaOK
  <2>2. /\ handle'[a].open => handle'[a].rows = MessagesOf(journal'[a])
        /\ agent'[a] = "up" => handle'[a].open
        /\ handle'[a].trans # None => handle'[a].trans = TranslationsOf(journal'[a])
    BY <2>1 DEF CachesOK
  <2>3. chalk'[a].ready => /\ chalk'[a].state = Replay(PatchesOf(journal'[a]))
                           /\ a \notin raced' => chalk'[a].patches = PatchesOf(journal'[a])
    BY <2>1 DEF CachesOK
  <2>4. agent'[a] = "up" /\ a \notin raced' \cup failed' => board'[a] = Replay(PatchesOf(journal'[a]))
    BY <2>1 DEF CachesOK
  <2> QED BY <2>2, <2>3, <2>4 DEF CachesOK
<1>3. guess'[a] > 0 => /\ chalkBy'[a] # None
                       /\ a \in stored' \ raced' => guess'[a] = Len(MessagesOf(journal'[a])) + 1
  BY DEF AriaOK
<1>4. fork'.alt = a /\ agent'[a] = "up" => a \in raced'
  BY DEF AriaOK
<1> QED BY <1>1, <1>2, <1>3, <1>4 DEF AriaOK

cacheVars == <<handle, chalk, chalkBy, guess>>
agentVars == <<agent, board>>

\* A step that leaves every log, cache and agent alone, and the alternative of
\* a fork what it is.
LEMMA Elsewhere ==
  ASSUME StoreInv, UNCHANGED <<journal, stored, minted, cacheVars, agentVars, raced, failed>>,
         fork' \in Forks, fork'.alt = fork.alt, fork'.pc # "idle" => fork.pc # "idle"
  PROVE  StoreInv'
<1>1. Types'
  BY DEF StoreInv, Types, cacheVars, agentVars
<1>2. ASSUME NEW a \in Arias PROVE AriaOK(a)'
  BY <1>2, Untouched DEF StoreInv, cacheVars, agentVars
<1> QED BY <1>1, <1>2 DEF StoreInv

LEMMA Quiet ==
  ASSUME StoreInv, CreateStump \/ WriteStumpBirth \/ TopologySnapshot \/ (\E a \in Arias : Promote(a)) \/ UNCHANGED vars
  PROVE  StoreInv'
<1>1. UNCHANGED <<journal, stored, minted, cacheVars, agentVars, raced, failed>> /\ fork' = fork
  BY DEF CreateStump, WriteStumpBirth, TopologySnapshot, Promote, cacheVars, agentVars,
         vars, disk, caches, clients, history
<1> QED BY <1>1, Elsewhere DEF StoreInv, Types

LEMMA ForkSeeded ==
  ASSUME StoreInv, SeedForkMeta PROVE StoreInv'
<1>1. UNCHANGED <<journal, stored, minted, cacheVars, agentVars, raced, failed>>
  BY DEF SeedForkMeta, cacheVars, agentVars, caches, history
<1>2. fork' \in Forks /\ fork'.alt = fork.alt /\ fork.pc # "idle"
  BY DEF StoreInv, Types, SeedForkMeta, Forks
<1> QED BY <1>1, <1>2, Elsewhere

\* A new aria has none of the caches.
LEMMA Spawned ==
  ASSUME StoreInv, NEW b \in Arias, NEW above, NEW j \in Seq(Records), Spawn(b, above, j),
         UNCHANGED <<cacheVars, agentVars, raced, failed>>,
         fork' \in Forks, fork' = fork \/ fork'.alt = b
  PROVE  StoreInv'
<1>1. /\ b \notin minted /\ minted' = minted \cup {b} /\ stored' = stored \cup {b}
      /\ journal' = [journal EXCEPT ![b] = j]
  BY DEF Spawn, NewId
<1>2. Types'
  <2>1. journal' \in [Arias -> Seq(Records)] /\ stored' \subseteq minted' /\ minted' \subseteq Arias
    BY <1>1 DEF StoreInv, Types
  <2>2. fork' \in Forks /\ (fork'.pc # "idle" => fork'.alt \in minted')
    BY <1>1 DEF StoreInv, Types
  <2> QED BY <2>1, <2>2 DEF StoreInv, Types, cacheVars, agentVars
<1>3. ASSUME NEW a \in Arias, a # b PROVE AriaOK(a)'
  <2>1. a \in stored' => a \in stored /\ journal'[a] = journal[a]
    BY <1>1, <1>3 DEF StoreInv, Types
  <2>2. minted \subseteq minted' /\ (fork'.alt = a => fork.alt = a)
    BY <1>1, <1>3
  <2> QED BY <2>1, <2>2, Untouched DEF StoreInv, cacheVars, agentVars
<1>4. AriaOK(b)'
  <2>1. handle'[b] = NoHandle /\ chalk'[b] = NotReady /\ agent'[b] = "none" /\ guess'[b] = 0
    BY <1>1 DEF StoreInv, AriaOK, Clean, cacheVars, agentVars
  <2>2. ~handle'[b].open /\ handle'[b].trans = None /\ ~chalk'[b].ready
    BY <2>1, Beginnings
  <2> QED BY <1>1, <2>1, <2>2 DEF AriaOK, CachesOK
<1> QED BY <1>2, <1>3, <1>4 DEF StoreInv

-----------------------------------------------------------------------------
(* Births and branches *)

\* The journals a conversation may begin with.
GenesisOnly == <<IRRecord(Genesis)>>

\* Tuples, one entry after another.
LEMMA TwoEntries == ASSUME NEW x, NEW y PROVE Append(<<x>>, y) = <<x, y>>
<1>1. <<x>> \in Seq({x, y}) /\ y \in {x, y} /\ <<x, y>> \in Seq({x, y})
  OBVIOUS
<1>2. /\ Append(<<x>>, y) \in Seq({x, y}) /\ Len(Append(<<x>>, y)) = 2
      /\ Append(<<x>>, y)[1] = x /\ Append(<<x>>, y)[2] = y
  BY <1>1, AppendProperties
<1>3. PICK s, t : s = Append(<<x>>, y) /\ t = <<x, y>>
  OBVIOUS
<1>4. s \in Seq({x, y}) /\ t \in Seq({x, y}) /\ Len(s) = 2 /\ Len(t) = 2 /\ s[1] = t[1] /\ s[2] = t[2]
  BY <1>1, <1>2, <1>3
<1>5. ASSUME NEW i \in 1..Len(s) PROVE s[i] = t[i]
  <2>1. i = 1 \/ i = 2
    BY <1>4
  <2> QED BY <1>4, <2>1
<1>6. s = t
  BY <1>4, <1>5, SeqEqual
<1> QED BY <1>3, <1>6

LEMMA ThreeEntries == ASSUME NEW x, NEW y, NEW z PROVE Append(Append(<<x>>, y), z) = <<x, y, z>>
<1> DEFINE S == {x, y, z}
<1>1. <<x, y>> \in Seq(S) /\ z \in S /\ <<x, y, z>> \in Seq(S)
  OBVIOUS
<1>2. /\ Append(<<x, y>>, z) \in Seq(S) /\ Len(Append(<<x, y>>, z)) = 3
      /\ Append(<<x, y>>, z)[1] = x /\ Append(<<x, y>>, z)[2] = y /\ Append(<<x, y>>, z)[3] = z
  BY <1>1, AppendProperties
<1>3. PICK s, t : s = Append(<<x, y>>, z) /\ t = <<x, y, z>>
  OBVIOUS
<1>4. s \in Seq(S) /\ t \in Seq(S) /\ Len(s) = 3 /\ Len(t) = 3 /\ s[1] = t[1] /\ s[2] = t[2] /\ s[3] = t[3]
  BY <1>1, <1>2, <1>3
<1>5. ASSUME NEW i \in 1..Len(s) PROVE s[i] = t[i]
  <2>1. i = 1 \/ i = 2 \/ i = 3
    BY <1>4
  <2> QED BY <1>4, <2>1
<1>6. s = t
  BY <1>4, <1>5, SeqEqual
<1> QED BY <1>3, <1>6, TwoEntries

LEMMA PatchJoins ==
  ASSUME NEW j \in Seq(Records), NEW p \in Of("chalk")
  PROVE  j \o <<p>> = Append(j, p) /\ Append(j, p) \in Seq(Records) /\ MessagesOf(Append(j, p)) = MessagesOf(j)
<1>1. p \in Records /\ p.ch = "chalk"
  BY DEF Of
<1>2. OnChannel(Append(j, p), "ir") = OnChannel(j, "ir")
  BY <1>1, ChannelAppend
<1> QED BY <1>1, <1>2, JoinIsAppend DEF MessagesOf

LEMMA LoadoutMessages ==
  /\ GenesisOnly \in Seq(Records) /\ MessagesOf(GenesisOnly) = <<Genesis>>
  /\ LoadoutPrefix \in Seq(Records)
  /\ MessagesOf(LoadoutPrefix) \in {<<Genesis>>, <<Genesis, Birth>>}
<1>1. <<>> \in Seq(Records) /\ MessagesOf(<<>>) = <<>>
  <2>1. DOMAIN <<>> = {} /\ <<>> \in Seq(Records)
    BY EmptySeq
  <2>2. OnChannel(<<>>, "ir") = <<>>
    BY ChannelEmpty
  <2>3. Values(<<>>) = <<>>
    BY <2>1 DEF Values
  <2> QED BY <2>1, <2>2, <2>3 DEF MessagesOf
<1>2. Genesis \in Vals /\ Birth \in Vals
  BY DEF Vals
<1>3. GenesisOnly = <<>> \o <<IRRecord(Genesis)>>
  BY DEF GenesisOnly
<1>4. GenesisOnly \in Seq(Records) /\ MessagesOf(GenesisOnly) = Append(<<>>, Genesis)
  BY <1>1, <1>2, <1>3, AppendsMessage
<1>5. Append(<<>>, Genesis) = <<Genesis>>
  OBVIOUS
<1>6. PICK two : two = GenesisOnly \o <<IRRecord(Birth)>>
  OBVIOUS
<1>7. two \in Seq(Records) /\ MessagesOf(two) = Append(<<Genesis>>, Birth)
  <2>1. /\ GenesisOnly \o <<IRRecord(Birth)>> \in Seq(Records)
        /\ MessagesOf(GenesisOnly \o <<IRRecord(Birth)>>) = Append(MessagesOf(GenesisOnly), Birth)
    BY <1>2, <1>4, AppendsMessage
  <2> QED BY <1>4, <1>5, <1>6, <2>1
<1>8. Append(<<Genesis>>, Birth) = <<Genesis, Birth>>
  BY TwoEntries
<1>9. PICK p : p = Patch(2, "mantra", 0)
  OBVIOUS
<1>10. p \in Of("chalk")
  BY <1>9 DEF Patch, Of, Records, Keys
<1>12. Append(two, p) \in Seq(Records) /\ MessagesOf(Append(two, p)) = MessagesOf(two)
  BY <1>7, <1>10, PatchJoins
<1>13. two = Append(GenesisOnly, IRRecord(Birth))
  <2>1. IRRecord(Birth) \in Records
    BY <1>2 DEF IRRecord, Records
  <2> QED BY <1>4, <1>6, <2>1, JoinIsAppend
<1>14. Append(two, p) = <<IRRecord(Genesis), IRRecord(Birth), p>>
  BY <1>13, ThreeEntries DEF GenesisOnly
<1> QED BY <1>4, <1>5, <1>7, <1>8, <1>9, <1>12, <1>14 DEF LoadoutPrefix, GenesisOnly

BootPatch(a) == Patch(Len(OnChannel(LoadoutPrefix, "ir")) + 1, "aria_id", a)

LEMMA Booted ==
  ASSUME NEW a \in Arias
  PROVE  /\ Append(LoadoutPrefix, BootPatch(a)) \in Seq(Records)
         /\ MessagesOf(Append(LoadoutPrefix, BootPatch(a))) \in {<<Genesis>>, <<Genesis, Birth>>}
<1>1. LoadoutPrefix \in Seq(Records) /\ MessagesOf(LoadoutPrefix) \in {<<Genesis>>, <<Genesis, Birth>>}
  BY LoadoutMessages
<1>2. PICK lt : lt = Len(OnChannel(LoadoutPrefix, "ir")) + 1
  OBVIOUS
<1>3. lt \in Nat
  BY <1>1, <1>2, ChannelType, LenProperties
<1>4. a \in Nat
  BY AriaStoreAssumption
<1>5. BootPatch(a) \in Of("chalk")
  BY <1>2, <1>3, <1>4 DEF BootPatch, Patch, Of, Records, Keys
<1> QED BY <1>1, <1>5, PatchJoins

\* A new conversation begins at birth.
LEMMA CreateIs ==
  ASSUME NEW a \in Arias, CreateConversation(a)
  PROVE  \E j \in Seq(Records) : Spawn(a, Stump, j) /\ MessagesOf(j) \in {<<Genesis>>, <<Genesis, Birth>>}
<1>1. Spawn(a, Stump, Append(LoadoutPrefix, BootPatch(a)))
  BY DEF CreateConversation, BootPatch
<1> QED BY <1>1, Booted

\* So does a fork at what the root or the loadout owns; any other begins as the
\* messages up to where it was forked.
LEMMA ForkIs ==
  ASSUME Types, NEW a \in Arias, NEW at \in 0..TailLT(a), ForkTree(a, at)
  PROVE  \E b \in Arias, above \in {a, Root, Stump}, j \in Seq(Records) :
           /\ Spawn(b, above, j) /\ fork' = [pc |-> "meta", of |-> a, alt |-> b, at |-> at] /\ a \in stored
           /\ \/ MessagesOf(j) \in {<<Genesis>>, <<Genesis, Birth>>}
              \/ \E n \in 0..Len(MessagesOf(journal[a])) : MessagesOf(j) = SubSeq(MessagesOf(journal[a]), 1, n)
<1>1. a \in stored /\ journal[a] \in Seq(Records)
  BY DEF ForkTree, Types
<1>2. PICK b \in Arias :
        /\ IF at = 0 THEN Spawn(b, a, journal[a])
           ELSE CASE Owner(a, at) = Root -> Spawn(b, Root, <<IRRecord(Genesis)>>)
                  [] Owner(a, at) = Stump -> Spawn(b, Stump, LoadoutPrefix)
                  [] OTHER -> Spawn(b, a, UpTo(journal[a], at))
        /\ fork' = [pc |-> "meta", of |-> a, alt |-> b, at |-> at]
  BY DEF ForkTree
<1>3. \/ Spawn(b, a, journal[a]) \/ Spawn(b, Root, GenesisOnly) \/ Spawn(b, Stump, LoadoutPrefix)
      \/ Spawn(b, a, UpTo(journal[a], at))
  BY <1>2 DEF GenesisOnly
<1> DEFINE Goal == \E c \in Arias, above \in {a, Root, Stump}, j \in Seq(Records) :
           /\ Spawn(c, above, j) /\ fork' = [pc |-> "meta", of |-> a, alt |-> c, at |-> at] /\ a \in stored
           /\ \/ MessagesOf(j) \in {<<Genesis>>, <<Genesis, Birth>>}
              \/ \E n \in 0..Len(MessagesOf(journal[a])) : MessagesOf(j) = SubSeq(MessagesOf(journal[a]), 1, n)
<1>8. ASSUME NEW above \in {a, Root, Stump}, NEW j \in Seq(Records), Spawn(b, above, j),
             \/ MessagesOf(j) \in {<<Genesis>>, <<Genesis, Birth>>}
             \/ \E n \in 0..Len(MessagesOf(journal[a])) : MessagesOf(j) = SubSeq(MessagesOf(journal[a]), 1, n)
      PROVE  Goal
  <2>1. fork' = [pc |-> "meta", of |-> a, alt |-> b, at |-> at]
    BY <1>2
  <2> WITNESS b \in Arias, above \in {a, Root, Stump}, j \in Seq(Records)
  <2> QED BY <1>1, <1>8, <2>1
<1> HIDE DEF Goal
<1>4. ASSUME Spawn(b, a, journal[a]) PROVE Goal
  <2>1. MessagesOf(journal[a]) \in Seq(Vals)
    BY <1>1, ReadsType
  <2>2. MessagesOf(journal[a]) = SubSeq(MessagesOf(journal[a]), 1, Len(MessagesOf(journal[a])))
    BY <2>1
  <2>3. Len(MessagesOf(journal[a])) \in 0..Len(MessagesOf(journal[a]))
    BY <2>1
  <2> QED BY <1>1, <1>4, <1>8, <2>2, <2>3, Zenon
<1>5. ASSUME Spawn(b, Root, GenesisOnly) PROVE Goal
  <2>1. GenesisOnly \in Seq(Records) /\ MessagesOf(GenesisOnly) \in {<<Genesis>>, <<Genesis, Birth>>}
    BY LoadoutMessages, Zenon
  <2> QED BY <1>5, <1>8, <2>1, Zenon
<1>6. ASSUME Spawn(b, Stump, LoadoutPrefix) PROVE Goal
  <2>1. LoadoutPrefix \in Seq(Records) /\ MessagesOf(LoadoutPrefix) \in {<<Genesis>>, <<Genesis, Birth>>}
    BY LoadoutMessages, Zenon
  <2> QED BY <1>6, <1>8, <2>1, Zenon
<1>7. ASSUME Spawn(b, a, UpTo(journal[a], at)) PROVE Goal
  <2>1. OnChannel(journal[a], "ir") \in Seq(Of("ir"))
    BY <1>1, ChannelType
  <2>2. Len(OnChannel(journal[a], "ir")) = Len(MessagesOf(journal[a]))
    BY <2>1, ValuesType DEF MessagesOf
  <2>3. at \in 0..Len(OnChannel(journal[a], "ir"))
    BY <2>2, Reads
  <2>4. /\ UpTo(journal[a], at) \in Seq(Records)
        /\ OnChannel(UpTo(journal[a], at), "ir") = SubSeq(OnChannel(journal[a], "ir"), 1, at)
    BY <1>1, <2>3, ForkMessages
  <2>5. MessagesOf(UpTo(journal[a], at)) = SubSeq(MessagesOf(journal[a]), 1, at)
    BY <2>1, <2>3, <2>4, ValuesCut DEF MessagesOf
  <2>6. at \in 0..Len(MessagesOf(journal[a]))
    BY <2>2, <2>3
  <2> QED BY <1>7, <1>8, <2>4, <2>5, <2>6, Zenon
<1>9. Goal
  BY <1>3, <1>4, <1>5, <1>6, <1>7, Zenon
<1> QED BY <1>9, Zenon DEF Goal

LEMMA Created ==
  ASSUME StoreInv, NEW a \in Arias, CreateConversation(a) PROVE StoreInv'
<1>1. UNCHANGED <<cacheVars, agentVars, raced, failed, fork>>
  BY DEF CreateConversation, cacheVars, agentVars, caches, clients, history
<1>2. PICK j \in Seq(Records) : Spawn(a, Stump, j)
  BY CreateIs
<1>3. fork' \in Forks
  BY <1>1 DEF StoreInv, Types
<1> QED BY <1>1, <1>2, <1>3, Spawned

LEMMA Forked ==
  ASSUME StoreInv, NEW a \in Arias, NEW at \in 0..TailLT(a), ForkTree(a, at) PROVE StoreInv'
<1>1. UNCHANGED <<cacheVars, agentVars, raced, failed>>
  BY DEF ForkTree, cacheVars, agentVars, caches, history
<1>2. PICK b \in Arias, above \in {a, Root, Stump}, j \in Seq(Records) :
        Spawn(b, above, j) /\ fork' = [pc |-> "meta", of |-> a, alt |-> b, at |-> at]
  BY ForkIs DEF StoreInv
<1>3. journal[a] \in Seq(Records)
  BY DEF StoreInv, Types
<1>4. at \in Nat
  BY <1>3, Reads, ReadsType
<1>5. fork' \in Forks /\ fork'.alt = b
  BY <1>2, <1>4 DEF Forks
<1> QED BY <1>1, <1>2, <1>5, Spawned

-----------------------------------------------------------------------------
(* Steps of one aria *)

Same(b) ==
  /\ journal'[b] = journal[b] /\ handle'[b] = handle[b] /\ chalk'[b] = chalk[b] /\ chalkBy'[b] = chalkBy[b]
  /\ guess'[b] = guess[b] /\ agent'[b] = agent[b] /\ board'[b] = board[b]

LEMMA OnlyOne ==
  ASSUME StoreInv, NEW a \in Arias, Types', AriaOK(a)', stored' = stored, minted' = minted,
         \A b \in Arias \ {a} : Same(b), raced \subseteq raced', failed \subseteq failed',
         fork'.alt = fork.alt \/ fork'.alt = None
  PROVE  StoreInv'
<1>1. None \notin Arias
  BY AriaStoreAssumption
<1>2. ASSUME NEW b \in Arias, b # a PROVE AriaOK(b)'
  <2>1. Same(b) /\ AriaOK(b)
    BY <1>2 DEF StoreInv
  <2>2. /\ handle'[b] = handle[b] /\ chalk'[b] = chalk[b] /\ chalkBy'[b] = chalkBy[b] /\ guess'[b] = guess[b]
        /\ agent'[b] = agent[b] /\ board'[b] = board[b]
        /\ b \in stored' => b \in stored /\ journal'[b] = journal[b]
    BY <2>1 DEF Same
  <2>3. fork'.alt = b => fork.alt = b
    BY <1>1
  <2>4. minted \subseteq minted'
    OBVIOUS
  <2> QED BY <2>1, <2>2, <2>3, <2>4, Untouched
<1> QED BY <1>2 DEF StoreInv

LEMMA Facts ==
  ASSUME StoreInv, NEW a \in Arias
  PROVE  /\ journal[a] \in Seq(Records) /\ handle[a] \in Handles /\ chalk[a] \in Chalks
         /\ guess[a] \in Nat /\ agent[a] \in {"none", "up"} /\ board[a] \in Boards
         /\ AriaOK(a) /\ a \in Nat /\ None \notin Nat
         /\ chalkBy[a] = None => guess[a] = 0
<1>1. guess[a] \in Nat
  BY DEF StoreInv, Types
<1>2. chalkBy[a] = None => guess[a] = 0
  BY <1>1 DEF StoreInv, AriaOK
<1> QED BY <1>1, <1>2, AriaStoreAssumption DEF StoreInv, Types

LEMMA PageRead ==
  ASSUME StoreInv, NEW a \in Arias, ReadPage(a) PROVE StoreInv'
<1>1. /\ a \in stored /\ handle' = Opened(a)
      /\ UNCHANGED <<journal, stored, minted, chalk, chalkBy, guess, agentVars, fork, raced, failed>>
  BY DEF ReadPage, agentVars, disk, clients, history
<1>2. IR(a) = MessagesOf(journal[a]) /\ IR(a) \in Seq(Vals)
  BY Facts, Reads, ReadsType
<1>3. [open |-> TRUE, rows |-> IR(a), trans |-> None] \in Handles
  BY <1>2 DEF Handles
<1>4. handle' \in [Arias -> Handles] /\ \A b \in Arias \ {a} : handle'[b] = handle[b]
  BY <1>1, <1>3 DEF StoreInv, Types, Opened
<1>5. handle'[a] = IF handle[a].open THEN handle[a] ELSE [open |-> TRUE, rows |-> IR(a), trans |-> None]
  BY <1>1 DEF StoreInv, Types, Opened
<1>6. Types'
  BY <1>1, <1>4 DEF StoreInv, Types, agentVars
<1>7. AriaOK(a)'
  <2>1. handle'[a].open /\ handle'[a].rows = MessagesOf(journal[a])
    BY <1>1, <1>2, <1>5 DEF StoreInv, AriaOK, CachesOK
  <2>2. handle'[a].trans # None => handle'[a].trans = TranslationsOf(journal[a])
    BY <1>1, <1>5 DEF StoreInv, AriaOK, CachesOK
  <2>3. CachesOK(a)'
    BY <1>1, <2>1, <2>2 DEF StoreInv, AriaOK, CachesOK, agentVars
  <2> QED BY <1>1, <2>3 DEF StoreInv, Types, AriaOK, agentVars
<1> QED BY <1>1, <1>4, <1>6, <1>7, OnlyOne DEF Same, agentVars

LEMMA LoadedIs ==
  ASSUME StoreInv, NEW a \in Arias, a \in stored, chalk' = Loaded(a)
  PROVE  /\ chalk' \in [Arias -> Chalks] /\ \A b \in Arias \ {a} : chalk'[b] = chalk[b]
         /\ Loaded(a)[a] = chalk'[a]
         /\ chalk'[a].state = Replay(PatchesOf(journal[a]))
         /\ a \notin raced => chalk'[a].patches = PatchesOf(journal[a])
<1>1. Patches(a) = PatchesOf(journal[a]) /\ Patches(a) \in Seq(Of("chalk"))
  BY Facts, Reads, ReadsType
<1>2. Replay(Patches(a)) \in Boards
  BY <1>1, ReplayType
<1>3. [ready |-> TRUE, state |-> Replay(Patches(a)), patches |-> Patches(a)] \in Chalks
  BY <1>1, <1>2 DEF Chalks
<1>4. chalk' \in [Arias -> Chalks] /\ \A b \in Arias \ {a} : chalk'[b] = chalk[b]
  BY <1>3 DEF StoreInv, Types, Loaded
<1>5. chalk'[a] = IF chalk[a].ready THEN chalk[a]
                  ELSE [ready |-> TRUE, state |-> Replay(Patches(a)), patches |-> Patches(a)]
  BY DEF StoreInv, Types, Loaded
<1>6. CachesOK(a)
  BY DEF StoreInv, AriaOK
<1> QED BY <1>1, <1>4, <1>5, <1>6 DEF CachesOK

LEMMA StateRead ==
  ASSUME StoreInv, NEW a \in Arias, ChalkboardState(a) PROVE StoreInv'
<1>1. /\ a \in stored /\ chalk' = Loaded(a)
      /\ UNCHANGED <<journal, stored, minted, handle, chalkBy, guess, agentVars, fork, raced, failed>>
  BY DEF ChalkboardState, agentVars, disk, clients, history
<1>2. /\ chalk' \in [Arias -> Chalks] /\ \A b \in Arias \ {a} : chalk'[b] = chalk[b]
      /\ chalk'[a].state = Replay(PatchesOf(journal[a]))
      /\ a \notin raced => chalk'[a].patches = PatchesOf(journal[a])
  BY <1>1, LoadedIs
<1>3. Types'
  BY <1>1, <1>2 DEF StoreInv, Types, agentVars
<1>4. CachesOK(a)'
  BY <1>1, <1>2 DEF StoreInv, AriaOK, CachesOK, agentVars
<1>5. AriaOK(a)'
  BY <1>1, <1>4 DEF StoreInv, Types, AriaOK, agentVars
<1> QED BY <1>1, <1>2, <1>3, <1>5, OnlyOne DEF Same, agentVars

LEMMA Attached ==
  ASSUME StoreInv, NEW a \in Arias, Attach(a) PROVE StoreInv'
<1>1. /\ a \in stored /\ chalkBy[a] = None /\ chalk' = Loaded(a) /\ handle' = Opened(a)
      /\ agent' = [agent EXCEPT ![a] = "up"]
      /\ board' = [board EXCEPT ![a] = Loaded(a)[a].state]
      /\ raced' = IF fork.alt = a THEN raced \cup {a} ELSE raced
      /\ UNCHANGED <<journal, stored, minted, chalkBy, guess, fork, failed>>
  BY DEF Attach, disk
<1>2. /\ chalk' \in [Arias -> Chalks] /\ \A b \in Arias \ {a} : chalk'[b] = chalk[b]
      /\ Loaded(a)[a] = chalk'[a]
      /\ chalk'[a].state = Replay(PatchesOf(journal[a]))
      /\ a \notin raced => chalk'[a].patches = PatchesOf(journal[a])
  BY <1>1, LoadedIs
<1>3. IR(a) = MessagesOf(journal[a]) /\ IR(a) \in Seq(Vals)
  BY Facts, Reads, ReadsType
<1>4. [open |-> TRUE, rows |-> IR(a), trans |-> None] \in Handles
  BY <1>3 DEF Handles
<1>5. handle' \in [Arias -> Handles] /\ \A b \in Arias \ {a} : handle'[b] = handle[b]
  BY <1>1, <1>4 DEF StoreInv, Types, Opened
<1>6. handle'[a] = IF handle[a].open THEN handle[a] ELSE [open |-> TRUE, rows |-> IR(a), trans |-> None]
  BY <1>1 DEF StoreInv, Types, Opened
<1>7. board'[a] = Replay(PatchesOf(journal[a])) /\ board'[a] \in Boards
  <2>1. chalk'[a].state \in Boards
    BY <1>2 DEF Chalks
  <2> QED BY <1>1, <1>2, <2>1 DEF StoreInv, Types
<1>8. board' \in [Arias -> Boards] /\ \A b \in Arias \ {a} : board'[b] = board[b]
  BY <1>1, <1>7 DEF StoreInv, Types
<1>9. agent' \in [Arias -> {"none", "up"}] /\ \A b \in Arias \ {a} : agent'[b] = agent[b]
  BY <1>1 DEF StoreInv, Types
<1>10. Types'
  BY <1>1, <1>2, <1>5, <1>8, <1>9 DEF StoreInv, Types
<1>11. AriaOK(a)'
  <2>1. handle'[a].open /\ handle'[a].rows = MessagesOf(journal[a])
    BY <1>1, <1>3, <1>6 DEF StoreInv, AriaOK, CachesOK
  <2>2. handle'[a].trans # None => handle'[a].trans = TranslationsOf(journal[a])
    BY <1>1, <1>6 DEF StoreInv, AriaOK, CachesOK
  <2>3. CachesOK(a)'
    BY <1>1, <1>2, <1>7, <2>1, <2>2 DEF CachesOK
  <2>4. guess'[a] = 0 /\ a \in minted'
    BY <1>1, Facts DEF StoreInv, Types
  <2> QED BY <1>1, <2>3, <2>4 DEF AriaOK
<1>12. raced \subseteq raced'
  BY <1>1
<1> QED BY <1>1, <1>2, <1>5, <1>8, <1>9, <1>10, <1>11, <1>12, OnlyOne DEF Same

LEMMA Detached ==
  ASSUME StoreInv, NEW a \in Arias, Detach(a) PROVE StoreInv'
<1>1. /\ agent' = [agent EXCEPT ![a] = "none"] /\ board' = [board EXCEPT ![a] = Blank]
      /\ UNCHANGED <<journal, stored, minted, cacheVars, fork, raced, failed>>
  BY DEF Detach, disk, caches, history, cacheVars
<1>2. agent' \in [Arias -> {"none", "up"}] /\ agent'[a] = "none" /\ \A b \in Arias \ {a} : agent'[b] = agent[b]
  BY <1>1 DEF StoreInv, Types
<1>3. board' \in [Arias -> Boards] /\ \A b \in Arias \ {a} : board'[b] = board[b]
  BY <1>1, Beginnings DEF StoreInv, Types
<1>4. Types'
  BY <1>1, <1>2, <1>3 DEF StoreInv, Types, cacheVars
<1>5. AriaOK(a)'
  BY <1>1, <1>2 DEF StoreInv, AriaOK, Clean, CachesOK, cacheVars
<1> QED BY <1>1, <1>2, <1>3, <1>4, <1>5, OnlyOne DEF Same, cacheVars

\* A message is cached where it was appended.
LEMMA MessageAppended ==
  ASSUME StoreInv, NEW a \in Arias, AppendIR(a) PROVE StoreInv'
<1> DEFINE t == Len(MessagesOf(journal[a])) + 1
<1>1. /\ a \in stored /\ agent[a] # "none"
      /\ UNCHANGED <<stored, minted, chalk, chalkBy, guess, agentVars, fork>>
  BY DEF AppendIR, Live, agentVars, clients
<1>2. agent[a] = "up" /\ journal[a] \in Seq(Records) /\ handle[a] \in Handles /\ AriaOK(a) /\ CachesOK(a)
  BY <1>1, Facts DEF AriaOK
<1>3. TailLT(a) + 1 = t /\ t \in Nat /\ t \in Vals
  BY <1>2, Reads, ReadsType DEF Vals
<1>4. ASSUME Appended(a, <<IRRecord(TailLT(a) + 1)>>), handle' = Cached(handle, a, TailLT(a) + 1),
             raced' = IF chalkBy[a] # None /\ guess[a] > 0 THEN raced \cup {a} ELSE raced, failed' = failed
      PROVE  StoreInv'
  <2>1. PICK j : j = journal[a] \o <<IRRecord(t)>>
    OBVIOUS
  <2>2. /\ j \in Seq(Records) /\ MessagesOf(j) = Append(MessagesOf(journal[a]), t)
        /\ PatchesOf(j) = PatchesOf(journal[a]) /\ TranslationsOf(j) = TranslationsOf(journal[a])
    BY <1>2, <1>3, <2>1, AppendsMessage
  <2>3. /\ journal' = [journal EXCEPT ![a] = j] /\ journal' \in [Arias -> Seq(Records)]
        /\ journal'[a] = j /\ \A b \in Arias \ {a} : journal'[b] = journal[b]
    BY <1>3, <1>4, <2>1, <2>2 DEF StoreInv, Types, Appended
  <2>4. PICK rows : rows = Append(handle[a].rows, t)
    OBVIOUS
  <2>5. rows \in Seq(Vals)
    BY <1>2, <1>3, <2>4, AppendProperties DEF Handles
  <2>6. handle' = [handle EXCEPT ![a] = [@ EXCEPT !.rows = rows]]
    BY <1>2, <1>3, <1>4, <2>4 DEF Cached, StoreInv, Types
  <2>7. /\ handle' \in [Arias -> Handles] /\ \A b \in Arias \ {a} : handle'[b] = handle[b]
        /\ handle'[a].rows = rows /\ handle'[a].open = handle[a].open /\ handle'[a].trans = handle[a].trans
    BY <2>5, <2>6 DEF StoreInv, Types, Handles
  <2>8. Types'
    BY <1>1, <2>3, <2>7 DEF StoreInv, Types, agentVars
  <2>9. /\ handle'[a].open => handle'[a].rows = MessagesOf(journal'[a])
        /\ agent'[a] = "up" => handle'[a].open
        /\ handle'[a].trans # None => handle'[a].trans = TranslationsOf(journal'[a])
    BY <1>1, <1>2, <2>2, <2>3, <2>4, <2>7 DEF CachesOK, agentVars
  <2>10. raced \subseteq raced' /\ failed \subseteq failed'
    BY <1>4
  <2>11. /\ chalk'[a].ready => /\ chalk'[a].state = Replay(PatchesOf(journal'[a]))
                               /\ a \notin raced' => chalk'[a].patches = PatchesOf(journal'[a])
         /\ agent'[a] = "up" /\ a \notin raced' \cup failed' => board'[a] = Replay(PatchesOf(journal'[a]))
    BY <1>1, <1>2, <2>2, <2>3, <2>10 DEF CachesOK, agentVars
  <2>12. CachesOK(a)'
    BY <2>9, <2>11 DEF CachesOK
  <2>13. guess'[a] > 0 => chalkBy'[a] # None /\ a \in raced'
    BY <1>1, <1>2, <1>4 DEF AriaOK
  <2>14. AriaOK(a)'
    BY <1>1, <1>2, <2>10, <2>12, <2>13 DEF StoreInv, Types, AriaOK, agentVars
  <2> QED BY <1>1, <2>3, <2>7, <2>8, <2>10, <2>14, OnlyOne DEF Same, agentVars
<1>5. ASSUME UNCHANGED <<journal, handle, raced>>, failed' = failed \cup {a}
      PROVE  StoreInv'
  <2>1. Types'
    BY <1>1, <1>5 DEF StoreInv, Types, agentVars
  <2>2. CachesOK(a)'
    BY <1>1, <1>2, <1>5 DEF CachesOK, agentVars
  <2>3. AriaOK(a)'
    BY <1>1, <1>2, <1>5, <2>2 DEF AriaOK, StoreInv, Types, agentVars
  <2> QED BY <1>1, <1>5, <2>1, <2>3, OnlyOne DEF Same, agentVars
<1>6. \/ /\ Appended(a, <<IRRecord(TailLT(a) + 1)>>) /\ handle' = Cached(handle, a, TailLT(a) + 1)
         /\ raced' = (IF chalkBy[a] # None /\ guess[a] > 0 THEN raced \cup {a} ELSE raced) /\ failed' = failed
      \/ UNCHANGED <<journal, handle, raced>> /\ failed' = failed \cup {a}
  BY DEF AppendIR
<1> QED BY <1>4, <1>5, <1>6

\* The journal and the translations a handle holds change together.
LEMMA Translated ==
  ASSUME StoreInv, NEW a \in Arias, a \in stored, NEW j \in Seq(Records), NEW rows \in Seq(Nat),
         journal' = [journal EXCEPT ![a] = j], handle' = [handle EXCEPT ![a].trans = rows],
         MessagesOf(j) = MessagesOf(journal[a]), PatchesOf(j) = PatchesOf(journal[a]), TranslationsOf(j) = rows,
         UNCHANGED <<stored, minted, chalk, chalkBy, guess, agentVars, fork, raced, failed>>
  PROVE  StoreInv'
<1>1. /\ journal' \in [Arias -> Seq(Records)] /\ journal'[a] = j
      /\ \A b \in Arias \ {a} : journal'[b] = journal[b]
  BY DEF StoreInv, Types
<1>2. /\ handle' \in [Arias -> Handles] /\ \A b \in Arias \ {a} : handle'[b] = handle[b]
      /\ handle'[a].rows = handle[a].rows /\ handle'[a].open = handle[a].open /\ handle'[a].trans = rows
  BY DEF StoreInv, Types, Handles
<1>3. Types'
  BY <1>1, <1>2 DEF StoreInv, Types, agentVars
<1>4. AriaOK(a) /\ CachesOK(a)
  BY DEF StoreInv, AriaOK
<1>5. CachesOK(a)'
  BY <1>1, <1>2, <1>4 DEF CachesOK, agentVars
<1>6. AriaOK(a)'
  BY <1>1, <1>4, <1>5 DEF AriaOK, StoreInv, Types, agentVars
<1> QED BY <1>1, <1>2, <1>3, <1>6, OnlyOne DEF Same, agentVars

LEMMA TranslationAppended ==
  ASSUME StoreInv, NEW a \in Arias, AppendTranslation(a) PROVE StoreInv'
<1> DEFINE rows == IF handle[a].trans = None THEN Translations(a) ELSE handle[a].trans
<1>1. /\ a \in stored
      /\ Appended(a, <<Translation(TailLT(a))>>)
      /\ handle' = [handle EXCEPT ![a].trans = Append(rows, TailLT(a))]
      /\ UNCHANGED <<stored, minted, chalk, chalkBy, guess, agentVars, fork, raced, failed>>
  BY DEF AppendTranslation, Translation, agentVars, clients, history
<1>2. AriaOK(a) /\ CachesOK(a) /\ journal[a] \in Seq(Records)
  BY <1>1, Facts DEF AriaOK
<1>3. Translations(a) = TranslationsOf(journal[a]) /\ Translations(a) \in Seq(Nat) /\ TailLT(a) \in Nat
  BY <1>2, Reads, ReadsType
<1>4. rows = TranslationsOf(journal[a])
  BY <1>2, <1>3 DEF CachesOK
<1>5. Append(rows, TailLT(a)) \in Seq(Nat)
  BY <1>3, <1>4, AppendProperties
<1>6. PICK j : j = journal[a] \o <<Translation(TailLT(a))>>
  OBVIOUS
<1>7. /\ j \in Seq(Records) /\ MessagesOf(j) = MessagesOf(journal[a]) /\ PatchesOf(j) = PatchesOf(journal[a])
      /\ TranslationsOf(j) = Append(rows, TailLT(a))
  BY <1>2, <1>3, <1>4, <1>6, AppendsTranslation
<1>8. journal' = [journal EXCEPT ![a] = j]
  BY <1>1, <1>6 DEF Appended, StoreInv, Types
<1> HIDE DEF rows
<1> QED BY <1>1, <1>5, <1>7, <1>8, Translated

LEMMA TranslationsCleared ==
  ASSUME StoreInv, NEW a \in Arias, ClearTranslations(a) PROVE StoreInv'
<1>1. /\ a \in stored /\ handle' = [handle EXCEPT ![a].trans = <<>>]
      /\ UNCHANGED <<stored, minted, chalk, chalkBy, guess, agentVars, fork, raced, failed>>
  BY DEF ClearTranslations, agentVars, clients, history
<1>2. journal' = [journal EXCEPT ![a] = Cleared(journal[a])]
  BY DEF ClearTranslations, Cleared, StoreInv, Types
<1>3. journal[a] \in Seq(Records)
  BY Facts
<1>4. /\ Cleared(journal[a]) \in Seq(Records) /\ MessagesOf(Cleared(journal[a])) = MessagesOf(journal[a])
      /\ PatchesOf(Cleared(journal[a])) = PatchesOf(journal[a]) /\ TranslationsOf(Cleared(journal[a])) = <<>>
  BY <1>3, ClearsTranslations
<1>5. <<>> \in Seq(Nat)
  BY EmptySeq
<1> QED BY <1>1, <1>2, <1>4, <1>5, Translated

-----------------------------------------------------------------------------
(* Patches *)

\* The key worked out from the rows is that of the next message.
LEMMA Keyed ==
  ASSUME StoreInv, NEW a \in Arias, a \in minted, NEW who \in {"agent", "fork"}, ApplyBegin(a, who),
         UNCHANGED <<journal, stored, minted, handle, chalk, agentVars, raced, failed>>,
         fork' \in Forks, fork'.alt = fork.alt, fork'.pc # "idle" => fork.pc # "idle"
  PROVE  StoreInv'
<1>1. chalkBy' = [chalkBy EXCEPT ![a] = who] /\ guess' = [guess EXCEPT ![a] = Guess(a)]
  BY DEF ApplyBegin
<1>2. AriaOK(a) /\ handle[a] \in Handles
  BY Facts
<1>3. Guess(a) \in Nat
  <2>1. Len(handle[a].rows) \in Nat
    BY <1>2, LenProperties DEF Handles
  <2> QED BY <2>1 DEF Guess
<1>4. /\ chalkBy' \in [Arias -> {None, "agent", "fork"}] /\ guess' \in [Arias -> Nat]
      /\ chalkBy'[a] = who /\ guess'[a] = Guess(a)
      /\ \A b \in Arias \ {a} : chalkBy'[b] = chalkBy[b] /\ guess'[b] = guess[b]
  BY <1>1, <1>3 DEF StoreInv, Types
<1>5. Types'
  BY <1>4 DEF StoreInv, Types, agentVars
<1>6. who # None
  BY AriaStoreAssumption
<1>7. a \in stored => CachesOK(a) /\ CachesOK(a)'
  BY <1>2 DEF AriaOK, CachesOK, agentVars
<1>8. a \in stored /\ Guess(a) > 0 => Guess(a) = Len(MessagesOf(journal[a])) + 1
  BY <1>7 DEF Guess, CachesOK
<1>9. fork'.alt = a /\ agent'[a] = "up" => a \in raced'
  BY <1>2 DEF AriaOK, agentVars
<1>10. AriaOK(a)'
  BY <1>4, <1>6, <1>7, <1>8, <1>9 DEF AriaOK
<1> QED BY <1>4, <1>5, <1>10, OnlyOne DEF Same, agentVars

\* The cache and the store hold the same patch once both have taken it; the
\* agent's own chalkboard too, when it is patched alike or was given up.
LEMMA PatchEnds ==
  ASSUME StoreInv, NEW a \in Arias, a \in stored, NEW k \in Keys, NEW v \in Nat, ApplyEnd(a, k, v),
         UNCHANGED <<stored, minted, handle, agent, raced, failed>>,
         board' \in [Arias -> Boards], \A b \in Arias \ {a} : board'[b] = board[b],
         fork' = fork \/ fork' = NoFork,
         agent[a] = "up" /\ a \notin raced => board'[a] = [board[a] EXCEPT ![k] = v]
  PROVE  StoreInv'
<1> DEFINE ok == chalk[a].ready /\ guess[a] > 0
<1>1. /\ journal[a] \in Seq(Records) /\ handle[a] \in Handles /\ chalk[a] \in Chalks /\ guess[a] \in Nat
      /\ AriaOK(a) /\ CachesOK(a)
  BY Facts DEF AriaOK
<1>2. PICK t : t = Len(MessagesOf(journal[a])) + 1
  OBVIOUS
<1>19. t \in Nat /\ TailLT(a) + 1 = t
  BY <1>1, <1>2, Reads, ReadsType
<1>3. PICK p, q : p = Patch(guess[a], k, v) /\ q = Patch(t, k, v)
  OBVIOUS
<1>4. PICK j : j = journal[a] \o <<q>>
  OBVIOUS
<1>5. /\ j \in Seq(Records) /\ MessagesOf(j) = MessagesOf(journal[a])
      /\ PatchesOf(j) = Append(PatchesOf(journal[a]), q) /\ TranslationsOf(j) = TranslationsOf(journal[a])
      /\ Replay(PatchesOf(j)) = [Replay(PatchesOf(journal[a])) EXCEPT ![k] = v]
  <2>1. /\ journal[a] \o <<q>> \in Seq(Records) /\ MessagesOf(journal[a] \o <<q>>) = MessagesOf(journal[a])
        /\ PatchesOf(journal[a] \o <<q>>) = Append(PatchesOf(journal[a]), q)
        /\ TranslationsOf(journal[a] \o <<q>>) = TranslationsOf(journal[a])
    BY <1>1, <1>3, <1>19, AppendsPatch
  <2>2. q \in Of("chalk") /\ q.v = <<k, v>>
    BY <1>3, <1>19 DEF Patch, Of, Records
  <2>3. PatchesOf(journal[a]) \in Seq(Of("chalk"))
    BY <1>1, ReadsType
  <2>4. Replay(Append(PatchesOf(journal[a]), q)) = [Replay(PatchesOf(journal[a])) EXCEPT ![k] = v]
    BY <2>2, <2>3, ReplayAppend
  <2> QED BY <1>4, <2>1, <2>4, Zenon
<1>6. /\ journal' = [journal EXCEPT ![a] = j] /\ journal' \in [Arias -> Seq(Records)]
      /\ journal'[a] = j /\ \A b \in Arias \ {a} : journal'[b] = journal[b]
  BY <1>19, <1>3, <1>4, <1>5 DEF StoreInv, Types, ApplyEnd, Appended
<1>7. PICK c : c = IF ok THEN [ready |-> TRUE, state |-> [chalk[a].state EXCEPT ![k] = v], patches |-> Append(chalk[a].patches, p)]
                   ELSE NotReady
  OBVIOUS
<1>8. /\ ok => /\ c \in Chalks /\ c.state = [chalk[a].state EXCEPT ![k] = v]
               /\ c.patches = Append(chalk[a].patches, p) /\ c.ready
      /\ ~ok => c \in Chalks /\ ~c.ready
  <2>1. p \in Of("chalk")
    BY <1>1, <1>3 DEF Patch, Of, Records
  <2>2. PICK st : st = [chalk[a].state EXCEPT ![k] = v]
    OBVIOUS
  <2>3. st \in Boards
    BY <1>1, <2>2 DEF Chalks, Boards
  <2>4. PICK ps : ps = Append(chalk[a].patches, p)
    OBVIOUS
  <2>5. ps \in Seq(Of("chalk"))
    BY <1>1, <2>1, <2>4, AppendProperties DEF Chalks
  <2>6. ok => c = [ready |-> TRUE, state |-> st, patches |-> ps]
    BY <1>7, <2>2, <2>4
  <2>7. ok => c \in Chalks /\ c.state = st /\ c.patches = ps /\ c.ready
    <3>1. PICK d : d = [ready |-> TRUE, state |-> st, patches |-> ps]
      OBVIOUS
    <3>2. d \in Chalks
      BY <2>3, <2>5, <3>1 DEF Chalks
    <3>3. d.state = st /\ d.patches = ps
      BY <3>1
    <3>4. d.ready
      BY <3>1
    <3>5. ok => c = d
      BY <2>6, <3>1
    <3> QED BY <3>2, <3>3, <3>4, <3>5, Zenon
  <2>8. ~ok => c \in Chalks /\ ~c.ready
    BY <1>7, Beginnings
  <2> QED BY <2>2, <2>4, <2>7, <2>8
<1>9. chalk' = [chalk EXCEPT ![a] = c]
  BY <1>3, <1>7, Zenon DEF ApplyEnd
<1>10. /\ chalk' \in [Arias -> Chalks] /\ chalk'[a] = c /\ \A b \in Arias \ {a} : chalk'[b] = chalk[b]
  BY <1>8, <1>9 DEF StoreInv, Types
<1>11. /\ chalkBy' \in [Arias -> {None, "agent", "fork"}] /\ guess' \in [Arias -> Nat] /\ guess'[a] = 0
       /\ \A b \in Arias \ {a} : chalkBy'[b] = chalkBy[b] /\ guess'[b] = guess[b]
  BY DEF ApplyEnd, StoreInv, Types
<1>12. /\ fork' \in Forks /\ (fork'.pc # "idle" => fork'.alt \in minted)
       /\ fork'.alt = fork.alt \/ fork'.alt = None
  BY Beginnings DEF StoreInv, Types
<1>13. Types'
  BY <1>6, <1>10, <1>11, <1>12 DEF StoreInv, Types
<1>14. c.ready => /\ c.state = Replay(PatchesOf(j))
                  /\ a \notin raced => c.patches = PatchesOf(j)
  <2> SUFFICES ASSUME c.ready PROVE c.state = Replay(PatchesOf(j)) /\ (a \notin raced => c.patches = PatchesOf(j))
    OBVIOUS
  <2>1. ok /\ c.state = [chalk[a].state EXCEPT ![k] = v] /\ c.patches = Append(chalk[a].patches, p)
    BY <1>8
  <2>2. chalk[a].state = Replay(PatchesOf(journal[a])) /\ (a \notin raced => chalk[a].patches = PatchesOf(journal[a]))
    BY <1>1, <2>1 DEF CachesOK
  <2>3. a \notin raced => p = q
    BY <1>1, <1>2, <1>3, <1>19, <2>1 DEF AriaOK
  <2> QED BY <1>5, <2>1, <2>2, <2>3
<1>15. agent[a] = "up" /\ a \notin raced \cup failed => board'[a] = Replay(PatchesOf(j))
  BY <1>1, <1>5 DEF CachesOK
<1> HIDE DEF ok
<1>16. CachesOK(a)'
  BY <1>1, <1>5, <1>6, <1>10, <1>14, <1>15 DEF CachesOK
<1>17. None \notin Arias
  BY AriaStoreAssumption
<1>18. AriaOK(a)'
  BY <1>1, <1>11, <1>12, <1>16, <1>17 DEF AriaOK, StoreInv, Types
<1> QED BY <1>6, <1>10, <1>11, <1>12, <1>13, <1>18, OnlyOne DEF Same

\* A patch the store refused changes no cache.
LEMMA PatchFails ==
  ASSUME StoreInv, NEW a \in Arias, ApplyFails(a), UNCHANGED <<stored, minted, handle, agent, raced>>,
         board' \in [Arias -> Boards], \A b \in Arias \ {a} : board'[b] = board[b],
         fork' = fork \/ fork' = NoFork,
         failed \subseteq failed', a \in minted,
         board'[a] = board[a] \/ a \in failed'
  PROVE  StoreInv'
<1>1. AriaOK(a)
  BY Facts
<1>2. /\ journal' = journal /\ chalk' = chalk
      /\ chalkBy' \in [Arias -> {None, "agent", "fork"}] /\ guess' \in [Arias -> Nat] /\ guess'[a] = 0
      /\ \A b \in Arias \ {a} : chalkBy'[b] = chalkBy[b] /\ guess'[b] = guess[b]
  BY DEF ApplyFails, StoreInv, Types
<1>3. /\ fork' \in Forks /\ (fork'.pc # "idle" => fork'.alt \in minted)
      /\ fork'.alt = fork.alt \/ fork'.alt = None
  BY Beginnings DEF StoreInv, Types
<1>4. Types'
  BY <1>2, <1>3 DEF StoreInv, Types
<1>5. a \in stored => CachesOK(a)'
  BY <1>1, <1>2 DEF AriaOK, CachesOK
<1>6. None \notin Arias
  BY AriaStoreAssumption
<1>7. AriaOK(a)'
  BY <1>1, <1>2, <1>3, <1>5, <1>6 DEF AriaOK
<1> QED BY <1>2, <1>3, <1>4, <1>7, OnlyOne DEF Same

LEMMA AgentKeyed ==
  ASSUME StoreInv, NEW a \in Arias, AgentApplyBegin(a) PROVE StoreInv'
<1>1. /\ agent[a] # "none" /\ ApplyBegin(a, "agent")
      /\ UNCHANGED <<journal, stored, minted, handle, chalk, agentVars, raced, failed, fork>>
  BY DEF AgentApplyBegin, Live, agentVars, disk, clients, history
<1>2. a \in minted
  BY <1>1 DEF StoreInv, AriaOK, Clean
<1>3. fork' \in Forks
  BY <1>1 DEF StoreInv, Types
<1> QED BY <1>1, <1>2, <1>3, Keyed

LEMMA StampKeyed ==
  ASSUME StoreInv, StampBegin PROVE StoreInv'
<1>1. /\ fork.pc = "stamp" /\ ApplyBegin(fork.alt, "fork") /\ fork' = [fork EXCEPT !.pc = "stamping"]
      /\ UNCHANGED <<journal, stored, minted, handle, chalk, agentVars, raced, failed>>
  BY DEF StampBegin, agentVars, disk, history
<1>2. fork.alt \in minted /\ fork.alt \in Arias /\ fork' \in Forks /\ fork'.alt = fork.alt
  BY <1>1 DEF StoreInv, Types, Forks
<1> QED BY <1>1, <1>2, Keyed

LEMMA AgentPatched ==
  ASSUME StoreInv, NEW a \in Arias, AgentApplyEnd(a) PROVE StoreInv'
<1>1. chalkBy[a] = "agent" /\ UNCHANGED <<stored, minted, handle, agent, raced, fork>>
  BY DEF AgentApplyEnd
<1>2. PICK v, k : v = Len(Patches(a)) /\ k = "mantra"
  OBVIOUS
<1>3. v \in Nat /\ k \in Keys
  BY <1>2, Facts, Reads, ReadsType DEF Keys
<1>4. board[a] \in Boards /\ [board[a] EXCEPT ![k] = v] \in Boards
  BY <1>3, Facts DEF Boards
<1>5. ASSUME a \in stored, ApplyEnd(a, k, v), board' = [board EXCEPT ![a][k] = v], failed' = failed PROVE StoreInv'
  <2>1. /\ board' \in [Arias -> Boards] /\ \A b \in Arias \ {a} : board'[b] = board[b]
        /\ board'[a] = [board[a] EXCEPT ![k] = v]
    BY <1>4, <1>5 DEF StoreInv, Types
  <2> QED BY <1>1, <1>3, <1>5, <2>1, PatchEnds
<1>6. ASSUME ApplyFails(a), board' = board \/ board' = [board EXCEPT ![a][k] = v], failed' = failed \cup {a}
      PROVE  StoreInv'
  <2>1. board' \in [Arias -> Boards] /\ \A b \in Arias \ {a} : board'[b] = board[b]
    <3>1. board \in [Arias -> Boards]
      BY DEF StoreInv, Types
    <3>2. CASE board' = board
      BY <3>1, <3>2
    <3>3. CASE board' = [board EXCEPT ![a][k] = v]
      BY <1>4, <3>1, <3>3
    <3> QED BY <1>6, <3>2, <3>3
  <2>2. a \in minted
    BY <1>1, AriaStoreAssumption DEF StoreInv, AriaOK, Clean
  <2> QED BY <1>1, <1>6, <2>1, <2>2, PatchFails
<1> QED BY <1>2, <1>5, <1>6 DEF AgentApplyEnd

LEMMA Stamped ==
  ASSUME StoreInv, StampEnd PROVE StoreInv'
<1>1. fork.pc = "stamping" /\ fork' = NoFork /\ UNCHANGED <<stored, minted, handle, agent, board, raced, failed>>
  BY DEF StampEnd, history
<1>2. PICK a \in Arias : a = fork.alt
  BY <1>1 DEF StoreInv, Types, Forks
<1>3. a \in minted /\ a \in Nat /\ (agent[a] = "up" => a \in raced)
  BY <1>1, <1>2, Facts DEF StoreInv, Types, AriaOK
<1>4. board' \in [Arias -> Boards] /\ \A b \in Arias : board'[b] = board[b]
  BY <1>1 DEF StoreInv, Types
<1>5. PICK k : k = "aria_id"
  OBVIOUS
<1>6. k \in Keys
  BY <1>5 DEF Keys
<1>7. (a \in stored /\ ApplyEnd(a, k, a)) \/ ApplyFails(a)
  BY <1>2, <1>5 DEF StampEnd
<1>8. ASSUME a \in stored, ApplyEnd(a, k, a) PROVE StoreInv'
  BY <1>1, <1>3, <1>4, <1>6, <1>8, PatchEnds
<1>9. ASSUME ApplyFails(a) PROVE StoreInv'
  BY <1>1, <1>3, <1>4, <1>9, PatchFails
<1> QED BY <1>7, <1>8, <1>9

-----------------------------------------------------------------------------
(* Removals and deaths *)

LEMMA CachesRemoved ==
  ASSUME StoreInv, NoLate, NEW a \in Arias, RemoveCaches(a) PROVE StoreInv'
<1>1. /\ a \in stored /\ agent[a] = "none" /\ chalkBy[a] = None
      /\ handle' = [handle EXCEPT ![a] = NoHandle] /\ chalk' = [chalk EXCEPT ![a] = NotReady]
      /\ agent' = [agent EXCEPT ![a] = IF @ = "up" THEN "orphan" ELSE @]
      /\ UNCHANGED <<journal, stored, minted, chalkBy, guess, board, fork, raced, failed>>
  BY DEF RemoveCaches, NoLate, history
<1>2. /\ handle' \in [Arias -> Handles] /\ handle'[a] = NoHandle /\ chalk' \in [Arias -> Chalks] /\ chalk'[a] = NotReady
      /\ \A b \in Arias \ {a} : handle'[b] = handle[b] /\ chalk'[b] = chalk[b]
  BY <1>1, Beginnings DEF StoreInv, Types
<1>3. agent' \in [Arias -> {"none", "up"}] /\ agent'[a] = "none" /\ \A b \in Arias \ {a} : agent'[b] = agent[b]
  BY <1>1 DEF StoreInv, Types
<1>4. Types'
  BY <1>1, <1>2, <1>3 DEF StoreInv, Types
<1>5. ~handle'[a].open /\ handle'[a].trans = None /\ ~chalk'[a].ready
  BY <1>2, Beginnings
<1>6. guess'[a] = 0 /\ a \in minted'
  BY <1>1, Facts DEF StoreInv, Types
<1>7. AriaOK(a)'
  BY <1>3, <1>5, <1>6 DEF AriaOK, CachesOK
<1> QED BY <1>1, <1>2, <1>3, <1>4, <1>7, OnlyOne DEF Same

\* What is left of the tree is as it was.
LEMMA LeafIs ==
  ASSUME Types, NEW rec \in BOOLEAN, RemoveLeaf(rec)
  PROVE  /\ stored' \subseteq stored /\ \A a \in stored' : journal'[a] = journal[a]
         /\ journal' \in [Arias -> Seq(Records)] /\ UNCHANGED <<minted, cacheVars, agentVars, fork, raced, failed, crashes>>
<1>1. PICK gone : /\ stored' = stored \ gone
                  /\ journal' = [b \in Arias |-> IF b \in gone THEN <<>> ELSE journal[b]]
  BY DEF RemoveLeaf
<1>2. <<>> \in Seq(Records)
  BY EmptySeq
<1>3. journal' \in [Arias -> Seq(Records)]
  BY <1>1, <1>2 DEF Types
<1>4. stored' \subseteq stored /\ \A a \in stored' : journal'[a] = journal[a]
  BY <1>1 DEF Types
<1>5. UNCHANGED <<minted, cacheVars, agentVars, fork, raced, failed, crashes>>
  BY DEF RemoveLeaf, cacheVars, agentVars, caches, history
<1> QED BY <1>3, <1>4, <1>5

LEMMA LeafRemoved ==
  ASSUME StoreInv, NEW rec \in BOOLEAN, RemoveLeaf(rec) PROVE StoreInv'
<1>1. /\ stored' \subseteq stored /\ \A a \in stored' : journal'[a] = journal[a]
      /\ journal' \in [Arias -> Seq(Records)] /\ UNCHANGED <<minted, cacheVars, agentVars, fork, raced, failed>>
  BY LeafIs DEF StoreInv
<1>2. Types'
  BY <1>1 DEF StoreInv, Types, cacheVars, agentVars
<1>3. ASSUME NEW a \in Arias PROVE AriaOK(a)'
  BY <1>1, <1>3, Untouched DEF StoreInv, cacheVars, agentVars
<1> QED BY <1>2, <1>3 DEF StoreInv

\* Of a journal a prefix is left.
LEMMA CrashIs ==
  ASSUME Types, Crash
  PROVE  /\ journal' \in [Arias -> Seq(Records)] /\ stored' = stored /\ minted' = minted
         /\ \A a \in stored : \E k \in 0..Len(journal[a]) : journal'[a] = SubSeq(journal[a], 1, k)
<1>1. PICK keep \in [stored -> 0..Max({Len(journal[a]) : a \in stored} \cup {0})] :
        /\ \A a \in stored : synced[a] <= keep[a] /\ keep[a] <= Len(journal[a])
        /\ journal' = [a \in Arias |-> IF a \in stored THEN SubSeq(journal[a], 1, keep[a]) ELSE <<>>]
  BY DEF Crash
<1>2. ASSUME NEW a \in stored
      PROVE  keep[a] \in 0..Len(journal[a]) /\ SubSeq(journal[a], 1, keep[a]) \in Seq(Records)
  <2>1. journal[a] \in Seq(Records) /\ Len(journal[a]) \in Nat
    BY <1>2, LenProperties DEF Types
  <2>2. keep[a] \in 0..Max({Len(journal[b]) : b \in stored} \cup {0}) /\ keep[a] <= Len(journal[a])
    BY <1>1, <1>2
  <2>3. keep[a] \in 0..Len(journal[a])
    BY <2>1, <2>2
  <2> QED BY <2>1, <2>3, SubSeqProperties
<1>3. <<>> \in Seq(Records)
  BY EmptySeq
<1>4. journal' \in [Arias -> Seq(Records)]
  BY <1>1, <1>2, <1>3
<1>5. \A a \in stored : journal'[a] = SubSeq(journal[a], 1, keep[a])
  BY <1>1 DEF Types
<1>6. stored' = stored /\ minted' = minted
  BY DEF Crash
<1> QED BY <1>2, <1>4, <1>5, <1>6

LEMMA Fresh ==
  ASSUME journal' \in [Arias -> Seq(Records)], stored' \subseteq minted', minted' \subseteq Arias,
         handle' = [a \in Arias |-> NoHandle], chalk' = [a \in Arias |-> NotReady],
         chalkBy' = [a \in Arias |-> None], guess' = [a \in Arias |-> 0],
         agent' = [a \in Arias |-> "none"], board' = [a \in Arias |-> Blank], fork' = NoFork
  PROVE  StoreInv'
<1>1. Types'
  BY Beginnings DEF Types
<1>2. ASSUME NEW a \in Arias PROVE AriaOK(a)'
  <2>1. handle'[a] = NoHandle /\ chalk'[a] = NotReady /\ chalkBy'[a] = None /\ guess'[a] = 0 /\ agent'[a] = "none"
    OBVIOUS
  <2>2. ~handle'[a].open /\ handle'[a].trans = None /\ ~chalk'[a].ready
    BY <2>1, Beginnings
  <2> QED BY <2>1, <2>2 DEF AriaOK, Clean, CachesOK
<1> QED BY <1>1, <1>2 DEF StoreInv

LEMMA Died ==
  ASSUME StoreInv, Crash PROVE StoreInv'
<1>1. journal' \in [Arias -> Seq(Records)] /\ stored' = stored /\ minted' = minted
  BY CrashIs DEF StoreInv
<1>2. stored \subseteq minted /\ minted \subseteq Arias
  BY DEF StoreInv, Types
<1>3. /\ handle' = [a \in Arias |-> NoHandle] /\ chalk' = [a \in Arias |-> NotReady]
      /\ chalkBy' = [a \in Arias |-> None] /\ guess' = [a \in Arias |-> 0]
      /\ agent' = [a \in Arias |-> "none"] /\ board' = [a \in Arias |-> Blank] /\ fork' = NoFork
  BY DEF Crash
<1> QED BY <1>1, <1>2, <1>3, Fresh

LEMMA StoreStart ==
  ASSUME Init PROVE StoreInv
<1>1. <<>> \in Seq(Records)
  BY EmptySeq
<1>2. Types
  BY <1>1, Beginnings DEF Types, Init
<1>3. ASSUME NEW a \in Arias PROVE AriaOK(a)
  <2>1. /\ handle[a] = NoHandle /\ chalk[a] = NotReady /\ chalkBy[a] = None /\ guess[a] = 0 /\ agent[a] = "none"
        /\ a \notin stored
    BY DEF Init
  <2> QED BY <2>1 DEF AriaOK, Clean
<1> QED BY <1>2, <1>3 DEF StoreInv

LEMMA StoreStep ==
  ASSUME NoLate, StoreInv, [Next]_vars PROVE StoreInv'
<1>1. CASE TopologySnapshot \/ CreateStump \/ WriteStumpBirth \/ UNCHANGED vars
  BY <1>1, Quiet
<1>2. ASSUME NEW a \in Arias,
             \/ CreateConversation(a) \/ ReadPage(a) \/ ChalkboardState(a) \/ Attach(a) \/ Detach(a)
             \/ AppendIR(a) \/ AppendTranslation(a) \/ ClearTranslations(a) \/ AgentApplyBegin(a)
             \/ Promote(a) \/ RemoveCaches(a) \/ \E at \in 0..TailLT(a) : ForkTree(a, at)
      PROVE  StoreInv'
  <2>1. CASE CreateConversation(a) \/ (\E at \in 0..TailLT(a) : ForkTree(a, at))
    BY <2>1, Created, Forked
  <2>2. CASE ReadPage(a) \/ ChalkboardState(a) \/ Attach(a) \/ Detach(a)
    BY <2>2, PageRead, StateRead, Attached, Detached
  <2>3. CASE AppendIR(a) \/ AppendTranslation(a) \/ ClearTranslations(a)
    BY <2>3, MessageAppended, TranslationAppended, TranslationsCleared
  <2>4. CASE AgentApplyBegin(a)
    BY <2>4, AgentKeyed
  <2>5. CASE Promote(a)
    BY <2>5, Quiet
  <2>6. CASE RemoveCaches(a)
    BY <2>6, CachesRemoved
  <2> QED BY <1>2, <2>1, <2>2, <2>3, <2>4, <2>5, <2>6
<1>3. CASE SeedForkMeta \/ StampBegin \/ StampEnd
  BY <1>3, ForkSeeded, StampKeyed, Stamped
<1>4. CASE \E rec \in BOOLEAN : RemoveLeaf(rec)
  BY <1>4, LeafRemoved
<1>5. CASE \E a \in Arias : AgentApplyEnd(a)
  BY <1>5, AgentPatched
<1>6. CASE Crash
  BY <1>6, Died
<1> QED BY <1>1, <1>2, <1>3, <1>4, <1>5, <1>6 DEF Next, Begin, Continue

-----------------------------------------------------------------------------
(* The theorems *)

LEMMA StoreAlways ==
  ASSUME NoLate PROVE Spec => []StoreInv
<1>1. Init => StoreInv
  BY StoreStart
<1>2. StoreInv /\ [Next]_vars => StoreInv'
  BY StoreStep
<1> QED BY <1>1, <1>2, PTL DEF Spec

\* Every cache over an aria's channels tells what a replay of the channel would:
\* the translations, the chalkboard the backend patches without asking the
\* store, and a live agent's own chalkboard - for every interleaving of two
\* patches with appends, forks, removals and deaths, of any number of arias.
THEOREM CachesTellTheTruth ==
  ASSUME NoLate PROVE Spec => []CachesFaithful
<1>1. StoreInv => CachesFaithful
  <2> SUFFICES ASSUME StoreInv, NEW a \in stored
               PROVE  /\ handle[a].trans # None => handle[a].trans = Translations(a)
                      /\ chalk[a].ready => /\ chalk[a].state = Replay(Patches(a))
                                           /\ a \notin raced => chalk[a].patches = Patches(a)
                      /\ agent[a] = "up" /\ a \notin raced \cup failed => board[a] = Replay(Patches(a))
    BY DEF CachesFaithful
  <2>1. a \in Arias /\ CachesOK(a)
    BY DEF StoreInv, Types, AriaOK
  <2>2. Patches(a) = PatchesOf(journal[a]) /\ Translations(a) = TranslationsOf(journal[a])
    BY <2>1, Reads
  <2> QED BY <2>1, <2>2 DEF CachesOK
<1>2. Spec => []StoreInv
  BY StoreAlways
<1> QED BY <1>1, <1>2, PTL

-----------------------------------------------------------------------------
(* The refinement *)

\* The messages of the arias there are: what a reader sees.
View == [a \in Arias |-> IF a \in stored THEN MessagesOf(journal[a]) ELSE <<>>]

LEMMA ViewIs ==
  ASSUME StoreInv PROVE ReaderView = View
<1>1. ASSUME NEW a \in stored PROVE (IF handle[a].open THEN handle[a].rows ELSE IR(a)) = MessagesOf(journal[a])
  <2>1. a \in Arias /\ CachesOK(a)
    BY <1>1 DEF StoreInv, Types, AriaOK
  <2> QED BY <2>1, Reads DEF CachesOK
<1> QED BY <1>1 DEF ReaderView, View

LEMMA ViewIsNext ==
  ASSUME StoreInv' PROVE ReaderView' = View'
<1>1. ASSUME NEW a \in stored' PROVE (IF handle'[a].open THEN handle'[a].rows ELSE IR(a)') = MessagesOf(journal'[a])
  <2>1. a \in Arias /\ CachesOK(a)'
    BY <1>1 DEF StoreInv, Types, AriaOK
  <2>2. IR(a)' = MessagesOf(journal'[a])
    BY DEF IR, MessagesOf
  <2> QED BY <2>1, <2>2 DEF CachesOK
<1> QED BY <1>1 DEF ReaderView, View

\* No message of a stored aria changes.
Still == stored' = stored /\ crashes' = crashes /\ \A a \in stored : MessagesOf(journal'[a]) = MessagesOf(journal[a])

LEMMA StillView ==
  ASSUME Still PROVE View' = View
BY DEF Still, View

LEMMA SpawnView ==
  ASSUME Types, NEW b \in Arias, NEW above, NEW j \in Seq(Records), Spawn(b, above, j)
  PROVE  b \notin stored /\ stored' = stored \cup {b} /\ View' = [View EXCEPT ![b] = MessagesOf(j)]
<1>1. b \notin stored /\ stored' = stored \cup {b} /\ journal' = [journal EXCEPT ![b] = j]
  BY DEF Spawn, NewId, Types
<1>2. journal'[b] = j /\ \A a \in Arias \ {b} : journal'[a] = journal[a]
  BY <1>1 DEF Types
<1>3. PICK m : m = MessagesOf(j)
  OBVIOUS
<1>4. MessagesOf(journal'[b]) = m
  BY <1>2, <1>3
<1>5. View' = [View EXCEPT ![b] = m]
  <2>1. ASSUME NEW c \in Arias PROVE View'[c] = IF c = b THEN m ELSE View[c]
    <3>1. CASE c = b
      BY <1>1, <1>4, <3>1 DEF View
    <3>2. CASE c # b
      BY <1>1, <1>2, <3>2 DEF View
    <3> QED BY <3>1, <3>2
  <2>2. View' = [c \in Arias |-> View'[c]] /\ [View EXCEPT ![b] = m] = [c \in Arias |-> IF c = b THEN m ELSE View[c]]
    BY DEF View
  <2> QED BY <2>1, <2>2
<1> QED BY <1>1, <1>3, <1>5

LEMMA MessageView ==
  ASSUME Types, NEW a \in Arias, AppendIR(a), ~Still
  PROVE  /\ a \in stored /\ stored' = stored /\ crashes' = crashes
         /\ \E m \in 1..MaxIR : View' = [View EXCEPT ![a] = Append(View[a], m)]
<1>1. a \in stored /\ stored' = stored /\ crashes' = crashes /\ TailLT(a) < MaxIR
  BY DEF AppendIR
<1>2. Appended(a, <<IRRecord(TailLT(a) + 1)>>)
  BY <1>1 DEF AppendIR, Still
<1>3. journal[a] \in Seq(Records)
  BY DEF Types
<1>4. TailLT(a) \in Nat
  BY <1>3, Reads, ReadsType
<1>5. PICK m : m = TailLT(a) + 1
  OBVIOUS
<1>6. m \in 1..MaxIR /\ m \in Vals
  BY <1>1, <1>4, <1>5, AriaStoreAssumption DEF Vals
<1>7. MessagesOf(journal[a] \o <<IRRecord(m)>>) = Append(MessagesOf(journal[a]), m)
  BY <1>3, <1>6, AppendsMessage
<1>8. journal' = [journal EXCEPT ![a] = journal[a] \o <<IRRecord(m)>>]
  BY <1>2, <1>5 DEF Appended
<1>9. journal'[a] = journal[a] \o <<IRRecord(m)>> /\ \A b \in Arias \ {a} : journal'[b] = journal[b]
  BY <1>8 DEF Types
<1>10. View' = [View EXCEPT ![a] = Append(View[a], m)]
  <2>1. View[a] = MessagesOf(journal[a])
    BY <1>1 DEF View
  <2>2. MessagesOf(journal'[a]) = Append(View[a], m)
    BY <1>7, <1>9, <2>1
  <2> QED BY <1>1, <1>9, <2>2 DEF View
<1> QED BY <1>1, <1>6, <1>10

\* The steps of a conversation that leave its messages alone.
LEMMA StillSteps ==
  ASSUME StoreInv,
         \/ TopologySnapshot \/ CreateStump \/ WriteStumpBirth \/ SeedForkMeta \/ StampBegin \/ StampEnd \/ UNCHANGED vars
         \/ \E a \in Arias : \/ ReadPage(a) \/ ChalkboardState(a) \/ Attach(a) \/ Detach(a) \/ AppendTranslation(a)
                             \/ ClearTranslations(a) \/ AgentApplyBegin(a) \/ AgentApplyEnd(a) \/ Promote(a)
                             \/ RemoveCaches(a)
  PROVE  Still
<1>1. stored \subseteq Arias /\ journal \in [Arias -> Seq(Records)]
  BY DEF StoreInv, Types
<1>2. CASE TopologySnapshot \/ CreateStump \/ WriteStumpBirth \/ SeedForkMeta \/ StampBegin \/ UNCHANGED vars
  BY <1>2 DEF TopologySnapshot, CreateStump, WriteStumpBirth, SeedForkMeta, StampBegin, vars, disk, history, Still
<1>3. ASSUME NEW a \in Arias, \/ ReadPage(a) \/ ChalkboardState(a) \/ Attach(a) \/ Detach(a) \/ AgentApplyBegin(a)
                              \/ Promote(a) \/ RemoveCaches(a)
      PROVE  Still
  BY <1>3 DEF ReadPage, ChalkboardState, Attach, Detach, AgentApplyBegin, Promote, RemoveCaches, disk, history, Still
<1>4. ASSUME NEW a \in Arias, NEW j, MessagesOf(j) = MessagesOf(journal[a]), journal' = [journal EXCEPT ![a] = j],
             stored' = stored, crashes' = crashes
      PROVE  Still
  BY <1>1, <1>4 DEF Still
<1>5. ASSUME NEW a \in Arias, AppendTranslation(a) PROVE Still
  <2>1. stored' = stored /\ crashes' = crashes /\ Appended(a, <<Translation(TailLT(a))>>)
    BY <1>5 DEF AppendTranslation, Translation, history
  <2>2. MessagesOf(journal[a] \o <<Translation(TailLT(a))>>) = MessagesOf(journal[a])
    BY Facts, Reads, ReadsType, AppendsTranslation
  <2> QED BY <1>4, <2>1, <2>2 DEF Appended
<1>6. ASSUME NEW a \in Arias, ClearTranslations(a) PROVE Still
  <2>1. stored' = stored /\ crashes' = crashes /\ journal' = [journal EXCEPT ![a] = Cleared(journal[a])]
    BY <1>6 DEF ClearTranslations, Cleared, history
  <2>2. MessagesOf(Cleared(journal[a])) = MessagesOf(journal[a])
    BY Facts, ClearsTranslations
  <2> QED BY <1>4, <2>1, <2>2
<1>7. ASSUME NEW a \in Arias, NEW k \in Keys, NEW v \in Nat, ApplyEnd(a, k, v) \/ ApplyFails(a),
             stored' = stored, crashes' = crashes
      PROVE  Still
  <2>1. CASE ApplyFails(a)
    BY <1>7, <2>1 DEF ApplyFails, Still
  <2>2. CASE ApplyEnd(a, k, v)
    <3>1. PICK lt : lt = TailLT(a) + 1
      OBVIOUS
    <3>2. journal[a] \in Seq(Records) /\ lt \in Nat
      BY <3>1, Facts, Reads, ReadsType
    <3>3. PICK p : p = Patch(lt, k, v)
      OBVIOUS
    <3>4. p \in Of("chalk")
      BY <3>2, <3>3 DEF Patch, Of, Records
    <3>5. MessagesOf(journal[a] \o <<p>>) = MessagesOf(journal[a])
      BY <3>2, <3>4, PatchJoins
    <3>6. journal' = [journal EXCEPT ![a] = journal[a] \o <<p>>]
      BY <2>2, <3>1, <3>3 DEF ApplyEnd, Appended
    <3> QED BY <1>4, <1>7, <3>5, <3>6
  <2> QED BY <1>7, <2>1, <2>2
<1>8. "mantra" \in Keys /\ "aria_id" \in Keys
  BY DEF Keys
<1>9. ASSUME NEW a \in Arias, AgentApplyEnd(a) PROVE Still
  <2>1. Len(Patches(a)) \in Nat
    BY Facts, Reads, ReadsType
  <2>2. (ApplyEnd(a, "mantra", Len(Patches(a))) \/ ApplyFails(a)) /\ stored' = stored /\ crashes' = crashes
    BY <1>9 DEF AgentApplyEnd
  <2> QED BY <1>7, <1>8, <2>1, <2>2
<1>10. ASSUME StampEnd PROVE Still
  <2>1. PICK a \in Arias : a = fork.alt
    BY <1>10 DEF StoreInv, Types, Forks, StampEnd
  <2>2. (ApplyEnd(a, "aria_id", a) \/ ApplyFails(a)) /\ stored' = stored /\ crashes' = crashes
    BY <1>10, <2>1 DEF StampEnd, history
  <2>3. a \in Nat
    BY Facts
  <2> QED BY <1>7, <1>8, <2>2, <2>3
<1> QED BY <1>2, <1>3, <1>5, <1>6, <1>9, <1>10

\* Every step of the store is a step of the logs, or none.
LEMMA StoreSimulates ==
  ASSUME StoreInv, StoreInv', [Next]_vars
  PROVE  [Shared!LogNext]_(Shared!logVars)
<1>1. ReaderView = View /\ ReaderView' = View' /\ Types /\ stored \subseteq Arias
  BY ViewIs, ViewIsNext DEF StoreInv, Types
<1>2. ASSUME Still PROVE [Shared!LogNext]_(Shared!logVars)
  BY <1>1, <1>2, StillView DEF Still, Shared!logVars
<1>3. ASSUME NEW b \in Arias, b \notin stored, stored' = stored \cup {b}, crashes' = crashes,
             NEW m, m \in {<<Genesis>>, <<Genesis, Birth>>}, View' = [View EXCEPT ![b] = m]
      PROVE  Shared!LogNext
  <2>1. Shared!Begin(b)
    BY <1>1, <1>3 DEF Shared!Begin
  <2> QED BY <2>1 DEF Shared!LogNext
<1>4. ASSUME NEW a \in stored, NEW b \in Arias, b \notin stored, stored' = stored \cup {b}, crashes' = crashes,
             NEW n \in 0..Len(View[a]), View' = [View EXCEPT ![b] = SubSeq(View[a], 1, n)]
      PROVE  Shared!LogNext
  <2>1. Shared!Branch(a, b) /\ a \in Arias
    BY <1>1, <1>4 DEF Shared!Branch
  <2> QED BY <2>1 DEF Shared!LogNext
<1>5. ASSUME NEW a \in Arias, CreateConversation(a) PROVE Shared!LogNext
  <2>1. PICK j \in Seq(Records) : Spawn(a, Stump, j) /\ MessagesOf(j) \in {<<Genesis>>, <<Genesis, Birth>>}
    BY <1>5, CreateIs
  <2>2. a \notin stored /\ stored' = stored \cup {a} /\ View' = [View EXCEPT ![a] = MessagesOf(j)]
    BY <1>1, <2>1, SpawnView
  <2>3. crashes' = crashes
    BY <1>5 DEF CreateConversation, history
  <2> QED BY <1>3, <2>1, <2>2, <2>3
<1>6. ASSUME NEW a \in Arias, NEW at \in 0..TailLT(a), ForkTree(a, at) PROVE Shared!LogNext
  <2>1. PICK b \in Arias, above \in {a, Root, Stump}, j \in Seq(Records) :
          /\ Spawn(b, above, j) /\ a \in stored
          /\ \/ MessagesOf(j) \in {<<Genesis>>, <<Genesis, Birth>>}
             \/ \E n \in 0..Len(MessagesOf(journal[a])) : MessagesOf(j) = SubSeq(MessagesOf(journal[a]), 1, n)
    BY <1>1, <1>6, ForkIs
  <2>2. b \notin stored /\ stored' = stored \cup {b} /\ View' = [View EXCEPT ![b] = MessagesOf(j)]
    BY <1>1, <2>1, SpawnView
  <2>3. crashes' = crashes
    BY <1>6 DEF ForkTree, history
  <2>4. CASE MessagesOf(j) \in {<<Genesis>>, <<Genesis, Birth>>}
    BY <1>3, <2>2, <2>3, <2>4
  <2>5. CASE \E n \in 0..Len(MessagesOf(journal[a])) : MessagesOf(j) = SubSeq(MessagesOf(journal[a]), 1, n)
    <3>1. PICK n \in 0..Len(MessagesOf(journal[a])) : MessagesOf(j) = SubSeq(MessagesOf(journal[a]), 1, n)
      BY <2>5
    <3>2. View[a] = MessagesOf(journal[a])
      BY <2>1 DEF View
    <3>3. n \in 0..Len(View[a]) /\ View' = [View EXCEPT ![b] = SubSeq(View[a], 1, n)]
      BY <2>2, <3>1, <3>2
    <3> QED BY <1>4, <2>1, <2>2, <2>3, <3>3
  <2> QED BY <2>1, <2>4, <2>5
<1>7. ASSUME NEW a \in Arias, AppendIR(a) PROVE [Shared!LogNext]_(Shared!logVars)
  <2>1. CASE Still
    BY <1>2, <2>1
  <2>2. CASE ~Still
    <3>1. /\ a \in stored /\ stored' = stored /\ crashes' = crashes
          /\ \E m \in 1..MaxIR : View' = [View EXCEPT ![a] = Append(View[a], m)]
      BY <1>1, <1>7, <2>2, MessageView
    <3>2. Shared!AppendMessage(a)
      BY <1>1, <3>1 DEF Shared!AppendMessage
    <3> QED BY <3>2 DEF Shared!LogNext
  <2> QED BY <2>1, <2>2
<1>8. ASSUME NEW rec \in BOOLEAN, RemoveLeaf(rec) PROVE [Shared!LogNext]_(Shared!logVars)
  <2>1. stored' \subseteq stored /\ crashes' = crashes /\ \A a \in stored' : journal'[a] = journal[a]
    BY <1>1, <1>8, LeafIs
  <2>2. CASE stored' = stored
    BY <1>2, <2>1, <2>2 DEF Still
  <2>3. CASE stored' # stored
    <3>1. View' = [a \in Arias |-> IF a \in stored' THEN View[a] ELSE <<>>]
      BY <1>1, <2>1 DEF View
    <3>2. Shared!RemoveLogs
      BY <1>1, <2>1, <2>3, <3>1 DEF Shared!RemoveLogs
    <3> QED BY <3>2 DEF Shared!LogNext
  <2> QED BY <2>2, <2>3
<1>9. ASSUME Crash PROVE Shared!LogNext
  <2>1. /\ stored' = stored /\ crashes' = crashes + 1 /\ journal' \in [Arias -> Seq(Records)]
        /\ \A a \in stored : \E k \in 0..Len(journal[a]) : journal'[a] = SubSeq(journal[a], 1, k)
    BY <1>1, <1>9, CrashIs DEF Crash
  <2>2. ASSUME NEW a \in Arias PROVE IsPrefix(View'[a], View[a])
    <3>1. CASE a \in stored
      <4>1. PICK k \in 0..Len(journal[a]) : journal'[a] = SubSeq(journal[a], 1, k)
        BY <2>1, <3>1
      <4>2. journal[a] \in Seq(Records) /\ journal'[a] \in Seq(Records)
        BY <1>1, <2>1 DEF Types
      <4>3. OnChannel(journal[a], "ir") \in Seq(Of("ir")) /\ OnChannel(journal'[a], "ir") \in Seq(Of("ir"))
        BY <4>2, ChannelType
      <4>4. IsPrefix(OnChannel(journal'[a], "ir"), OnChannel(journal[a], "ir"))
        BY <4>1, <4>2, ChannelPrefix
      <4>5. IsPrefix(MessagesOf(journal'[a]), MessagesOf(journal[a]))
        BY <4>3, <4>4, ValuesPrefix DEF MessagesOf
      <4>6. View'[a] = MessagesOf(journal'[a]) /\ View[a] = MessagesOf(journal[a])
        BY <2>1, <3>1 DEF View
      <4> QED BY <4>5, <4>6
    <3>2. CASE a \notin stored
      <4>1. View'[a] = <<>> /\ View[a] = <<>>
        BY <2>1, <3>2 DEF View
      <4>2. Len(<<>>) = 0
        OBVIOUS
      <4> QED BY <4>1, <4>2, PrefixSelf
    <3> QED BY <3>1, <3>2
  <2>3. Shared!LoseTails
    BY <1>1, <2>1, <2>2 DEF Shared!LoseTails, Shared!IsPrefix, IsPrefix
  <2> QED BY <2>3 DEF Shared!LogNext
<1>10. ASSUME \/ TopologySnapshot \/ CreateStump \/ WriteStumpBirth \/ SeedForkMeta \/ StampBegin \/ StampEnd \/ UNCHANGED vars
              \/ \E a \in Arias : \/ ReadPage(a) \/ ChalkboardState(a) \/ Attach(a) \/ Detach(a) \/ AppendTranslation(a)
                                  \/ ClearTranslations(a) \/ AgentApplyBegin(a) \/ AgentApplyEnd(a) \/ Promote(a)
                                  \/ RemoveCaches(a)
       PROVE  [Shared!LogNext]_(Shared!logVars)
  <2>1. Still
    BY <1>10, StillSteps
  <2> QED BY <1>2, <2>1
<1> QED BY <1>5, <1>6, <1>7, <1>8, <1>9, <1>10 DEF Next, Begin, Continue

\* The store implements one append-only log per aria: whoever opens an aria,
\* whether its handle was there or is made now, sees a log that grows at its
\* end, starts at birth or as a prefix of the one it was forked from, and loses
\* at most a tail when the process dies.
THEOREM StoreIsSharedLog ==
  ASSUME NoLate PROVE Spec => SharedLog
<1>1. Init => Shared!LogInit
  <2> SUFFICES ASSUME Init PROVE Shared!LogInit
    OBVIOUS
  <2>1. ReaderView = [a \in Arias |-> <<>>]
    BY DEF ReaderView, Init
  <2> QED BY <2>1 DEF Init, Shared!LogInit
<1>2. StoreInv /\ StoreInv' /\ [Next]_vars => [Shared!LogNext]_(Shared!logVars)
  BY StoreSimulates
<1>3. Spec => []StoreInv
  BY StoreAlways
<1> QED BY <1>1, <1>2, <1>3, PTL DEF Spec, SharedLog, Shared!LogSpec
=============================================================================
