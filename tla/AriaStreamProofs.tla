-------------------------- MODULE AriaStreamProofs --------------------------
(***************************************************************************)
(* Proofs about LiveDoc and AriaStream, for every value of their           *)
(* constants.                                                              *)
(***************************************************************************)
EXTENDS AriaStream, TLAPS, SequenceTheorems, FiniteSetTheorems, WellFoundedInduction

-----------------------------------------------------------------------------
(* Least and greatest numbers *)

\* A set of naturals has a least element,
LEMMA LeastOf ==
  ASSUME NEW S, S \subseteq Nat, S # {} PROVE \E i \in S : \A j \in S : i <= j
<1>1. IsWellFoundedOn(OpToRel(<, Nat), Nat)
  BY NatLessThanWellFounded
<1>2. PICK i \in S : \A j \in S : ~ (<<j, i>> \in OpToRel(<, Nat))
  BY <1>1, WFMin
<1>3. \A j \in S : ~ (j < i)
  BY <1>2 DEF OpToRel
<1> QED BY <1>3

\* and one that is bounded a greatest.
LEMMA GreatestOf ==
  ASSUME NEW n \in Nat, NEW S, S \subseteq 0..n, S # {}
  PROVE  \E k \in S : \A j \in (k + 1)..n : j \notin S
<1> DEFINE T == {m \in 0..n : n - m \in S}
<1>1. T \subseteq Nat /\ T # {}
  <2>1. PICK k \in S : TRUE
    OBVIOUS
  <2>2. n - k \in 0..n /\ n - (n - k) = k
    BY <2>1
  <2>3. n - k \in T
    BY <2>1, <2>2
  <2>4. \A m \in T : m \in Nat
    OBVIOUS
  <2> HIDE DEF T
  <2> QED BY <2>3, <2>4
<1>2. PICK m \in T : \A j \in T : m <= j
  BY <1>1, LeastOf
<1>3. n - m \in S
  BY <1>2
<1>4. ASSUME NEW j \in (n - m + 1)..n, j \in S PROVE FALSE
  <2>1. n - j \in 0..n /\ n - (n - j) = j
    BY <1>2, <1>4
  <2>2. n - j \in T
    BY <1>4, <2>1
  <2> QED BY <1>2, <1>4, <2>1, <2>2
<1> QED BY <1>3, <1>4

-----------------------------------------------------------------------------
(* livedoc: Diff and Apply *)

\* A stretch of a sequence,
LEMMA Stretch ==
  ASSUME NEW S, NEW s \in Seq(S), NEW f \in Nat, NEW k \in Nat, f + k <= Len(s)
  PROVE  /\ SubSeq(s, f + 1, f + k) \in Seq(S)
         /\ Len(SubSeq(s, f + 1, f + k)) = k
         /\ \A i \in 1..k : SubSeq(s, f + 1, f + k)[i] = s[f + i]
<1>1. \A i \in (f + 1)..(f + k) : s[i] \in S
  BY ElementOfSeq, LenProperties
<1>2. f + 1 \in Int /\ f + k \in Int /\ (f + k) - (f + 1) + 1 = k /\ (f + 1 <= f + k <=> k # 0)
      /\ \A i \in 1..k : f + 1 + i - 1 = f + i
  OBVIOUS
<1>3. SubSeq(s, f + 1, f + k) \in Seq(S)
  BY <1>1, <1>2, SubSeqProperties
<1>4. Len(SubSeq(s, f + 1, f + k)) = k
  BY <1>1, <1>2, SubSeqProperties
<1>5. \A i \in 1..k : SubSeq(s, f + 1, f + k)[i] = s[f + 1 + i - 1]
  BY <1>1, <1>2, SubSeqProperties
<1> QED BY <1>2, <1>3, <1>4, <1>5

\* and two sequences in a row.
LEMMA Joined ==
  ASSUME NEW S, NEW x \in Seq(S), NEW y \in Seq(S)
  PROVE  /\ x \o y \in Seq(S) /\ Len(x \o y) = Len(x) + Len(y)
         /\ \A i \in 1..Len(x) : (x \o y)[i] = x[i]
         /\ \A i \in 1..Len(y) : (x \o y)[Len(x) + i] = y[i]
<1>0. Len(x) \in Nat /\ Len(y) \in Nat
  BY LenProperties
<1>1. x \o y \in Seq(S) /\ Len(x \o y) = Len(x) + Len(y)
  BY ConcatProperties
<1>2. \A i \in 1..(Len(x) + Len(y)) : (x \o y)[i] = IF i <= Len(x) THEN x[i] ELSE y[i - Len(x)]
  BY ConcatProperties
<1>3. \A i \in 1..Len(x) : i \in 1..(Len(x) + Len(y)) /\ i <= Len(x)
  BY <1>0
<1>4. \A i \in 1..Len(y) : Len(x) + i \in 1..(Len(x) + Len(y)) /\ ~(Len(x) + i <= Len(x)) /\ Len(x) + i - Len(x) = i
  BY <1>0
<1> QED BY <1>1, <1>2, <1>3, <1>4

\* What is common in front,
LEMMA PrefixCommon ==
  ASSUME NEW old \in Seq(Bytes), NEW new \in Seq(Bytes)
  PROVE  /\ CommonPrefix(old, new) \in Nat
         /\ CommonPrefix(old, new) <= Len(old) /\ CommonPrefix(old, new) <= Len(new)
         /\ \A i \in 1..CommonPrefix(old, new) : old[i] = new[i]
<1> DEFINE a == CommonPrefix(old, new)
           n == AtMost(Len(old), Len(new))
           Same(k) == SubSeq(old, 1, k) = SubSeq(new, 1, k)
<1>1. n \in Nat /\ n <= Len(old) /\ n <= Len(new)
  BY LenProperties DEF AtMost
<1>2. \E k \in 0..n : Same(k) /\ \A j \in (k + 1)..n : ~Same(j)
  <2>1. {k \in 0..n : Same(k)} # {}
    <3>1. SubSeq(old, 1, 0) = <<>> /\ SubSeq(new, 1, 0) = <<>>
      BY SubSeqEmpty
    <3> QED BY <1>1, <3>1
  <2> HIDE DEF Same, n
  <2>2. PICK k \in {k \in 0..n : Same(k)} : \A j \in (k + 1)..n : j \notin {i \in 0..n : Same(i)}
    BY <1>1, <2>1, GreatestOf
  <2>3. \A j \in (k + 1)..n : j \in 0..n
    BY <1>1, <2>2
  <2> QED BY <2>2, <2>3
<1>3. a \in 0..n /\ Same(a)
  BY <1>2 DEF CommonPrefix, LargestUpTo
<1>a. SubSeq(old, 1, a) = SubSeq(new, 1, a)
  BY <1>3
<1> HIDE DEF a, n, Same
<1>4. a \in Nat /\ a <= Len(old) /\ a <= Len(new)
  BY <1>1, <1>3, LenProperties
<1>5. ASSUME NEW i \in 1..a PROVE old[i] = new[i]
  <2>1. 0 + 1 = 1 /\ 0 + a = a /\ 0 + i = i
    BY <1>4
  <2>2. SubSeq(old, 0 + 1, 0 + a)[i] = old[0 + i] /\ SubSeq(new, 0 + 1, 0 + a)[i] = new[0 + i]
    BY <1>4, <1>5, <2>1, Stretch
  <2> QED BY <1>a, <2>1, <2>2
<1> QED BY <1>4, <1>5 DEF a

\* and behind.
LEMMA SuffixCommon ==
  ASSUME NEW old \in Seq(Bytes), NEW new \in Seq(Bytes), NEW a \in Nat, a <= Len(old), a <= Len(new)
  PROVE  LET z == CommonSuffix(old, new, a)
         IN /\ z \in Nat /\ a + z <= Len(old) /\ a + z <= Len(new)
            /\ \A i \in 1..z : old[Len(old) - z + i] = new[Len(new) - z + i]
<1> DEFINE z == CommonSuffix(old, new, a)
           n == AtMost(Len(old), Len(new)) - a
           Same(k) == SubSeq(old, Len(old) - k + 1, Len(old)) = SubSeq(new, Len(new) - k + 1, Len(new))
<1>1. a \in Nat /\ n \in Nat /\ a + n <= Len(old) /\ a + n <= Len(new) /\ Len(old) \in Nat /\ Len(new) \in Nat
  BY LenProperties DEF AtMost
<1>2. \E k \in 0..n : Same(k) /\ \A j \in (k + 1)..n : ~Same(j)
  <2>1. {k \in 0..n : Same(k)} # {}
    <3>1. SubSeq(old, Len(old) - 0 + 1, Len(old)) = <<>> /\ SubSeq(new, Len(new) - 0 + 1, Len(new)) = <<>>
      BY <1>1, SubSeqEmpty
    <3>2. Same(0) /\ 0 \in 0..n
      BY <1>1, <3>1
    <3> HIDE DEF Same, n
    <3> QED BY <3>2
  <2> HIDE DEF Same, n
  <2>2. PICK k \in {k \in 0..n : Same(k)} : \A j \in (k + 1)..n : j \notin {i \in 0..n : Same(i)}
    BY <1>1, <2>1, GreatestOf
  <2>3. \A j \in (k + 1)..n : j \in 0..n
    BY <1>1, <2>2
  <2> QED BY <2>2, <2>3
<1>3. z \in 0..n /\ Same(z)
  BY <1>2 DEF CommonSuffix, LargestUpTo
<1>4. z \in Nat /\ a + z <= Len(old) /\ a + z <= Len(new)
  <2> HIDE DEF Same, n
  <2> QED BY <1>1, <1>3
<1>a. SubSeq(old, Len(old) - z + 1, Len(old)) = SubSeq(new, Len(new) - z + 1, Len(new))
  BY <1>3
<1> HIDE DEF Same, n, z
<1>5. ASSUME NEW i \in 1..z PROVE old[Len(old) - z + i] = new[Len(new) - z + i]
  <2>0. Len(old) - z \in Nat /\ Len(new) - z \in Nat
    BY <1>1, <1>4
  <2>1. PICK p \in Nat : p = Len(old) - z
    BY <2>0
  <2>2. PICK q \in Nat : q = Len(new) - z
    BY <2>0
  <2>3. p + z = Len(old) /\ q + z = Len(new)
    BY <1>1, <1>4, <2>1, <2>2
  <2>4. SubSeq(old, p + 1, p + z) = SubSeq(new, q + 1, q + z)
    BY <1>a, <2>1, <2>2, <2>3
  <2>5. SubSeq(old, p + 1, p + z)[i] = old[p + i] /\ SubSeq(new, q + 1, q + z)[i] = new[q + i]
    <3>1. p + z <= Len(old) /\ q + z <= Len(new)
      BY <1>1, <2>3
    <3> QED BY <1>4, <1>5, <3>1, Stretch
  <2> QED BY <2>1, <2>2, <2>4, <2>5
<1> QED BY <1>4, <1>5 DEF z

\* Where Diff cuts: the stretches before and behind are common, and each cut of
\* the old text is at an end or before a rune.
LEMMA DiffCuts ==
  ASSUME NEW old \in Seq(Bytes), NEW new \in Seq(Bytes)
  PROVE  \E from \in Nat, kept \in Nat, d \in Nat, n \in Nat :
           /\ Diff(old, new) = [at |-> from, del |-> d, ins |-> SubSeq(new, from + 1, from + n)]
           /\ Len(old) = from + d + kept /\ Len(new) = from + n + kept
           /\ \A i \in 1..from : old[i] = new[i]
           /\ \A i \in 1..kept : old[from + d + i] = new[from + n + i]
           /\ from = 0 \/ from = Len(old) \/ RuneStart(old[from + 1])
           /\ kept = 0 \/ RuneStart(old[from + d + 1])
<1> DEFINE a       == CommonPrefix(old, new)
           z       == CommonSuffix(old, new, a)
           Fore(k) == k = 0 \/ k = Len(old) \/ RuneStart(old[k + 1])
           Foot(k) == k = 0 \/ RuneStart(old[Len(old) - k + 1])
           from    == CHOOSE k \in 0..a : Fore(k) /\ \A j \in (k + 1)..a : ~Fore(j)
           kept    == CHOOSE k \in 0..z : Foot(k) /\ \A j \in (k + 1)..z : ~Foot(j)
<1>1. a \in Nat /\ a <= Len(old) /\ a <= Len(new) /\ \A i \in 1..a : old[i] = new[i]
  BY PrefixCommon
<1>2. /\ z \in Nat /\ a + z <= Len(old) /\ a + z <= Len(new)
      /\ \A i \in 1..z : old[Len(old) - z + i] = new[Len(new) - z + i]
  BY <1>1, SuffixCommon
<1>3. Diff(old, new) = [at |-> from, del |-> Len(old) - from - kept,
                        ins |-> SubSeq(new, from + 1, Len(new) - kept)]
  BY DEF Diff, LargestUpTo
<1>4. Fore(0) /\ Foot(0) /\ Len(old) \in Nat /\ Len(new) \in Nat
  BY LenProperties
<1> HIDE DEF a, z
<1>5. from \in 0..a /\ Fore(from)
  <2> DEFINE S == {k \in 0..a : Fore(k)}
  <2>1. S \subseteq 0..a /\ 0 \in S
    BY <1>1, <1>4
  <2>2. PICK k \in S : \A j \in (k + 1)..a : j \notin S
    <3> HIDE DEF S
    <3> QED BY <1>1, <2>1, GreatestOf
  <2>3. \A j \in (k + 1)..a : j \in 0..a
    BY <1>1, <2>2
  <2> HIDE DEF Fore
  <2>4. k \in 0..a /\ Fore(k) /\ \A j \in (k + 1)..a : ~Fore(j)
    BY <2>2, <2>3
  <2> QED BY <2>4
<1>6. kept \in 0..z /\ Foot(kept)
  <2> DEFINE S == {k \in 0..z : Foot(k)}
  <2>1. S \subseteq 0..z /\ 0 \in S
    BY <1>2, <1>4
  <2>2. PICK k \in S : \A j \in (k + 1)..z : j \notin S
    <3> HIDE DEF S
    <3> QED BY <1>2, <2>1, GreatestOf
  <2>3. \A j \in (k + 1)..z : j \in 0..z
    BY <1>2, <2>2
  <2> HIDE DEF Foot
  <2>4. k \in 0..z /\ Foot(k) /\ \A j \in (k + 1)..z : ~Foot(j)
    BY <2>2, <2>3
  <2> QED BY <2>4
<1> HIDE DEF from, kept
<1>7. from \in Nat /\ kept \in Nat /\ from + kept <= Len(old) /\ from + kept <= Len(new)
  BY <1>1, <1>2, <1>4, <1>5, <1>6
<1>8. \A i \in 1..from : old[i] = new[i]
  BY <1>1, <1>5
<1> HIDE DEF Fore, Foot
<1>a. Len(old) - from - kept \in Nat /\ Len(new) - from - kept \in Nat
  BY <1>4, <1>7
<1>9. PICK d \in Nat : d = Len(old) - from - kept
  BY <1>a
<1>10. PICK n \in Nat : n = Len(new) - from - kept
  BY <1>a
<1>11. /\ Len(old) = from + d + kept /\ Len(new) = from + n + kept
       /\ Len(new) - kept = from + n /\ Len(old) - kept = from + d
  BY <1>4, <1>7, <1>9, <1>10
<1>12. ASSUME NEW i \in 1..kept PROVE old[from + d + i] = new[from + n + i]
  <2>1. z - kept + i \in 1..z
    BY <1>2, <1>6, <1>12
  <2>2. Len(old) - z + (z - kept + i) = from + d + i /\ Len(new) - z + (z - kept + i) = from + n + i
    BY <1>2, <1>4, <1>7, <1>11, <1>12
  <2> QED BY <1>2, <2>1, <2>2
<1>13. Diff(old, new) = [at |-> from, del |-> d, ins |-> SubSeq(new, from + 1, from + n)]
  BY <1>3, <1>9, <1>11
<1>14. from = 0 \/ from = Len(old) \/ RuneStart(old[from + 1])
  BY <1>5 DEF Fore
<1>15. kept = 0 \/ RuneStart(old[from + d + 1])
  BY <1>6, <1>11 DEF Foot
<1> QED BY <1>7, <1>8, <1>11, <1>12, <1>13, <1>14, <1>15

\* Folding the splice into the old text makes the new one (livedoc.Diff,
\* livedoc.Apply).
THEOREM DiffApplies ==
  ASSUME NEW old \in Seq(Bytes), NEW new \in Seq(Bytes)
  PROVE  Apply(old, Diff(old, new)) = new
<1>1. PICK from \in Nat, kept \in Nat, d \in Nat, n \in Nat :
           /\ Diff(old, new) = [at |-> from, del |-> d, ins |-> SubSeq(new, from + 1, from + n)]
           /\ Len(old) = from + d + kept /\ Len(new) = from + n + kept
           /\ \A i \in 1..from : old[i] = new[i]
           /\ \A i \in 1..kept : old[from + d + i] = new[from + n + i]
           /\ from = 0 \/ from = Len(old) \/ RuneStart(old[from + 1])
           /\ kept = 0 \/ RuneStart(old[from + d + 1])
  BY DiffCuts
<1>2. Len(old) \in Nat /\ Len(new) \in Nat
  BY LenProperties
<1>3. PICK x, y, t : /\ x = SubSeq(old, 0 + 1, 0 + from) /\ y = SubSeq(new, from + 1, from + n)
                     /\ t = SubSeq(old, (from + d) + 1, (from + d) + kept)
  OBVIOUS
<1>4. Apply(old, Diff(old, new)) = x \o y \o t
  <2>e. (from + d) + kept = Len(old) /\ from <= Len(old) /\ from + d <= Len(old)
    <3>1. Len(old) = from + d + kept
      BY <1>1
    <3> QED BY <3>1
  <2>1. /\ AtMost(from, Len(old)) = from /\ AtMost(from + d, Len(old)) = from + d
        /\ 0 + 1 = 1 /\ 0 + from = from /\ (from + d) + kept = Len(old)
    BY <2>e DEF AtMost
  <2>a. PICK f : f = Diff(old, new)
    OBVIOUS
  <2>d. f = [at |-> from, del |-> d, ins |-> y]
    BY <1>1, <1>3, <2>a
  <2>b. f.at = from /\ f.del = d /\ f.ins = y
    BY <2>d
  <2>c. Apply(old, f) = SubSeq(old, 1, from) \o y \o SubSeq(old, from + d + 1, Len(old))
    BY <2>1, <2>b DEF Apply
  <2>2. Apply(old, Diff(old, new)) = SubSeq(old, 1, from) \o y \o SubSeq(old, from + d + 1, Len(old))
    BY <2>a, <2>c
  <2> QED BY <1>3, <2>1, <2>2
<1>5. x \in Seq(Bytes) /\ Len(x) = from /\ \A i \in 1..from : x[i] = old[i]
  <2>1. 0 + from <= Len(old) /\ 0 \in Nat /\ \A i \in 1..from : 0 + i = i
    BY <1>1
  <2> QED BY <1>3, <2>1, Stretch
<1>6. y \in Seq(Bytes) /\ Len(y) = n /\ \A i \in 1..n : y[i] = new[from + i]
  <2>1. from + n <= Len(new)
    BY <1>1
  <2> QED BY <1>3, <2>1, Stretch
<1>7. t \in Seq(Bytes) /\ Len(t) = kept /\ \A i \in 1..kept : t[i] = old[(from + d) + i]
  <2>1. (from + d) + kept <= Len(old) /\ from + d \in Nat
    BY <1>1
  <2> QED BY <1>3, <2>1, Stretch
<1>8. PICK u : u = x \o y
  OBVIOUS
<1>9. /\ u \in Seq(Bytes) /\ Len(u) = from + n /\ from + n \in Nat
      /\ \A i \in 1..from : u[i] = new[i]
      /\ \A i \in 1..n : u[from + i] = new[from + i]
  <2>1. /\ x \o y \in Seq(Bytes) /\ Len(x \o y) = from + n
        /\ \A i \in 1..from : (x \o y)[i] = x[i]
        /\ \A i \in 1..n : (x \o y)[from + i] = y[i]
    <3>1. x \in Seq(Bytes) /\ y \in Seq(Bytes) /\ Len(x) = from /\ Len(y) = n
      BY <1>5, <1>6
    <3>2. /\ x \o y \in Seq(Bytes) /\ Len(x \o y) = Len(x) + Len(y)
          /\ \A i \in 1..Len(x) : (x \o y)[i] = x[i]
          /\ \A i \in 1..Len(y) : (x \o y)[Len(x) + i] = y[i]
      <4>1. x \in Seq(Bytes) /\ y \in Seq(Bytes)
        BY <3>1
      <4> QED BY <4>1, Joined
    <3> QED BY <3>1, <3>2
  <2>2. \A i \in 1..from : x[i] = new[i]
    BY <1>1, <1>5
  <2>3. (\A i \in 1..n : y[i] = new[from + i]) /\ from + n \in Nat
    BY <1>6
  <2> QED BY <1>8, <2>1, <2>2, <2>3
<1>10. /\ u \o t \in Seq(Bytes) /\ Len(u \o t) = (from + n) + kept
       /\ \A i \in 1..(from + n) : (u \o t)[i] = u[i]
       /\ \A i \in 1..kept : (u \o t)[(from + n) + i] = new[(from + n) + i]
  <2>1. /\ u \o t \in Seq(Bytes) /\ Len(u \o t) = (from + n) + kept
        /\ \A i \in 1..(from + n) : (u \o t)[i] = u[i]
        /\ \A i \in 1..kept : (u \o t)[(from + n) + i] = t[i]
    <3>1. u \in Seq(Bytes) /\ t \in Seq(Bytes) /\ from + n \in Nat /\ Len(u) = from + n /\ Len(t) = kept
      BY <1>7, <1>9
    <3>2. /\ u \o t \in Seq(Bytes) /\ Len(u \o t) = Len(u) + Len(t)
          /\ \A i \in 1..Len(u) : (u \o t)[i] = u[i]
          /\ \A i \in 1..Len(t) : (u \o t)[Len(u) + i] = t[i]
      <4>1. u \in Seq(Bytes) /\ t \in Seq(Bytes)
        BY <3>1
      <4> QED BY <4>1, Joined
    <3> QED BY <3>1, <3>2
  <2> QED BY <1>1, <1>7, <2>1
<1>11. ASSUME NEW i \in 1..(from + n + kept) PROVE (u \o t)[i] = new[i]
  <2>1. CASE i <= from
    BY <1>9, <1>10, <1>11, <2>1
  <2>2. CASE from < i /\ i <= from + n
    <3>1. i - from \in 1..n /\ from + (i - from) = i /\ i \in 1..(from + n)
      BY <1>11, <2>2
    <3> QED BY <1>9, <1>10, <3>1
  <2>3. CASE from + n < i
    <3>1. i - (from + n) \in 1..kept /\ (from + n) + (i - (from + n)) = i
      BY <1>11, <2>3
    <3> QED BY <1>10, <3>1
  <2>4. i <= from \/ (from < i /\ i <= from + n) \/ from + n < i
    BY <1>11
  <2> QED BY <2>1, <2>2, <2>3, <2>4
<1>12. u \o t = new
  BY <1>1, <1>10, <1>11, SeqEqual
<1> QED BY <1>4, <1>8, <1>12

\* What it inserts splits no rune, when neither text does.
LEMMA DiffWhole ==
  ASSUME NEW old \in Seq(Bytes), NEW new \in Seq(Bytes), Valid(old), Valid(new)
  PROVE  Valid(Diff(old, new).ins) /\ Diff(old, new) \in Splice
<1>1. PICK from \in Nat, kept \in Nat, d \in Nat, n \in Nat :
           /\ Diff(old, new) = [at |-> from, del |-> d, ins |-> SubSeq(new, from + 1, from + n)]
           /\ Len(old) = from + d + kept /\ Len(new) = from + n + kept
           /\ \A i \in 1..from : old[i] = new[i]
           /\ \A i \in 1..kept : old[from + d + i] = new[from + n + i]
           /\ from = 0 \/ from = Len(old) \/ RuneStart(old[from + 1])
           /\ kept = 0 \/ RuneStart(old[from + d + 1])
  BY DiffCuts
<1>2. Len(old) \in Nat /\ Len(new) \in Nat
  BY LenProperties
<1>a. PICK y : y = SubSeq(new, from + 1, from + n)
  OBVIOUS
<1>3. y \in Seq(Bytes) /\ Len(y) = n /\ \A i \in 1..n : y[i] = new[from + i]
  <2>1. from + n <= Len(new)
    BY <1>1
  <2> QED BY <1>a, <2>1, Stretch
<1>4. from > 0 => new[from] \notin Lead
  <2> SUFFICES ASSUME from > 0, new[from] \in Lead PROVE FALSE
    OBVIOUS
  <2>1. from \in 1..Len(old) /\ old[from] \in Lead
    BY <1>1, <1>2
  <2>2. from < Len(old) /\ old[from + 1] \in Continuation
    BY <2>1 DEF Valid
  <2> QED BY <1>1, <1>2, <2>2 DEF RuneStart
<1>5. kept > 0 => new[from + n + 1] \notin Continuation
  <2> SUFFICES ASSUME kept > 0 PROVE new[from + n + 1] \notin Continuation
    OBVIOUS
  <2>1. 1 \in 1..kept
    OBVIOUS
  <2>2. new[from + n + 1] = old[from + d + 1]
    BY <1>1, <2>1
  <2> QED BY <1>1, <2>2 DEF RuneStart
<1>6. ASSUME NEW i \in 1..n, y[i] \in Lead PROVE i < n /\ y[i + 1] \in Continuation
  <2>1. from + i \in 1..Len(new) /\ new[from + i] \in Lead
    BY <1>1, <1>2, <1>3, <1>6
  <2>2. from + i < Len(new) /\ new[from + i + 1] \in Continuation
    BY <2>1 DEF Valid
  <2>3. i # n
    <3> SUFFICES ASSUME i = n PROVE FALSE
      OBVIOUS
    <3>1. kept > 0
      BY <1>1, <2>2
    <3> QED BY <1>5, <2>2, <3>1
  <2>4. i < n /\ i + 1 \in 1..n /\ from + (i + 1) = from + i + 1
    BY <2>3
  <2> QED BY <1>3, <2>2, <2>4
<1>7. ASSUME NEW i \in 1..n, y[i] \in Continuation PROVE i > 1 /\ y[i - 1] \in Lead
  <2>1. from + i \in 1..Len(new) /\ new[from + i] \in Continuation
    BY <1>1, <1>2, <1>3, <1>7
  <2>2. from + i > 1 /\ new[from + i - 1] \in Lead
    BY <2>1 DEF Valid
  <2>3. i # 1
    <3> SUFFICES ASSUME i = 1 PROVE FALSE
      OBVIOUS
    <3>1. from > 0 /\ from + i - 1 = from
      BY <2>2
    <3> QED BY <1>4, <2>2, <3>1
  <2>4. i > 1 /\ i - 1 \in 1..n /\ from + (i - 1) = from + i - 1
    BY <2>3
  <2> QED BY <1>3, <2>2, <2>4
<1>8. Valid(y)
  BY <1>3, <1>6, <1>7 DEF Valid
<1>9. Diff(old, new) \in Splice
  BY <1>1, <1>a, <1>3 DEF Splice
<1> QED BY <1>1, <1>a, <1>8, <1>9

-----------------------------------------------------------------------------
(* Induction and recursion up to a bound *)

\* What holds of 0 and, if of k, of k + 1, holds up to n.
LEMMA UpTo ==
  ASSUME NEW n \in Nat, NEW T, 0 \in T, \A k \in 0..(n - 1) : k \in T => k + 1 \in T
  PROVE  \A k \in 0..n : k \in T
<1> SUFFICES ASSUME NEW c \in 0..n, c \notin T PROVE FALSE
  OBVIOUS
<1> DEFINE S == {k \in 0..n : k \notin T}
<1>1. S # {} /\ S \subseteq Nat
  <2>1. c \in S /\ \A k \in S : k \in Nat
    OBVIOUS
  <2> HIDE DEF S
  <2> QED BY <2>1
<1>2. PICK m \in S : \A j \in S : m <= j
  BY <1>1, LeastOf
<1>3. m \in 0..n /\ m \notin T /\ m # 0
  BY <1>2
<1>4. m - 1 \in 0..(n - 1) /\ m - 1 \in 0..n /\ ~(m <= m - 1) /\ (m - 1) + 1 = m
  BY <1>3
<1>5. m - 1 \in T
  BY <1>2, <1>4
<1> QED BY <1>3, <1>4, <1>5

\* A function with a given start and step.
Stepwise(n, D, step) == \A k \in 1..n : \A d \in D : step[<<k, d>>] \in D

LEMMA Recursion ==
  ASSUME NEW n \in Nat, NEW D, NEW b \in D, NEW step, Stepwise(n, D, step)
  PROVE  \E f \in [0..n -> D] : f[0] = b /\ \A k \in 1..n : f[k] = step[<<k, f[k - 1]>>]
<1> DEFINE Runs(m, f) == f[0] = b /\ \A k \in 1..m : f[k] = step[<<k, f[k - 1]>>]
           T == {m \in 0..n : \E f \in [0..m -> D] : Runs(m, f)}
<1>1. 0 \in T
  <2>1. [i \in 0..0 |-> b] \in [0..0 -> D] /\ Runs(0, [i \in 0..0 |-> b])
    OBVIOUS
  <2> HIDE DEF Runs
  <2> QED BY <2>1
<1>2. ASSUME NEW m \in 0..(n - 1), m \in T PROVE m + 1 \in T
  <2>1. PICK f \in [0..m -> D] : Runs(m, f)
    BY <1>2
  <2>2. PICK e : e = step[<<m + 1, f[m]>>]
    OBVIOUS
  <2>3. e \in D
    <3>1. m + 1 \in 1..n /\ m \in 0..m
      BY <1>2
    <3>2. f[m] \in D
      BY <3>1
    <3>3. \A k \in 1..n : \A d \in D : step[<<k, d>>] \in D
      BY DEF Stepwise
    <3> QED BY <2>2, <3>1, <3>2, <3>3
  <2>4. PICK g : g = [i \in 0..(m + 1) |-> IF i = m + 1 THEN e ELSE f[i]]
    OBVIOUS
  <2>5. g \in [0..(m + 1) -> D]
    BY <1>2, <2>3, <2>4
  <2>6. g[m + 1] = e /\ \A i \in 0..m : g[i] = f[i]
    BY <1>2, <2>4
  <2>7. ASSUME NEW k \in 1..(m + 1) PROVE g[k] = step[<<k, g[k - 1]>>]
    <3>1. CASE k = m + 1
      <4>1. k - 1 = m /\ m \in 0..m
        BY <1>2, <3>1
      <4> QED BY <2>2, <2>6, <3>1, <4>1
    <3>2. CASE k # m + 1
      <4>1. k \in 1..m /\ k \in 0..m /\ k - 1 \in 0..m
        BY <1>2, <2>7, <3>2
      <4> QED BY <2>1, <2>6, <4>1
    <3> QED BY <3>1, <3>2
  <2>8. g[0] = b
    BY <1>2, <2>1, <2>6
  <2>9. Runs(m + 1, g)
    BY <2>7, <2>8
  <2>10. m + 1 \in 0..n
    BY <1>2
  <2> HIDE DEF Runs
  <2> QED BY <2>5, <2>9, <2>10
<1> HIDE DEF T
<1>3. \A m \in 0..n : m \in T
  BY <1>1, <1>2, UpTo
<1>4. n \in T
  BY <1>3
<1> QED BY <1>4 DEF T

-----------------------------------------------------------------------------
(* Parts of a sequence *)

LEMMA PickedRuns ==
  ASSUME NEW S, NEW s \in Seq(S), NEW I
  PROVE  \E G : /\ Picked(s, I) = G[Len(s)] /\ G[0] = <<>>
                /\ \A k \in 1..Len(s) : G[k] = IF k \in I THEN Append(G[k - 1], s[k]) ELSE G[k - 1]
<1>0. PICK n : n = Len(s)
  OBVIOUS
<1> DEFINE G == CHOOSE Upto : Upto = [k \in 0..Len(s) |->
                  IF k = 0 THEN <<>> ELSE IF k \in I THEN Append(Upto[k - 1], s[k]) ELSE Upto[k - 1]]
           step == [x \in (1..n) \X Seq(S) |-> IF x[1] \in I THEN Append(x[2], s[x[1]]) ELSE x[2]]
<1>1. n \in Nat
  BY <1>0, LenProperties
<1>2. \A k \in 1..n : \A t \in Seq(S) : step[<<k, t>>] \in Seq(S)
  <2>1. \A k \in 1..n, t \in Seq(S) : Append(t, s[k]) \in Seq(S)
    BY <1>0, ElementOfSeq, AppendProperties
  <2> QED BY <2>1
<1>3. <<>> \in Seq(S)
  BY EmptySeq
<1>4. PICK f \in [0..n -> Seq(S)] : f[0] = <<>> /\ \A k \in 1..n : f[k] = step[<<k, f[k - 1]>>]
  <2>1. PICK D, g, b : D = Seq(S) /\ g = step /\ b = <<>>
    OBVIOUS
  <2> HIDE DEF step
  <2>3. b \in D /\ Stepwise(n, D, g)
    BY <1>2, <1>3, <2>1 DEF Stepwise
  <2>4. \E f \in [0..n -> D] : f[0] = b /\ \A k \in 1..n : f[k] = g[<<k, f[k - 1]>>]
    BY <1>1, <2>3, Recursion
  <2> QED BY <2>1, <2>4
<1>5. \A k \in 1..n : f[k] = IF k \in I THEN Append(f[k - 1], s[k]) ELSE f[k - 1]
  <2> TAKE k \in 1..n
  <2>1. k - 1 \in 0..n
    BY <1>1
  <2>2. f[k - 1] \in Seq(S)
    BY <1>4, <2>1
  <2>3. step[<<k, f[k - 1]>>] = IF k \in I THEN Append(f[k - 1], s[k]) ELSE f[k - 1]
    BY <2>2
  <2> QED BY <1>4, <2>3
<1>6. f = [k \in 0..Len(s) |-> IF k = 0 THEN <<>> ELSE IF k \in I THEN Append(f[k - 1], s[k]) ELSE f[k - 1]]
  <2>1. \A k \in 0..n : f[k] = IF k = 0 THEN <<>> ELSE IF k \in I THEN Append(f[k - 1], s[k]) ELSE f[k - 1]
    <3> HIDE DEF step
    <3> TAKE k \in 0..n
    <3>1. CASE k = 0
      BY <1>4, <3>1
    <3>2. CASE k # 0
      <4>1. k \in 1..n
        BY <1>1, <3>2
      <4> QED BY <1>5, <3>2, <4>1
    <3> QED BY <3>1, <3>2
  <2> HIDE DEF step
  <2> QED BY <1>0, <1>4, <2>1
<1>7. G = [k \in 0..Len(s) |-> IF k = 0 THEN <<>> ELSE IF k \in I THEN Append(G[k - 1], s[k]) ELSE G[k - 1]]
  BY <1>6
<1>8. Picked(s, I) = G[Len(s)]
  BY DEF Picked
<1> HIDE DEF G
<1>9. /\ G[0] = <<>>
      /\ \A k \in 1..Len(s) : G[k] = IF k \in I THEN Append(G[k - 1], s[k]) ELSE G[k - 1]
  <2>1. \A k \in 0..Len(s) : G[k] = IF k = 0 THEN <<>> ELSE IF k \in I THEN Append(G[k - 1], s[k]) ELSE G[k - 1]
    BY <1>7
  <2>2. 0 \in 0..Len(s) /\ \A k \in 1..Len(s) : k \in 0..Len(s) /\ k # 0
    BY <1>0, <1>1
  <2> QED BY <2>1, <2>2
<1> QED BY <1>8, <1>9

\* p is made of the elements of s at the positions J, in their order: h tells
\* where each one comes from.
PartOf(p, s, J, h) ==
  /\ h \in [DOMAIN p -> J]
  /\ \A k \in DOMAIN p : p[k] = s[h[k]]
  /\ \A j, k \in DOMAIN p : j < k => h[j] < h[k]
  /\ \A i \in J : \E k \in DOMAIN p : h[k] = i

LEMMA PartGrows ==
  ASSUME NEW S, NEW s \in Seq(S), NEW n \in 1..Len(s), NEW J, J \subseteq 1..(n - 1),
         NEW p \in Seq(S), NEW h, PartOf(p, s, J, h)
  PROVE  \E g : PartOf(Append(p, s[n]), s, J \cup {n}, g)
<1>1. PICK q : q = Append(p, s[n])
  OBVIOUS
<1>2. PICK m \in Nat : m = Len(p)
  BY LenProperties
<1>3. /\ DOMAIN p = 1..m /\ DOMAIN q = 1..(m + 1) /\ q[m + 1] = s[n] /\ \A k \in 1..m : q[k] = p[k]
  <2>1. s[n] \in S
    BY ElementOfSeq
  <2>2. q \in Seq(S) /\ Len(q) = m + 1 /\ q[m + 1] = s[n] /\ \A k \in 1..m : q[k] = p[k]
    BY <1>1, <1>2, <2>1, AppendProperties
  <2> QED BY <1>2, <2>2, LenProperties
<1>4. PICK g : g = [k \in 1..(m + 1) |-> IF k = m + 1 THEN n ELSE h[k]]
  OBVIOUS
<1>5. g[m + 1] = n /\ \A k \in 1..m : g[k] = h[k] /\ h[k] \in J /\ h[k] < n
  <2>1. m + 1 \in 1..(m + 1) /\ \A k \in 1..m : k \in 1..(m + 1) /\ k # m + 1
    OBVIOUS
  <2>2. \A k \in 1..m : h[k] \in J
    BY <1>3 DEF PartOf
  <2>3. \A i \in J : i < n
    BY LenProperties
  <2>4. g[m + 1] = n /\ \A k \in 1..m : g[k] = h[k]
    BY <1>4, <2>1
  <2> QED BY <2>2, <2>3, <2>4
<1>6. g \in [1..(m + 1) -> J \cup {n}]
  <2>1. \A k \in 1..(m + 1) : k = m + 1 \/ k \in 1..m
    OBVIOUS
  <2>2. \A k \in 1..(m + 1) : g[k] \in J \cup {n}
    BY <1>5, <2>1
  <2> QED BY <1>4, <2>2
<1>7. \A k \in 1..(m + 1) : q[k] = s[g[k]]
  <2> TAKE k \in 1..(m + 1)
  <2>1. CASE k = m + 1
    BY <1>3, <1>5, <2>1
  <2>2. CASE k # m + 1
    <3>1. k \in 1..m
      BY <2>2
    <3> QED BY <1>3, <1>5, <3>1 DEF PartOf
  <2> QED BY <2>1, <2>2
<1>8. \A j, k \in 1..(m + 1) : j < k => g[j] < g[k]
  <2> TAKE j, k \in 1..(m + 1)
  <2> HAVE j < k
  <2>1. j \in 1..m
    OBVIOUS
  <2>2. CASE k = m + 1
    BY <1>5, <2>1, <2>2
  <2>3. CASE k # m + 1
    <3>1. k \in 1..m
      BY <2>3
    <3>2. h[j] < h[k]
      BY <1>3, <2>1, <3>1 DEF PartOf
    <3> QED BY <1>5, <2>1, <3>1, <3>2
  <2> QED BY <2>2, <2>3
<1>9. \A i \in J \cup {n} : \E k \in 1..(m + 1) : g[k] = i
  <2> TAKE i \in J \cup {n}
  <2>1. CASE i = n
    <3>1. m + 1 \in 1..(m + 1)
      OBVIOUS
    <3> QED BY <1>5, <2>1, <3>1
  <2>2. CASE i # n
    <3>1. PICK k \in 1..m : h[k] = i
      BY <1>3, <2>2 DEF PartOf
    <3>2. k \in 1..(m + 1) /\ g[k] = i
      BY <1>5, <3>1
    <3> QED BY <3>2
  <2> QED BY <2>1, <2>2
<1>10. PartOf(q, s, J \cup {n}, g)
  BY <1>3, <1>6, <1>7, <1>8, <1>9 DEF PartOf
<1> QED BY <1>1, <1>10

LEMMA PickedPart ==
  ASSUME NEW S, NEW s \in Seq(S), NEW I, I \subseteq DOMAIN s
  PROVE  /\ Picked(s, I) \in Seq(S) /\ Len(Picked(s, I)) <= Len(s)
         /\ \E h : PartOf(Picked(s, I), s, I, h)
<1>1. PICK n \in Nat : n = Len(s)
  BY LenProperties
<1>2. PICK G : /\ Picked(s, I) = G[n] /\ G[0] = <<>>
               /\ \A k \in 1..n : G[k] = IF k \in I THEN Append(G[k - 1], s[k]) ELSE G[k - 1]
  BY <1>1, PickedRuns
<1> DEFINE Good(k) == /\ G[k] \in Seq(S) /\ Len(G[k]) <= k
                      /\ \E h : PartOf(G[k], s, I \cap (1..k), h)
           T == {k \in 0..n : Good(k)}
<1>3. 0 \in T
  <2>1. PICK e : e = <<>>
    OBVIOUS
  <2>2. e \in Seq(S) /\ Len(e) <= 0 /\ DOMAIN e = {} /\ I \cap (1..0) = {}
    BY <2>1
  <2>3. PartOf(e, s, I \cap (1..0), [k \in {} |-> 0])
    BY <2>2 DEF PartOf
  <2>4. G[0] = e
    BY <1>2, <2>1
  <2>5. Good(0)
    BY <2>2, <2>3, <2>4
  <2> HIDE DEF Good
  <2> QED BY <2>5
<1>4. ASSUME NEW m \in 0..(n - 1), m \in T PROVE m + 1 \in T
  <2>1. G[m] \in Seq(S) /\ Len(G[m]) <= m
    BY <1>4
  <2>2. PICK h : PartOf(G[m], s, I \cap (1..m), h)
    BY <1>4
  <2>3. PICK p : p = G[m]
    OBVIOUS
  <2>4. m + 1 \in 1..n /\ (m + 1) - 1 = m /\ m + 1 \in 0..n /\ m \in Nat
    BY <1>4
  <2>5. G[m + 1] = IF m + 1 \in I THEN Append(p, s[m + 1]) ELSE p
    BY <1>2, <2>3, <2>4
  <2>6. CASE m + 1 \in I
    <3>1. I \cap (1..(m + 1)) = (I \cap (1..m)) \cup {m + 1} /\ I \cap (1..m) \subseteq 1..((m + 1) - 1)
      BY <2>4, <2>6
    <3>2. PICK q : q = Append(p, s[m + 1])
      OBVIOUS
    <3>3. p \in Seq(S) /\ PartOf(p, s, I \cap (1..m), h) /\ m + 1 \in 1..Len(s)
      BY <1>1, <2>1, <2>2, <2>3, <2>4
    <3>4. PICK J : J = I \cap (1..m)
      OBVIOUS
    <3>5. \E g : PartOf(q, s, J \cup {m + 1}, g)
      BY <3>1, <3>2, <3>3, <3>4, PartGrows
    <3>6. q \in Seq(S) /\ Len(q) = Len(p) + 1
      BY <3>2, <3>3, ElementOfSeq, AppendProperties
    <3>7. Len(q) <= m + 1
      BY <2>1, <2>3, <2>4, <3>3, <3>6, LenProperties
    <3>8. G[m + 1] = q
      BY <2>5, <2>6, <3>2
    <3>9. Good(m + 1)
      BY <3>1, <3>4, <3>5, <3>6, <3>7, <3>8
    <3> HIDE DEF Good
    <3> QED BY <2>4, <3>9
  <2>7. CASE m + 1 \notin I
    <3>1. I \cap (1..(m + 1)) = I \cap (1..m)
      BY <2>4, <2>7
    <3>2. Len(p) <= m + 1
      BY <2>1, <2>3, <2>4, LenProperties
    <3>3. G[m + 1] = p
      BY <2>5, <2>7
    <3>4. Good(m + 1)
      BY <2>1, <2>2, <2>3, <3>1, <3>2, <3>3
    <3> HIDE DEF Good
    <3> QED BY <2>4, <3>4
  <2> QED BY <2>6, <2>7
<1> HIDE DEF T
<1>5. \A k \in 0..n : k \in T
  BY <1>3, <1>4, UpTo
<1>6. Good(n)
  BY <1>5 DEF T
<1>7. I \cap (1..n) = I
  BY <1>1, LenProperties
<1> QED BY <1>1, <1>2, <1>6, <1>7

-----------------------------------------------------------------------------
(* The types of what the operators make *)

Committed == [lt : LTs, v : Nat, nodes : Seq(Seq(Bytes))]

LEMMA ApplyType ==
  ASSUME NEW t \in Seq(Bytes), NEW d \in Splice
  PROVE  Apply(t, d) \in Seq(Bytes)
<1>1. Len(t) \in Nat /\ d.at \in Nat /\ d.del \in Nat /\ d.ins \in Seq(Bytes)
  BY LenProperties DEF Splice
<1>2. PICK at : at = AtMost(d.at, Len(t))
  OBVIOUS
<1>3. at \in Nat /\ at <= Len(t)
  BY <1>1, <1>2 DEF AtMost
<1>4. PICK end : end = AtMost(at + d.del, Len(t))
  OBVIOUS
<1>5. end \in Nat /\ end <= Len(t)
  BY <1>1, <1>3, <1>4 DEF AtMost
<1>6. PICK x, y : x = SubSeq(t, 0 + 1, 0 + at) /\ y = SubSeq(t, end + 1, end + (Len(t) - end))
  OBVIOUS
<1>7. x \in Seq(Bytes) /\ y \in Seq(Bytes)
  <2>1. 0 + at <= Len(t) /\ Len(t) - end \in Nat /\ end + (Len(t) - end) <= Len(t)
    BY <1>1, <1>3, <1>5
  <2> QED BY <1>3, <1>5, <1>6, <2>1, Stretch
<1>8. x \o d.ins \in Seq(Bytes)
  BY <1>1, <1>7, ConcatProperties
<1>9. (x \o d.ins) \o y \in Seq(Bytes)
  BY <1>7, <1>8, ConcatProperties
<1>10. 0 + 1 = 1 /\ 0 + at = at /\ end + (Len(t) - end) = Len(t)
  BY <1>1, <1>3, <1>5
<1>11. Apply(t, d) = (x \o d.ins) \o y
  BY <1>2, <1>4, <1>6, <1>10 DEF Apply
<1> QED BY <1>9, <1>11

LEMMA FoldDeltaType ==
  ASSUME NEW t \in Seq(Bytes), NEW d \in NodeDelta
  PROVE  FoldDelta(t, d) \in Seq(Bytes)
<1>1. d.splice \in Splice /\ d.splice.ins \in Seq(Bytes) /\ d.op \in {"set", "keep", "splice"}
  BY DEF NodeDelta, Splice
<1>2. Apply(t, d.splice) \in Seq(Bytes)
  BY <1>1, ApplyType
<1> QED BY <1>1, <1>2 DEF FoldDelta

\* One node: its id is in the order, its block is folded.
LEMMA ApplyNodeType ==
  ASSUME NEW w \in View, NEW d \in NodeDelta
  PROVE  /\ ApplyNode(w, d) \in View
         /\ ApplyNode(w, d).order = IF \E i \in DOMAIN w.order : w.order[i] = d.id THEN w.order ELSE Append(w.order, d.id)
         /\ ApplyNode(w, d).block = [w.block EXCEPT ![d.id] = FoldDelta(@, d)]
         /\ ApplyNode(w, d).lt = w.lt /\ ApplyNode(w, d).v = w.v /\ ApplyNode(w, d).closed = w.closed
         /\ ApplyNode(w, d).seen = w.seen /\ ApplyNode(w, d).floor = w.floor /\ ApplyNode(w, d).cursor = w.cursor
<1>1. d.id \in 1..MaxNodes /\ w.block \in [1..MaxNodes -> Seq(Bytes)] /\ w.order \in Seq(1..MaxNodes)
  BY DEF NodeDelta, View
<1>2. PICK o : o = IF \E i \in DOMAIN w.order : w.order[i] = d.id THEN w.order ELSE Append(w.order, d.id)
  OBVIOUS
<1>3. PICK b : b = [w.block EXCEPT ![d.id] = FoldDelta(@, d)]
  OBVIOUS
<1>4. o \in Seq(1..MaxNodes)
  BY <1>1, <1>2, AppendProperties
<1>5. b \in [1..MaxNodes -> Seq(Bytes)]
  <2>1. w.block[d.id] \in Seq(Bytes)
    BY <1>1
  <2>2. FoldDelta(w.block[d.id], d) \in Seq(Bytes)
    BY <2>1, FoldDeltaType
  <2> QED BY <1>1, <1>3, <2>2
<1>6. ApplyNode(w, d) = [w EXCEPT !.order = o, !.block = b]
  BY <1>1, <1>2, <1>3 DEF ApplyNode, View
<1>7. [w EXCEPT !.order = o, !.block = b] \in View
  BY <1>4, <1>5 DEF View
<1>8. /\ [w EXCEPT !.order = o, !.block = b].order = o /\ [w EXCEPT !.order = o, !.block = b].block = b
      /\ [w EXCEPT !.order = o, !.block = b].lt = w.lt /\ [w EXCEPT !.order = o, !.block = b].v = w.v
      /\ [w EXCEPT !.order = o, !.block = b].closed = w.closed /\ [w EXCEPT !.order = o, !.block = b].seen = w.seen
      /\ [w EXCEPT !.order = o, !.block = b].floor = w.floor /\ [w EXCEPT !.order = o, !.block = b].cursor = w.cursor
  BY DEF View
<1> QED BY <1>2, <1>3, <1>6, <1>7, <1>8

\* The nodes of a frame, one after the other.
LEMMA NodesRun ==
  ASSUME NEW w \in View, NEW ds \in Seq(NodeDelta)
  PROVE  \E G : /\ ApplyNodes(w, ds) = G[Len(ds)] /\ G[0] = w
                /\ \A k \in 0..Len(ds) : G[k] \in View
                /\ \A k \in 1..Len(ds) : G[k] = ApplyNode(G[k - 1], ds[k])
<1>0. PICK n \in Nat : n = Len(ds)
  BY LenProperties
<1> DEFINE G == CHOOSE After : After = [k \in 0..Len(ds) |-> IF k = 0 THEN w ELSE ApplyNode(After[k - 1], ds[k])]
           step == [x \in (1..n) \X View |-> ApplyNode(x[2], ds[x[1]])]
<1>1. Stepwise(n, View, step)
  <2>1. \A k \in 1..n, t \in View : ApplyNode(t, ds[k]) \in View
    BY <1>0, ElementOfSeq, ApplyNodeType
  <2> QED BY <2>1 DEF Stepwise
<1>2. PICK f \in [0..n -> View] : f[0] = w /\ \A k \in 1..n : f[k] = step[<<k, f[k - 1]>>]
  <2>1. PICK D, g, b : D = View /\ g = step /\ b = w
    OBVIOUS
  <2>2. b \in D /\ Stepwise(n, D, g)
    BY <1>1, <2>1
  <2> HIDE DEF step
  <2>3. \E f \in [0..n -> D] : f[0] = b /\ \A k \in 1..n : f[k] = g[<<k, f[k - 1]>>]
    BY <2>2, Recursion, SMTT(30)
  <2> QED BY <2>1, <2>3
<1>3. \A k \in 1..n : f[k] = ApplyNode(f[k - 1], ds[k])
  <2> TAKE k \in 1..n
  <2>1. k - 1 \in 0..n
    OBVIOUS
  <2>2. f[k - 1] \in View
    BY <1>2, <2>1
  <2>3. step[<<k, f[k - 1]>>] = ApplyNode(f[k - 1], ds[k])
    BY <2>2
  <2> QED BY <1>2, <2>3
<1> HIDE DEF step
<1>4. \A k \in 0..n : f[k] = IF k = 0 THEN w ELSE ApplyNode(f[k - 1], ds[k])
  <2> TAKE k \in 0..n
  <2>1. CASE k = 0
    BY <1>2, <2>1
  <2>2. CASE k # 0
    <3>1. k \in 1..n
      BY <2>2
    <3> QED BY <1>3, <2>2, <3>1
  <2> QED BY <2>1, <2>2
<1>5. f = [k \in 0..Len(ds) |-> IF k = 0 THEN w ELSE ApplyNode(f[k - 1], ds[k])]
  BY <1>0, <1>2, <1>4
<1>6. G = [k \in 0..Len(ds) |-> IF k = 0 THEN w ELSE ApplyNode(G[k - 1], ds[k])]
  BY <1>5
<1>7. ApplyNodes(w, ds) = G[Len(ds)]
  BY DEF ApplyNodes
<1> HIDE DEF G
<1>8. G[0] = w /\ \A k \in 1..Len(ds) : G[k] = ApplyNode(G[k - 1], ds[k])
  <2>1. \A k \in 0..Len(ds) : G[k] = IF k = 0 THEN w ELSE ApplyNode(G[k - 1], ds[k])
    BY <1>6
  <2>2. 0 \in 0..Len(ds) /\ \A k \in 1..Len(ds) : k \in 0..Len(ds) /\ k # 0
    BY <1>0
  <2> QED BY <2>1, <2>2
<1>9. \A k \in 0..n : G[k] \in View
  <2> DEFINE T == {k \in 0..n : G[k] \in View}
  <2>1. 0 \in T
    BY <1>8
  <2>2. ASSUME NEW m \in 0..(n - 1), m \in T PROVE m + 1 \in T
    <3>1. m + 1 \in 1..n /\ (m + 1) - 1 = m /\ m + 1 \in 0..n
      BY <2>2
    <3>2. G[m + 1] = ApplyNode(G[m], ds[m + 1]) /\ ds[m + 1] \in NodeDelta
      BY <1>0, <1>8, <3>1, ElementOfSeq
    <3>3. G[m] \in View
      BY <2>2
    <3>4. G[m + 1] \in View
      <4>1. PICK x, d : x = G[m] /\ d = ds[m + 1]
        OBVIOUS
      <4>2. x \in View /\ d \in NodeDelta
        BY <3>2, <3>3, <4>1
      <4>3. ApplyNode(x, d) \in View
        BY <4>2, ApplyNodeType
      <4> QED BY <3>2, <4>1, <4>3
    <3> QED BY <3>1, <3>4
  <2>3. \A k \in 0..n : k \in T
    <3> HIDE DEF T
    <3> QED BY <2>1, <2>2, UpTo
  <2> QED BY <2>3
<1> QED BY <1>0, <1>7, <1>8, <1>9

-----------------------------------------------------------------------------
(* What the server makes *)

GoodDeltas == {ds \in Seq(NodeDelta) : \A i \in DOMAIN ds : Valid(ds[i].splice.ins)}
GoodLive   == [lt : LTs, v : Nat, nodes : GoodDeltas]
GoodPage   == [committed : Seq(Committed), live : GoodLive]

\* A text of the model is a string of whole runes.
LEMMA TextIs ==
  ASSUME NEW t \in Texts
  PROVE  t \in Seq(Bytes) /\ Valid(t)
BY AriaStreamAssumption

\* The empty text is.
LEMMA EmptyText == <<>> \in Seq(Bytes) /\ Valid(<<>>) /\ Len(<<>>) = 0
<1>1. <<>> \in Seq(Bytes) /\ Len(<<>>) = 0
  BY EmptySeq
<1> QED BY <1>1 DEF Valid

LEMMA FullSetType ==
  ASSUME NEW id \in 1..MaxNodes, NEW t \in Texts
  PROVE  FullSet(id, t) \in NodeDelta /\ Valid(FullSet(id, t).splice.ins) /\ FullSet(id, t).id = id
<1>1. t \in Seq(Bytes) /\ Valid(t)
  BY TextIs
<1>2. [NoSplice EXCEPT !.ins = t] = [at |-> 0, del |-> 0, ins |-> t]
  BY DEF NoSplice
<1>3. [at |-> 0, del |-> 0, ins |-> t] \in Splice
  BY <1>1 DEF Splice
<1> QED BY <1>1, <1>2, <1>3 DEF FullSet, NodeDelta

LEMMA DeltaType ==
  ASSUME NEW id \in 1..MaxNodes, NEW old \in Texts, NEW new \in Texts
  PROVE  Delta(id, old, new) \in NodeDelta /\ Valid(Delta(id, old, new).splice.ins) /\ Delta(id, old, new).id = id
<1>1. old \in Seq(Bytes) /\ Valid(old) /\ new \in Seq(Bytes) /\ Valid(new)
  BY TextIs
<1>2. [NoSplice EXCEPT !.ins = new] = [at |-> 0, del |-> 0, ins |-> new]
  BY DEF NoSplice
<1>3. [at |-> 0, del |-> 0, ins |-> new] \in Splice
  BY <1>1 DEF Splice
<1>4. PICK d : d = Diff(old, new)
  OBVIOUS
<1>5. Valid(d.ins) /\ d \in Splice
  BY <1>1, <1>4, DiffWhole
<1>6. CASE old = <<>> \/ new = <<>>
  BY <1>1, <1>2, <1>3, <1>6 DEF Delta, NodeDelta
<1>7. CASE ~(old = <<>> \/ new = <<>>)
  BY <1>4, <1>5, <1>7 DEF Delta, NodeDelta
<1> QED BY <1>6, <1>7

\* A list of nodes is not empty and not too long.
LEMMA NodeListIs ==
  ASSUME NEW news \in NodeLists
  PROVE  news \in Seq(Texts) /\ news # <<>> /\ Len(news) \in 1..MaxNodes /\ DOMAIN news = 1..Len(news)
<1>1. PICK n \in 1..MaxNodes : news \in [1..n -> Texts]
  BY DEF NodeLists
<1>2. n \in Nat /\ n >= 1 /\ DOMAIN news = 1..n
  BY <1>1, AriaStreamAssumption
<1>3. news \in Seq(Texts) /\ Len(news) = n
  BY <1>1, <1>2
<1>4. Len(<<>>) = 0
  BY EmptyText
<1> QED BY <1>1, <1>2, <1>3, <1>4

\* The deltas of an Update are those of the nodes that are new or changed, in
\* the order of the nodes.
LEMMA DeltasType ==
  ASSUME NEW olds \in Seq(Texts), NEW news \in NodeLists
  PROVE  LET all == [i \in DOMAIN news |-> IF i > Len(olds) THEN FullSet(i, news[i]) ELSE Delta(i, olds[i], news[i])]
             I   == {i \in DOMAIN news : i > Len(olds) \/ olds[i] # news[i]}
         IN /\ Deltas(olds, news) \in GoodDeltas
            /\ \E h : PartOf(Deltas(olds, news), all, I, h)
<1> DEFINE all == [i \in DOMAIN news |-> IF i > Len(olds) THEN FullSet(i, news[i]) ELSE Delta(i, olds[i], news[i])]
           I   == {i \in DOMAIN news : i > Len(olds) \/ olds[i] # news[i]}
           Ok  == {d \in NodeDelta : Valid(d.splice.ins)}
<1>1. PICK n \in Nat : n = Len(news) /\ n <= MaxNodes /\ DOMAIN news = 1..n
  BY NodeListIs, LenProperties, AriaStreamAssumption
<1>2. Len(olds) \in Nat
  BY LenProperties
<1>3. \A i \in 1..n : all[i] \in Ok
  <2> TAKE i \in 1..n
  <2>1. i \in 1..MaxNodes
    BY <1>1, AriaStreamAssumption
  <2>2. news[i] \in Texts
    BY <1>1, NodeListIs, ElementOfSeq
  <2>3. CASE i > Len(olds)
    BY <1>1, <2>1, <2>2, <2>3, FullSetType
  <2>4. CASE ~(i > Len(olds))
    <3>1. olds[i] \in Texts
      BY <1>2, <2>4, ElementOfSeq
    <3> QED BY <1>1, <2>1, <2>2, <2>4, <3>1, DeltaType
  <2> QED BY <2>3, <2>4
<1>4. PICK a, J, p : a = all /\ J = I /\ p = Picked(all, I)
  OBVIOUS
<1>5. p = Deltas(olds, news)
  BY <1>4 DEF Deltas
<1>6. DOMAIN a = 1..n /\ J \subseteq DOMAIN a
  BY <1>1, <1>4
<1> HIDE DEF all, I
<1>7. a \in Seq(Ok)
  <2>1. \A i \in 1..n : a[i] \in Ok
    BY <1>3, <1>4
  <2> HIDE DEF Ok
  <2>2. a = [i \in 1..n |-> a[i]]
    BY <1>1, <1>4, <1>6 DEF all
  <2>3. a \in [1..n -> Ok]
    BY <2>1, <2>2
  <2> QED BY <1>1, <2>3
<1>8. p \in Seq(Ok) /\ \E h : PartOf(p, a, J, h)
  <2> HIDE DEF Ok
  <2> QED BY <1>4, <1>6, <1>7, PickedPart
<1>9. p \in GoodDeltas
  <2>1. Ok \subseteq NodeDelta
    OBVIOUS
  <2>2. p \in Seq(NodeDelta)
    <3> HIDE DEF Ok
    <3> QED BY <1>8, <2>1, SeqMonotonic
  <2>3. \A i \in DOMAIN p : p[i] \in Ok
    <3> HIDE DEF Ok
    <3> QED BY <1>8, ElementOfSeq, LenProperties
  <2> QED BY <2>2, <2>3 DEF GoodDeltas
<1>10. Deltas(olds, news) \in GoodDeltas /\ \E h : PartOf(Deltas(olds, news), all, I, h)
  BY <1>4, <1>5, <1>8, <1>9
<1> QED BY <1>10 DEF all, I

-----------------------------------------------------------------------------
(* The inductive invariant of the types.  Beyond TypeOK it bounds the LTs by   *)
(* the number of units opened and the nodes of the open unit by MaxNodes, and  *)
(* says of every delta under way that it carries whole runes.                  *)

Item      == [reader : SUBSET Readers, page : GoodPage]
GoodQuery == [stage : {"idle", "asked", "served", "wired", "got", "entered"},
              call : {"Read", "ReadBefore"}, since : LTs \cup {RecentCursor},
              have : Seq(Committed), page : GoodPage]

\* The LTs of a history ascend, and no position is ahead of its LT.
Ascending(h) ==
  /\ \A i, j \in DOMAIN h : i < j => h[i].lt < h[j].lt
  /\ \A i \in DOMAIN h : i <= h[i].lt

LastLT(h) == IF h = <<>> THEN 0 ELSE Last(h).lt

ServerTypes ==
  /\ history \in Seq(Message) /\ Ascending(history)
  /\ unitLT \in LTs /\ LastLT(history) <= unitLT
  /\ open \in [lt : LTs, nodes : Seq(Texts), ver : Nat]
  /\ open.lt # 0 => LastLT(history) < open.lt /\ open.lt <= unitLT
  /\ open.lt = 0 => open = NoOpen
  /\ (open.ver = 0) = (open.nodes = <<>>) /\ Len(open.nodes) <= MaxNodes
  /\ opened \in Seq(LTs) /\ unitLT <= Len(opened) /\ Len(opened) <= MaxUnits + 1

ChannelTypes ==
  /\ pending \in Seq(GoodPage) /\ base \in LTs
  /\ wire \in Seq(Item) /\ Len(wire) <= WireCap
  /\ reads \in [Readers -> GoodQuery]

ClientTypes ==
  /\ view \in View /\ published \in SUBSET Message /\ shown \in [LTs -> Nat]
  /\ broken \in SUBSET LTs /\ excused \in BOOLEAN

Types == ServerTypes /\ ChannelTypes /\ ClientTypes

\* The last LT of a history is the greatest, and counts at least its length.
LEMMA LastIs ==
  ASSUME NEW h \in Seq(Message), Ascending(h)
  PROVE  /\ LastLT(h) \in LTs /\ Len(h) \in Nat /\ Len(h) <= LastLT(h)
         /\ \A i \in 1..Len(h) : h[i].lt \in LTs /\ h[i].lt <= LastLT(h)
<1>1. Len(h) \in Nat /\ DOMAIN h = 1..Len(h)
  BY LenProperties
<1>2. 0 \in LTs
  BY AriaStreamAssumption DEF LTs
<1>3. CASE h = <<>>
  BY <1>1, <1>2, <1>3, EmptySeq DEF LastLT
<1>4. CASE h # <<>>
  <2>1. Len(h) \in 1..Len(h) /\ Len(h) >= 1
    BY <1>1, <1>4, EmptySeq
  <2>2. LastLT(h) = h[Len(h)].lt
    BY <1>4 DEF LastLT, Last
  <2>3. \A i \in 1..Len(h) : h[i] \in Message
    BY ElementOfSeq
  <2>4. \A i \in 1..Len(h) : h[i].lt \in LTs
    BY <2>3 DEF Message
  <2>5. ASSUME NEW i \in 1..Len(h) PROVE h[i].lt <= h[Len(h)].lt
    <3>1. h[i].lt \in Nat /\ h[Len(h)].lt \in Nat
      BY <2>1, <2>4, <2>5 DEF LTs
    <3>2. CASE i = Len(h)
      BY <3>1, <3>2
    <3>3. CASE i # Len(h)
      <4>0. PICK n \in Nat : n = Len(h)
        BY <1>1
      <4>1. i < Len(h) /\ i \in DOMAIN h /\ Len(h) \in DOMAIN h
        <5>1. i \in 1..n /\ i # n
          BY <2>5, <3>3, <4>0
        <5>2. i < n
          BY <5>1
        <5> QED BY <1>1, <2>1, <2>5, <4>0, <5>2
      <4>2. h[i].lt < h[Len(h)].lt
        BY <4>1 DEF Ascending
      <4> QED BY <3>1, <4>2
    <3> QED BY <3>2, <3>3
  <2>6. Len(h) <= h[Len(h)].lt
    BY <1>1, <2>1 DEF Ascending
  <2> QED BY <1>1, <2>1, <2>2, <2>4, <2>5, <2>6
<1> QED BY <1>3, <1>4

LEMMA LTsAre == LTs \subseteq Nat /\ 0 \in LTs /\ MaxUnits \in Nat /\ \A n \in Nat : n \in LTs <=> n <= MaxUnits + 1
BY AriaStreamAssumption DEF LTs

LEMMA NoLiveType == NoLive \in GoodLive
<1>1. PICK e : e = <<>>
  OBVIOUS
<1>2. e \in Seq(NodeDelta) /\ DOMAIN e = {}
  BY <1>1, EmptySeq
<1>3. e \in GoodDeltas
  BY <1>2 DEF GoodDeltas
<1> QED BY <1>1, <1>3, LTsAre DEF NoLive, GoodLive

\* What a read finds of the open message.
LEMMA ReadOpenType ==
  ASSUME ServerTypes
  PROVE  ReadOpen \in GoodLive
<1>1. open.lt \in LTs /\ open.nodes \in Seq(Texts) /\ open.ver \in Nat /\ Len(open.nodes) <= MaxNodes
  BY DEF ServerTypes
<1>2. PICK n \in Nat : n = Len(open.nodes) /\ DOMAIN open.nodes = 1..n
  BY <1>1, LenProperties
<1>3. PICK ds : ds = [i \in 1..n |-> FullSet(i, open.nodes[i])]
  OBVIOUS
<1>4. \A i \in 1..n : ds[i] \in NodeDelta /\ Valid(ds[i].splice.ins)
  <2> TAKE i \in 1..n
  <2>1. i \in 1..MaxNodes /\ open.nodes[i] \in Texts
    BY <1>1, <1>2, AriaStreamAssumption, ElementOfSeq
  <2> QED BY <1>3, <2>1, FullSetType
<1>5. ds \in GoodDeltas
  <2>1. ds \in [1..n -> NodeDelta] /\ DOMAIN ds = 1..n
    BY <1>3, <1>4
  <2>2. ds \in Seq(NodeDelta)
    BY <2>1
  <2> QED BY <1>4, <2>1, <2>2 DEF GoodDeltas
<1>6. CASE open.nodes = <<>>
  BY <1>6, NoLiveType DEF ReadOpen
<1>7. CASE open.nodes # <<>>
  <2>1. ReadOpen = [lt |-> open.lt, v |-> IF open.ver = 0 THEN 0 ELSE open.ver - 1, nodes |-> ds]
    BY <1>2, <1>3, <1>7 DEF ReadOpen
  <2> QED BY <1>1, <1>5, <2>1 DEF GoodLive
<1> QED BY <1>6, <1>7

LEMMA SnapshotsType ==
  ASSUME NEW ms \in Seq(Message)
  PROVE  /\ Snapshots(ms) \in Seq(Committed) /\ Len(Snapshots(ms)) = Len(ms)
         /\ \A i \in 1..Len(ms) : Snapshots(ms)[i] = Snapshot(ms[i])
<1>1. PICK n \in Nat : n = Len(ms) /\ DOMAIN ms = 1..n
  BY LenProperties
<1>2. Snapshots(ms) = [i \in 1..n |-> Snapshot(ms[i])]
  BY <1>1 DEF Snapshots
<1>3. \A i \in 1..n : Snapshot(ms[i]) \in Committed
  <2> TAKE i \in 1..n
  <2>1. ms[i] \in Message
    BY <1>1, ElementOfSeq
  <2> QED BY <2>1 DEF Snapshot, Committed, Message
<1>4. Snapshots(ms) \in [1..n -> Committed]
  BY <1>2, <1>3
<1> QED BY <1>1, <1>2, <1>4

LEMMA ReadSinceType ==
  ASSUME ServerTypes, NEW lt
  PROVE  ReadSince(lt) \in GoodPage
<1>1. history \in Seq(Message)
  BY DEF ServerTypes
<1>2. PICK p : p = Picked(history, {i \in DOMAIN history : history[i].lt > lt})
  OBVIOUS
<1>3. p \in Seq(Message)
  <2>1. PICK I : I = {i \in DOMAIN history : history[i].lt > lt}
    OBVIOUS
  <2>2. I \subseteq DOMAIN history
    BY <2>1
  <2>3. Picked(history, I) \in Seq(Message)
    BY <1>1, <2>2, PickedPart
  <2> QED BY <1>2, <2>1, <2>3
<1>4. Snapshots(p) \in Seq(Committed)
  BY <1>3, SnapshotsType
<1> QED BY <1>2, <1>4, ReadOpenType DEF ReadSince, Frame, GoodPage

LEMMA ReadRecentType ==
  ASSUME ServerTypes
  PROVE  ReadRecent \in Seq(Committed)
<1>1. history \in Seq(Message) /\ Len(history) \in Nat /\ PageSize \in Nat
  BY LenProperties, AriaStreamAssumption DEF ServerTypes
<1>2. PICK k \in Nat : k = AtMost(PageSize, Len(history)) /\ k <= Len(history)
  BY <1>1 DEF AtMost
<1>3. PICK f \in Nat : f = Len(history) - k
  BY <1>1, <1>2
<1>4. f + k <= Len(history) /\ f + k = Len(history) /\ f + 1 = Len(history) - k + 1
  BY <1>1, <1>2, <1>3
<1>5. SubSeq(history, f + 1, f + k) \in Seq(Message)
  <2>1. f + k <= Len(history)
    BY <1>4
  <2> QED BY <1>1, <2>1, Stretch
<1> QED BY <1>2, <1>4, <1>5, SnapshotsType DEF ReadRecent

-----------------------------------------------------------------------------
(* What the client makes of a page *)

ClientState == {st \in [view : View, final : SUBSET Message, desync : SUBSET LTs] : IsFiniteSet(st.final)}

\* The part of a view that is the open copy; a view without one.
SameCopy(x, w) == x.lt = w.lt /\ x.v = w.v /\ x.order = w.order /\ x.block = w.block
NoCopy(x)      == x.lt = 0 /\ x.v = 0 /\ x.order = <<>> /\ x.block = NoBlocks

LEMMA NoBlocksType == NoBlocks \in [1..MaxNodes -> Seq(Bytes)] /\ \A i \in 1..MaxNodes : NoBlocks[i] = <<>>
<1>1. \A i \in 1..MaxNodes : <<>> \in Seq(Bytes)
  BY EmptyText
<1> QED BY <1>1 DEF NoBlocks

LEMMA ResetOpenType ==
  ASSUME NEW w \in View
  PROVE  /\ ResetOpen(w) \in View /\ NoCopy(ResetOpen(w))
         /\ ResetOpen(w).closed = w.closed /\ ResetOpen(w).seen = w.seen
         /\ ResetOpen(w).floor = w.floor /\ ResetOpen(w).cursor = w.cursor
<1>1. PICK b, e : b = NoBlocks /\ e = <<>>
  OBVIOUS
<1>2. b \in [1..MaxNodes -> Seq(Bytes)] /\ e \in Seq(1..MaxNodes) /\ 0 \in LTs
  BY <1>1, NoBlocksType, EmptySeq, LTsAre
<1>3. ResetOpen(w) = [w EXCEPT !.lt = 0, !.v = 0, !.order = e, !.block = b]
  BY <1>1 DEF ResetOpen
<1>4. PICK x : x = [w EXCEPT !.lt = 0, !.v = 0, !.order = e, !.block = b]
  OBVIOUS
<1>5. x \in View
  BY <1>2, <1>4 DEF View
<1>6. x.lt = 0 /\ x.v = 0 /\ x.order = e /\ x.block = b
  BY <1>4 DEF View
<1>7. x.closed = w.closed /\ x.seen = w.seen /\ x.floor = w.floor /\ x.cursor = w.cursor
  BY <1>4 DEF View
<1>8. ResetOpen(w) = x
  BY <1>3, <1>4
<1>9. NoCopy(x)
  BY <1>1, <1>6 DEF NoCopy
<1> QED BY <1>5, <1>7, <1>8, <1>9

LEMMA AdvanceType ==
  ASSUME NEW w \in View, NEW lt \in LTs
  PROVE  /\ Advance(w, lt) \in View /\ SameCopy(Advance(w, lt), w)
         /\ Advance(w, lt).closed = w.closed /\ Advance(w, lt).seen = w.seen /\ Advance(w, lt).floor = w.floor
         /\ Advance(w, lt).cursor = IF lt > w.cursor THEN lt ELSE w.cursor
BY DEF Advance, View, SameCopy

LEMMA OpenNodesType ==
  ASSUME NEW w \in View
  PROVE  /\ OpenNodes(w) \in Seq(Seq(Bytes)) /\ Len(OpenNodes(w)) = Len(w.order)
         /\ \A i \in 1..Len(w.order) : OpenNodes(w)[i] = w.block[w.order[i]]
<1>1. w.order \in Seq(1..MaxNodes) /\ w.block \in [1..MaxNodes -> Seq(Bytes)]
  BY DEF View
<1>2. PICK n \in Nat : n = Len(w.order) /\ DOMAIN w.order = 1..n
  BY <1>1, LenProperties
<1>3. \A i \in 1..n : w.block[w.order[i]] \in Seq(Bytes)
  <2> TAKE i \in 1..n
  <2>1. w.order[i] \in 1..MaxNodes
    BY <1>1, <1>2, ElementOfSeq
  <2> QED BY <1>1, <2>1
<1>4. PICK f : f = [i \in 1..n |-> w.block[w.order[i]]]
  OBVIOUS
<1>5. OpenNodes(w) = f
  BY <1>2, <1>4 DEF OpenNodes
<1>6. f \in [1..n -> Seq(Bytes)]
  BY <1>3, <1>4
<1>7. f \in Seq(Seq(Bytes)) /\ Len(f) = n
  BY <1>2, <1>6
<1> QED BY <1>2, <1>4, <1>5, <1>7

\* One more message.
LEMMA FinalGrows ==
  ASSUME NEW st \in ClientState, NEW w \in View, NEW m \in Message
  PROVE  /\ [st EXCEPT !.view = w, !.final = @ \cup {m}] \in ClientState
         /\ [st EXCEPT !.view = w, !.final = @ \cup {m}].view = w
         /\ [st EXCEPT !.view = w, !.final = @ \cup {m}].final = st.final \cup {m}
         /\ [st EXCEPT !.view = w] \in ClientState
         /\ [st EXCEPT !.view = w].view = w
         /\ [st EXCEPT !.view = w].final = st.final
<1>1. IsFiniteSet(st.final)
  BY DEF ClientState
<1>2. IsFiniteSet(st.final \cup {m})
  BY <1>1, FS_AddElement
<1>3. PICK F : F = st.final \cup {m}
  OBVIOUS
<1>4. IsFiniteSet(F) /\ F \in SUBSET Message
  BY <1>2, <1>3 DEF ClientState
<1> QED BY <1>1, <1>3, <1>4 DEF ClientState

LEMMA AdoptIs ==
  ASSUME NEW st \in ClientState, NEW c \in Committed
  PROVE  /\ Adopt(st, c) \in ClientState /\ Adopt(st, c).desync = st.desync
         /\ Adopt(st, c).view.closed = st.view.closed /\ Adopt(st, c).view.floor = st.view.floor
         /\ IF c.lt = st.view.lt THEN NoCopy(Adopt(st, c).view) ELSE SameCopy(Adopt(st, c).view, st.view)
         /\ Adopt(st, c).view.cursor = IF c.lt > st.view.cursor THEN c.lt ELSE st.view.cursor
         /\ Adopt(st, c).view.seen = IF SeenClosed(st.view, c.lt) THEN st.view.seen ELSE st.view.seen \cup {c.lt}
         /\ Adopt(st, c).final = IF SeenClosed(st.view, c.lt) THEN st.final
                                 ELSE st.final \cup {[lt |-> c.lt, nodes |-> c.nodes]}
<1>1. PICK w : w = st.view
  OBVIOUS
<1>2. w \in View /\ c.lt \in LTs /\ [lt |-> c.lt, nodes |-> c.nodes] \in Message
  BY <1>1 DEF ClientState, Committed, Message
<1>3. PICK a : a = IF c.lt = w.lt THEN ResetOpen(w) ELSE w
  OBVIOUS
<1>4. /\ a \in View /\ a.closed = w.closed /\ a.seen = w.seen /\ a.floor = w.floor /\ a.cursor = w.cursor
      /\ IF c.lt = w.lt THEN NoCopy(a) ELSE a = w
  BY <1>2, <1>3, ResetOpenType
<1>5. PICK b : b = Advance(a, c.lt)
  OBVIOUS
<1>6. /\ b \in View /\ SameCopy(b, a) /\ b.closed = w.closed /\ b.seen = w.seen /\ b.floor = w.floor
      /\ b.cursor = IF c.lt > w.cursor THEN c.lt ELSE w.cursor
  BY <1>2, <1>4, <1>5, AdvanceType
<1>7. IF c.lt = w.lt THEN NoCopy(b) ELSE SameCopy(b, w)
  BY <1>4, <1>6 DEF NoCopy, SameCopy
<1>8. PICK x : x = [b EXCEPT !.seen = @ \cup {c.lt}]
  OBVIOUS
<1>9. /\ x \in View /\ SameCopy(x, b) /\ x.closed = b.closed /\ x.floor = b.floor /\ x.cursor = b.cursor
      /\ x.seen = b.seen \cup {c.lt}
  <2>1. b.seen \cup {c.lt} \in SUBSET LTs
    BY <1>2, <1>6 DEF View
  <2> QED BY <1>6, <1>8, <2>1 DEF View, SameCopy
<1>10. IF c.lt = w.lt THEN NoCopy(x) ELSE SameCopy(x, w)
  BY <1>7, <1>9 DEF NoCopy, SameCopy
<1>11. PICK m : m = [lt |-> c.lt, nodes |-> c.nodes]
  OBVIOUS
<1>12. Adopt(st, c) = IF SeenClosed(w, c.lt) THEN [st EXCEPT !.view = b] ELSE [st EXCEPT !.view = x, !.final = @ \cup {m}]
  BY <1>1, <1>3, <1>5, <1>8, <1>11 DEF Adopt
<1>13. m \in Message
  BY <1>2, <1>11
<1>14. CASE SeenClosed(w, c.lt)
  <2>1. PICK r : r = [st EXCEPT !.view = b]
    OBVIOUS
  <2>2. r \in ClientState /\ r.view = b /\ r.final = st.final /\ r.desync = st.desync
    BY <1>6, <1>13, <2>1, FinalGrows DEF ClientState
  <2>3. Adopt(st, c) = r
    BY <1>12, <1>14, <2>1
  <2> QED BY <1>1, <1>6, <1>7, <1>14, <2>2, <2>3
<1>15. CASE ~SeenClosed(w, c.lt)
  <2>1. PICK r : r = [st EXCEPT !.view = x, !.final = @ \cup {m}]
    OBVIOUS
  <2>2. r \in ClientState /\ r.view = x /\ r.final = st.final \cup {m} /\ r.desync = st.desync
    BY <1>9, <1>13, <2>1, FinalGrows DEF ClientState
  <2>3. Adopt(st, c) = r
    BY <1>12, <1>15, <2>1
  <2> QED BY <1>1, <1>6, <1>9, <1>10, <1>11, <1>15, <2>2, <2>3
<1> QED BY <1>14, <1>15

LEMMA PromoteIs ==
  ASSUME NEW st \in ClientState, NEW lt \in LTs
  PROVE  /\ Promote(st, lt) \in ClientState /\ Promote(st, lt).desync = st.desync
         /\ Promote(st, lt).view.closed = st.view.closed /\ Promote(st, lt).view.floor = st.view.floor
         /\ NoCopy(Promote(st, lt).view)
         /\ Promote(st, lt).view.cursor = IF lt > st.view.cursor THEN lt ELSE st.view.cursor
         /\ Promote(st, lt).view.seen = st.view.seen \cup {lt}
         /\ Promote(st, lt).final = IF lt \in st.view.seen THEN st.final
                                    ELSE st.final \cup {[lt |-> lt, nodes |-> OpenNodes(st.view)]}
<1>1. PICK w : w = st.view
  OBVIOUS
<1>2. w \in View
  BY <1>1 DEF ClientState
<1>3. PICK m : m = [lt |-> lt, nodes |-> OpenNodes(w)]
  OBVIOUS
<1>4. m \in Message
  BY <1>2, <1>3, OpenNodesType DEF Message
<1>5. PICK a : a = ResetOpen(w)
  OBVIOUS
<1>6. a \in View /\ NoCopy(a) /\ a.closed = w.closed /\ a.seen = w.seen /\ a.floor = w.floor /\ a.cursor = w.cursor
  BY <1>2, <1>5, ResetOpenType
<1>7. PICK b : b = Advance(a, lt)
  OBVIOUS
<1>8. /\ b \in View /\ SameCopy(b, a) /\ b.closed = w.closed /\ b.seen = w.seen /\ b.floor = w.floor
      /\ b.cursor = IF lt > w.cursor THEN lt ELSE w.cursor
  BY <1>6, <1>7, AdvanceType
<1>9. PICK x : x = [b EXCEPT !.seen = @ \cup {lt}]
  OBVIOUS
<1>10. /\ x \in View /\ SameCopy(x, b) /\ x.closed = b.closed /\ x.floor = b.floor /\ x.cursor = b.cursor
       /\ x.seen = b.seen \cup {lt}
  <2>1. b.seen \cup {lt} \in SUBSET LTs
    BY <1>8 DEF View
  <2> QED BY <1>8, <1>9, <2>1 DEF View, SameCopy
<1>11. NoCopy(x)
  BY <1>6, <1>8, <1>10 DEF NoCopy, SameCopy
<1>12. Promote(st, lt) = [st EXCEPT !.view = x, !.final = IF lt \in w.seen THEN @ ELSE @ \cup {m}]
  BY <1>1, <1>3, <1>5, <1>7, <1>9 DEF Promote
<1>13. CASE lt \in w.seen
  <2>1. PICK r : r = [st EXCEPT !.view = x]
    OBVIOUS
  <2>2. r \in ClientState /\ r.view = x /\ r.final = st.final /\ r.desync = st.desync
    BY <1>4, <1>10, <2>1, FinalGrows DEF ClientState
  <2>3. Promote(st, lt) = r
    BY <1>12, <1>13, <2>1 DEF ClientState
  <2> QED BY <1>1, <1>8, <1>10, <1>11, <1>13, <2>2, <2>3
<1>14. CASE lt \notin w.seen
  <2>1. PICK r : r = [st EXCEPT !.view = x, !.final = @ \cup {m}]
    OBVIOUS
  <2>2. r \in ClientState /\ r.view = x /\ r.final = st.final \cup {m} /\ r.desync = st.desync
    BY <1>4, <1>10, <2>1, FinalGrows DEF ClientState
  <2>3. Promote(st, lt) = r
    BY <1>12, <1>14, <2>1
  <2> QED BY <1>1, <1>3, <1>8, <1>10, <1>11, <1>14, <2>2, <2>3
<1> QED BY <1>13, <1>14

\* A committed entry keeps the copy or closes it.
LEMMA ApplyCommittedType ==
  ASSUME NEW st \in ClientState, NEW c \in Committed
  PROVE  /\ ApplyCommitted(st, c) \in ClientState
         /\ ApplyCommitted(st, c).view.closed = st.view.closed /\ ApplyCommitted(st, c).view.floor = st.view.floor
         /\ NoCopy(ApplyCommitted(st, c).view) \/ SameCopy(ApplyCommitted(st, c).view, st.view)
         /\ \A m \in ApplyCommitted(st, c).final :
              \/ m \in st.final
              \/ m.lt = c.lt /\ m.nodes = c.nodes /\ Full(c)
              \/ m.lt = c.lt /\ m.nodes = OpenNodes(st.view) /\ ~Full(c) /\ st.view.lt = c.lt /\ st.view.v = c.v
<1>1. c.lt \in LTs /\ st.view \in View
  BY DEF Committed, ClientState
<1>2. CASE Full(c)
  <2>1. ApplyCommitted(st, c) = Adopt(st, c)
    BY <1>2 DEF ApplyCommitted
  <2>2. PICK r : r = Adopt(st, c)
    OBVIOUS
  <2>3. /\ r \in ClientState /\ r.view.closed = st.view.closed /\ r.view.floor = st.view.floor
        /\ IF c.lt = st.view.lt THEN NoCopy(r.view) ELSE SameCopy(r.view, st.view)
    BY <2>2, AdoptIs
  <2>4. r.final = IF SeenClosed(st.view, c.lt) THEN st.final ELSE st.final \cup {[lt |-> c.lt, nodes |-> c.nodes]}
    BY <2>2, AdoptIs
  <2>5. \A m \in r.final : m \in st.final \/ (m.lt = c.lt /\ m.nodes = c.nodes)
    <3>1. PICK x : x = [lt |-> c.lt, nodes |-> c.nodes]
      OBVIOUS
    <3>2. x.lt = c.lt /\ x.nodes = c.nodes
      BY <3>1
    <3>3. \A m \in r.final : m \in st.final \/ m = x
      BY <2>4, <3>1
    <3> QED BY <3>2, <3>3
  <2> QED BY <1>2, <2>1, <2>2, <2>3, <2>5
<1>3. CASE ~Full(c) /\ st.view.lt = c.lt /\ st.view.v = c.v
  <2>1. ApplyCommitted(st, c) = Promote(st, c.lt)
    BY <1>3 DEF ApplyCommitted
  <2>2. PICK r : r = Promote(st, c.lt)
    OBVIOUS
  <2>3. r \in ClientState /\ r.view.closed = st.view.closed /\ r.view.floor = st.view.floor /\ NoCopy(r.view)
    BY <1>1, <2>2, PromoteIs
  <2>4. r.final = IF c.lt \in st.view.seen THEN st.final ELSE st.final \cup {[lt |-> c.lt, nodes |-> OpenNodes(st.view)]}
    BY <1>1, <2>2, PromoteIs
  <2>5. \A m \in r.final : m \in st.final \/ (m.lt = c.lt /\ m.nodes = OpenNodes(st.view))
    <3>1. PICK x : x = [lt |-> c.lt, nodes |-> OpenNodes(st.view)]
      OBVIOUS
    <3>2. x.lt = c.lt /\ x.nodes = OpenNodes(st.view)
      BY <3>1
    <3>3. \A m \in r.final : m \in st.final \/ m = x
      BY <2>4, <3>1
    <3> QED BY <3>2, <3>3
  <2> QED BY <1>3, <2>1, <2>2, <2>3, <2>5
<1>4. CASE ~Full(c) /\ ~(st.view.lt = c.lt /\ st.view.v = c.v)
  <2>1. ApplyCommitted(st, c) = [st EXCEPT !.desync = {st.view.cursor}]
    BY <1>4 DEF ApplyCommitted
  <2>2. {st.view.cursor} \in SUBSET LTs
    BY <1>1 DEF View
  <2>3. PICK r : r = [st EXCEPT !.desync = {st.view.cursor}]
    OBVIOUS
  <2>4. r \in ClientState /\ r.view = st.view /\ r.final = st.final
    BY <2>2, <2>3 DEF ClientState
  <2> QED BY <2>1, <2>3, <2>4 DEF SameCopy
<1> QED BY <1>2, <1>3, <1>4

\* The committed entries of a page, one after the other.
LEMMA AllRun ==
  ASSUME NEW st \in ClientState, NEW cs \in Seq(Committed)
  PROVE  \E G : /\ ApplyAll(st, cs) = G[Len(cs)] /\ G[0] = st
                /\ \A k \in 0..Len(cs) : G[k] \in ClientState
                /\ \A k \in 1..Len(cs) : G[k] = ApplyCommitted(G[k - 1], cs[k])
<1>0. PICK n \in Nat : n = Len(cs)
  BY LenProperties
<1> DEFINE G == CHOOSE After : After = [k \in 0..Len(cs) |-> IF k = 0 THEN st ELSE ApplyCommitted(After[k - 1], cs[k])]
           step == [x \in (1..n) \X ClientState |-> ApplyCommitted(x[2], cs[x[1]])]
<1>1. Stepwise(n, ClientState, step)
  <2>1. \A k \in 1..n, t \in ClientState : ApplyCommitted(t, cs[k]) \in ClientState
    BY <1>0, ElementOfSeq, ApplyCommittedType
  <2> QED BY <2>1 DEF Stepwise
<1>2. PICK f \in [0..n -> ClientState] : f[0] = st /\ \A k \in 1..n : f[k] = step[<<k, f[k - 1]>>]
  <2>1. PICK D, g, b : D = ClientState /\ g = step /\ b = st
    OBVIOUS
  <2>2. b \in D /\ Stepwise(n, D, g)
    BY <1>1, <2>1
  <2> HIDE DEF step
  <2>3. \E f \in [0..n -> D] : f[0] = b /\ \A k \in 1..n : f[k] = g[<<k, f[k - 1]>>]
    BY <2>2, Recursion, SMTT(30)
  <2> QED BY <2>1, <2>3
<1>3. \A k \in 1..n : f[k] = ApplyCommitted(f[k - 1], cs[k])
  <2> TAKE k \in 1..n
  <2>1. k - 1 \in 0..n
    OBVIOUS
  <2>2. f[k - 1] \in ClientState
    BY <1>2, <2>1
  <2>3. step[<<k, f[k - 1]>>] = ApplyCommitted(f[k - 1], cs[k])
    BY <2>2
  <2> QED BY <1>2, <2>3
<1> HIDE DEF step
<1>4. \A k \in 0..n : f[k] = IF k = 0 THEN st ELSE ApplyCommitted(f[k - 1], cs[k])
  <2> TAKE k \in 0..n
  <2>1. CASE k = 0
    BY <1>2, <2>1
  <2>2. CASE k # 0
    <3>1. k \in 1..n
      BY <2>2
    <3> QED BY <1>3, <2>2, <3>1
  <2> QED BY <2>1, <2>2
<1>5. f = [k \in 0..Len(cs) |-> IF k = 0 THEN st ELSE ApplyCommitted(f[k - 1], cs[k])]
  BY <1>0, <1>2, <1>4
<1>6. G = [k \in 0..Len(cs) |-> IF k = 0 THEN st ELSE ApplyCommitted(G[k - 1], cs[k])]
  BY <1>5
<1>7. ApplyAll(st, cs) = G[Len(cs)]
  BY DEF ApplyAll
<1> HIDE DEF G
<1>8. G[0] = st /\ \A k \in 1..Len(cs) : G[k] = ApplyCommitted(G[k - 1], cs[k])
  <2>1. \A k \in 0..Len(cs) : G[k] = IF k = 0 THEN st ELSE ApplyCommitted(G[k - 1], cs[k])
    BY <1>6
  <2>2. 0 \in 0..Len(cs) /\ \A k \in 1..Len(cs) : k \in 0..Len(cs) /\ k # 0
    BY <1>0
  <2> QED BY <2>1, <2>2
<1>9. \A k \in 0..n : G[k] \in ClientState
  <2> DEFINE T == {k \in 0..n : G[k] \in ClientState}
  <2>1. 0 \in T
    BY <1>8
  <2>2. ASSUME NEW m \in 0..(n - 1), m \in T PROVE m + 1 \in T
    <3>1. m + 1 \in 1..n /\ (m + 1) - 1 = m /\ m + 1 \in 0..n
      BY <2>2
    <3>2. G[m + 1] = ApplyCommitted(G[m], cs[m + 1]) /\ cs[m + 1] \in Committed
      BY <1>0, <1>8, <3>1, ElementOfSeq
    <3>3. G[m] \in ClientState
      BY <2>2
    <3>4. G[m + 1] \in ClientState
      <4>1. PICK x, d : x = G[m] /\ d = cs[m + 1]
        OBVIOUS
      <4>2. x \in ClientState /\ d \in Committed
        BY <3>2, <3>3, <4>1
      <4>3. ApplyCommitted(x, d) \in ClientState
        BY <4>2, ApplyCommittedType
      <4> QED BY <3>2, <4>1, <4>3
    <3> QED BY <3>1, <3>4
  <2>3. \A k \in 0..n : k \in T
    <3> HIDE DEF T
    <3> QED BY <2>1, <2>2, UpTo
  <2> QED BY <2>3
<1> QED BY <1>0, <1>7, <1>8, <1>9

\* trimClosed drops closed messages only, and raises the floor past them.
LEMMA TrimIs ==
  ASSUME NEW w \in View
  PROVE  /\ Trim(w) \in View /\ SameCopy(Trim(w), w) /\ Trim(w).closed \subseteq w.closed
         /\ Trim(w).cursor = w.cursor
<1> DEFINE kept == {m \in w.closed : Cardinality({x \in w.closed : x.lt > m.lt}) < ClosedLimit}
           lts  == {m.lt : m \in kept}
           low  == CHOOSE n \in lts : \A k \in lts : n <= k
           r    == [w EXCEPT !.closed = kept, !.seen = lts, !.floor = IF low > @ THEN low ELSE @]
<1>1. CASE ClosedLimit = 0 \/ Cardinality(w.closed) <= ClosedLimit
  <2>1. Trim(w) = w
    BY <1>1 DEF Trim
  <2> QED BY <2>1 DEF SameCopy
<1>2. CASE ~(ClosedLimit = 0 \/ Cardinality(w.closed) <= ClosedLimit)
  <2>1. Trim(w) = r
    BY <1>2 DEF Trim
  <2>2. \A m \in w.closed : m.lt \in LTs
    BY DEF View, Message
  <2>3. kept \subseteq w.closed /\ w.closed \in SUBSET Message
    BY DEF View
  <2>4. w.closed # {}
    <3> SUFFICES ASSUME w.closed = {} PROVE FALSE
      OBVIOUS
    <3>1. Cardinality(w.closed) = 0
      BY FS_EmptySet
    <3> QED BY <1>2, <3>1, AriaStreamAssumption
  <2>5. kept # {}
    <3> DEFINE S == {m.lt : m \in w.closed}
    <3>1. PICK N \in Nat : N = MaxUnits + 1
      BY LTsAre
    <3>2. S \subseteq 0..N /\ S # {}
      BY <2>2, <2>4, <3>1 DEF LTs
    <3>3. PICK k \in S : \A j \in (k + 1)..N : j \notin S
      <4> HIDE DEF S
      <4> QED BY <3>1, <3>2, GreatestOf
    <3>4. PICK m \in w.closed : m.lt = k
      BY <3>3
    <3>5. {x \in w.closed : x.lt > m.lt} = {}
      <4> SUFFICES ASSUME NEW x \in w.closed, x.lt > m.lt PROVE FALSE
        OBVIOUS
      <4>1. x.lt \in S /\ x.lt \in 0..N /\ k \in 0..N
        BY <3>2, <3>3
      <4>2. x.lt \in (k + 1)..N
        <5> HIDE DEF S
        <5> QED BY <3>1, <3>4, <4>1
      <4> QED BY <3>3, <4>1, <4>2
    <3>6. Cardinality({x \in w.closed : x.lt > m.lt}) = 0
      BY <3>5, FS_EmptySet
    <3>7. 0 < ClosedLimit
      BY <1>2, AriaStreamAssumption
    <3>8. m \in kept
      BY <3>4, <3>6, <3>7
    <3> QED BY <3>8
  <2>6. lts \subseteq LTs /\ lts # {}
    <3>1. \A m \in kept : m.lt \in LTs
      BY <2>2
    <3> HIDE DEF kept
    <3> QED BY <2>5, <3>1
  <2>7. low \in lts
    <3>1. lts \subseteq Nat
      BY <2>6, LTsAre
    <3> HIDE DEF lts
    <3> QED BY <2>6, <3>1, LeastOf
  <2>8. PICK K, L, f : K = kept /\ L = lts /\ f = IF low > w.floor THEN low ELSE w.floor
    <3> HIDE DEF kept, lts, low
    <3> QED OBVIOUS
  <2>9. K \in SUBSET Message /\ K \subseteq w.closed /\ L \in SUBSET LTs /\ f \in LTs
    <3> HIDE DEF kept, lts, low
    <3> QED BY <2>3, <2>6, <2>7, <2>8 DEF View
  <2>10. r = [w EXCEPT !.closed = K, !.seen = L, !.floor = f]
    BY <2>8
  <2> HIDE DEF kept, lts, low, r
  <2>11. r \in View /\ r.closed = K /\ r.cursor = w.cursor /\ SameCopy(r, w)
    BY <2>9, <2>10 DEF View, SameCopy
  <2> QED BY <2>1, <2>9, <2>11
<1> QED BY <1>1, <1>2

\* The nodes of a frame change the copy's order and blocks only.
LEMMA ApplyNodesType ==
  ASSUME NEW w \in View, NEW ds \in Seq(NodeDelta)
  PROVE  /\ ApplyNodes(w, ds) \in View
         /\ ApplyNodes(w, ds).lt = w.lt /\ ApplyNodes(w, ds).v = w.v /\ ApplyNodes(w, ds).closed = w.closed
         /\ ApplyNodes(w, ds).seen = w.seen /\ ApplyNodes(w, ds).floor = w.floor
         /\ ApplyNodes(w, ds).cursor = w.cursor
<1>1. PICK n \in Nat : n = Len(ds)
  BY LenProperties
<1>2. PICK G : /\ ApplyNodes(w, ds) = G[n] /\ G[0] = w /\ \A k \in 0..n : G[k] \in View
               /\ \A k \in 1..n : G[k] = ApplyNode(G[k - 1], ds[k])
  BY <1>1, NodesRun
<1> DEFINE Like(x) == /\ x.lt = w.lt /\ x.v = w.v /\ x.closed = w.closed
                      /\ x.seen = w.seen /\ x.floor = w.floor /\ x.cursor = w.cursor
           T == {k \in 0..n : Like(G[k])}
<1>3. 0 \in T
  BY <1>2
<1>4. ASSUME NEW k \in 0..(n - 1), k \in T PROVE k + 1 \in T
  <2>1. k + 1 \in 1..n /\ (k + 1) - 1 = k /\ k \in 0..n /\ k + 1 \in 0..n
    BY <1>4
  <2>2. PICK x, d : x = G[k] /\ d = ds[k + 1]
    OBVIOUS
  <2>3. x \in View /\ d \in NodeDelta /\ G[k + 1] = ApplyNode(x, d)
    BY <1>1, <1>2, <2>1, <2>2, ElementOfSeq
  <2>4. Like(x)
    BY <1>4, <2>2
  <2>5. Like(ApplyNode(x, d))
    <3>1. PICK y : y = ApplyNode(x, d)
      OBVIOUS
    <3>2. y.lt = x.lt /\ y.v = x.v /\ y.closed = x.closed /\ y.seen = x.seen /\ y.floor = x.floor /\ y.cursor = x.cursor
      BY <2>3, <3>1, ApplyNodeType
    <3>3. Like(y)
      BY <2>4, <3>2
    <3> QED BY <3>1, <3>3
  <2> HIDE DEF Like
  <2> QED BY <2>1, <2>3, <2>5
<1>5. \A k \in 0..n : k \in T
  <2> HIDE DEF T
  <2> QED BY <1>3, <1>4, UpTo
<1>6. n \in 0..n
  OBVIOUS
<1>7. Like(G[n])
  BY <1>5, <1>6
<1> QED BY <1>2, <1>6, <1>7

LEMMA ApplyLiveType ==
  ASSUME NEW w \in View, NEW f \in GoodLive
  PROVE  /\ ApplyLive(w, f) \in View /\ ApplyLive(w, f).closed = w.closed /\ ApplyLive(w, f).seen = w.seen
         /\ ApplyLive(w, f).floor = w.floor /\ ApplyLive(w, f).cursor = w.cursor
<1>1. f.lt \in LTs /\ f.v \in Nat /\ f.nodes \in Seq(NodeDelta)
  BY DEF GoodLive, GoodDeltas
<1>2. CASE f.lt = 0
  BY <1>2 DEF ApplyLive
<1>3. CASE f.lt # 0
  <2>1. PICK x : x = ResetOpen(w)
    OBVIOUS
  <2>2. x \in View /\ x.closed = w.closed /\ x.seen = w.seen /\ x.floor = w.floor /\ x.cursor = w.cursor
    BY <2>1, ResetOpenType
  <2>3. PICK b : b = IF w.lt = f.lt THEN w ELSE [x EXCEPT !.lt = f.lt]
    OBVIOUS
  <2>4. b \in View /\ b.closed = w.closed /\ b.seen = w.seen /\ b.floor = w.floor /\ b.cursor = w.cursor
    BY <1>1, <2>2, <2>3 DEF View
  <2>5. PICK a : a = ApplyNodes(b, f.nodes)
    OBVIOUS
  <2>6. a \in View /\ a.closed = w.closed /\ a.seen = w.seen /\ a.floor = w.floor /\ a.cursor = w.cursor
    BY <1>1, <2>4, <2>5, ApplyNodesType
  <2>7. ApplyLive(w, f) = [a EXCEPT !.v = f.v]
    BY <1>3, <2>1, <2>3, <2>5 DEF ApplyLive
  <2> QED BY <1>1, <2>6, <2>7 DEF View
<1> QED BY <1>2, <1>3

\* A page: its committed entries, the trim, its live part.
LEMMA ApplyPageIs ==
  ASSUME NEW w \in View, NEW f \in GoodPage
  PROVE  \E s \in ClientState, y \in View :
           /\ s = ApplyAll([view |-> w, final |-> {}, desync |-> {}], f.committed)
           /\ y.closed \subseteq s.view.closed \cup s.final /\ SameCopy(y, s.view) /\ y.cursor = s.view.cursor
           /\ y = Trim([s.view EXCEPT !.closed = @ \cup s.final])
           /\ ApplyPage(w, f).view = ApplyLive(y, f.live) /\ ApplyPage(w, f).view \in View
           /\ ApplyPage(w, f).view.closed = y.closed
           /\ ApplyPage(w, f).final = s.final /\ ApplyPage(w, f).desync = s.desync
<1>1. f.committed \in Seq(Committed) /\ f.live \in GoodLive
  BY DEF GoodPage
<1>2. PICK st : st = [view |-> w, final |-> {}, desync |-> {}]
  OBVIOUS
<1>3. st \in ClientState
  BY <1>2, FS_EmptySet DEF ClientState
<1>4. PICK s : s = ApplyAll(st, f.committed)
  OBVIOUS
<1>5. s \in ClientState
  <2>1. PICK G : /\ ApplyAll(st, f.committed) = G[Len(f.committed)]
                 /\ \A k \in 0..Len(f.committed) : G[k] \in ClientState
    BY <1>1, <1>3, AllRun
  <2>2. Len(f.committed) \in 0..Len(f.committed)
    BY <1>1, LenProperties
  <2> QED BY <1>4, <2>1, <2>2
<1>6. s.view \in View /\ s.final \in SUBSET Message
  BY <1>5 DEF ClientState
<1>7. PICK x : x = [s.view EXCEPT !.closed = @ \cup s.final]
  OBVIOUS
<1>8. x \in View /\ x.closed = s.view.closed \cup s.final /\ SameCopy(x, s.view) /\ x.cursor = s.view.cursor
  <2>1. s.view.closed \cup s.final \in SUBSET Message
    BY <1>6 DEF View
  <2> QED BY <1>6, <1>7, <2>1 DEF View, SameCopy
<1>9. PICK y : y = Trim(x)
  OBVIOUS
<1>10. y \in View /\ y.closed \subseteq s.view.closed \cup s.final /\ SameCopy(y, s.view) /\ y.cursor = s.view.cursor
  BY <1>8, <1>9, TrimIs DEF SameCopy
<1>11. PICK z : z = ApplyLive(y, f.live)
  OBVIOUS
<1>12. z \in View /\ z.closed = y.closed
  BY <1>1, <1>10, <1>11, ApplyLiveType
<1>13. ApplyPage(w, f) = [s EXCEPT !.view = z]
  BY <1>2, <1>4, <1>7, <1>9, <1>11 DEF ApplyPage
<1>14. [s EXCEPT !.view = z].view = z /\ [s EXCEPT !.view = z].final = s.final /\ [s EXCEPT !.view = z].desync = s.desync
  BY <1>5 DEF ClientState
<1>15. y = Trim([s.view EXCEPT !.closed = @ \cup s.final]) /\ s = ApplyAll([view |-> w, final |-> {}, desync |-> {}], f.committed)
  BY <1>2, <1>4, <1>7, <1>9
<1>16. ApplyPage(w, f).view = z /\ ApplyPage(w, f).final = s.final /\ ApplyPage(w, f).desync = s.desync
  BY <1>13, <1>14
<1>17. ApplyPage(w, f).view = ApplyLive(y, f.live) /\ ApplyPage(w, f).view \in View /\ ApplyPage(w, f).view.closed = y.closed
  BY <1>11, <1>12, <1>16
<1>18. s \in ClientState /\ y \in View
  BY <1>5, <1>10
<1> QED BY <1>10, <1>15, <1>16, <1>17, <1>18, Zenon

-----------------------------------------------------------------------------
(* The types are kept *)

\* Sequences of one element, and of one more.
LEMMA OneOf ==
  ASSUME NEW S, NEW x \in S
  PROVE  <<x>> \in Seq(S) /\ Len(<<x>>) = 1 /\ <<x>>[1] = x /\ DOMAIN <<x>> = 1..1
OBVIOUS

LEMMA QueryTypes ==
  /\ NoPage \in GoodPage /\ Idle \in GoodQuery
  /\ \A r : Through(r) \in GoodQuery
  /\ \A lt \in LTs \cup {RecentCursor} : Ask(lt) \in GoodQuery
<1>1. PICK e : e = <<>>
  OBVIOUS
<1>2. e \in Seq(Committed)
  BY <1>1, EmptySeq
<1>3. NoPage \in GoodPage
  BY <1>1, <1>2, NoLiveType DEF NoPage, Frame, GoodPage
<1>4. Idle \in GoodQuery
  BY <1>1, <1>2, <1>3, LTsAre DEF Idle, GoodQuery
<1>5. \A r : Through(r) \in GoodQuery
  BY <1>4 DEF Through, GoodQuery
<1>6. \A lt \in LTs \cup {RecentCursor} : Ask(lt) \in GoodQuery
  BY <1>4 DEF Ask, GoodQuery
<1> QED BY <1>3, <1>4, <1>5, <1>6

LEMMA FoldTypes ==
  ASSUME Types, NEW f \in GoodPage, NEW isAnswer, NEW from, Fold(f, isAnswer, from)
  PROVE  view' \in View /\ shown' \in [LTs -> Nat] /\ broken' \in SUBSET LTs /\ reads' \in [Readers -> GoodQuery]
<1>1. view \in View /\ shown \in [LTs -> Nat] /\ broken \in SUBSET LTs /\ reads \in [Readers -> GoodQuery]
  BY DEF Types, ClientTypes, ChannelTypes
<1>2. PICK a : a = ApplyPage(view, f)
  OBVIOUS
<1>3. PICK s \in ClientState : a.view \in View /\ a.final = s.final /\ a.desync = s.desync
  BY <1>1, <1>2, ApplyPageIs
<1>4. IsFiniteSet(a.final) /\ a.desync \in SUBSET LTs
  BY <1>3 DEF ClientState
<1>5. \A lt \in LTs : Cardinality({m \in a.final : m.lt = lt}) \in Nat
  <2> TAKE lt \in LTs
  <2>1. IsFiniteSet({m \in a.final : m.lt = lt})
    BY <1>4, FS_Subset
  <2> QED BY <2>1, FS_CardinalityType
<1>6. shown' \in [LTs -> Nat]
  <2>1. shown' = [lt \in LTs |-> shown[lt] + Cardinality({m \in a.final : m.lt = lt})]
    BY <1>2 DEF Fold
  <2>2. \A lt \in LTs : shown[lt] + Cardinality({m \in a.final : m.lt = lt}) \in Nat
    BY <1>1, <1>5
  <2> QED BY <2>1, <2>2
<1>7. view' \in View
  BY <1>2, <1>3 DEF Fold
<1>8. broken' \in SUBSET LTs
  <2>1. f.live.lt \in LTs
    BY DEF GoodPage, GoodLive
  <2> QED BY <1>1, <2>1 DEF Fold
<1>9. reads' \in [Readers -> GoodQuery]
  <2>1. PICK freed : freed = [r \in Readers |-> IF r \in from THEN Through(r) ELSE reads[r]]
    OBVIOUS
  <2>2. freed \in [Readers -> GoodQuery]
    BY <1>1, <2>1, QueryTypes
  <2>3. IF a.desync = {} THEN reads' = freed
        ELSE \E r \in Healers, lt \in a.desync : freed[r] = Idle /\ reads' = [freed EXCEPT ![r] = Ask(lt)]
    BY <1>2, <2>1 DEF Fold
  <2>4. \A lt \in a.desync : Ask(lt) \in GoodQuery
    BY <1>4, QueryTypes
  <2> QED BY <2>2, <2>3, <2>4
<1> QED BY <1>6, <1>7, <1>8, <1>9

LEMMA OpenTypes ==
  ASSUME Types, Open
  PROVE  Types'
<1>1. /\ unitLT \in LTs /\ LastLT(history) <= unitLT /\ opened \in Seq(LTs) /\ unitLT <= Len(opened)
      /\ history \in Seq(Message) /\ Ascending(history)
  BY DEF Types, ServerTypes
<1>2. Len(opened) \in Nat /\ unitLT \in Nat /\ LastLT(history) \in Nat /\ MaxUnits \in Nat
  BY <1>1, LenProperties, LTsAre, LastIs
<1>3. unitLT' = unitLT + 1 /\ open' = [NoOpen EXCEPT !.lt = unitLT + 1] /\ opened' = Append(opened, unitLT') /\ Len(opened) < MaxUnits
  BY DEF Open
<1>4. unitLT + 1 \in LTs
  <2>1. unitLT + 1 \in Nat /\ unitLT + 1 <= MaxUnits + 1
    BY <1>1, <1>2, <1>3
  <2> QED BY <2>1, LTsAre
<1>5. opened' \in Seq(LTs) /\ Len(opened') = Len(opened) + 1
  BY <1>1, <1>3, <1>4, AppendProperties
<1>6. PICK e : e = <<>>
  OBVIOUS
<1>7. e \in Seq(Texts) /\ Len(e) = 0
  BY <1>6, EmptySeq
<1>8. open' = [lt |-> unitLT + 1, nodes |-> e, ver |-> 0]
  BY <1>3, <1>6 DEF NoOpen
<1>9. open'.lt = unitLT + 1 /\ open'.nodes = e /\ open'.ver = 0
  BY <1>8
<1>10. open' \in [lt : LTs, nodes : Seq(Texts), ver : Nat]
  BY <1>4, <1>7, <1>8
<1>11. open'.lt # 0 /\ LastLT(history) < open'.lt /\ open'.lt <= unitLT' /\ LastLT(history) <= unitLT'
  BY <1>1, <1>2, <1>3, <1>9
<1>12. unitLT' <= Len(opened') /\ Len(opened') <= MaxUnits + 1
  BY <1>1, <1>2, <1>3, <1>5
<1>13. (open'.ver = 0) = (open'.nodes = <<>>) /\ Len(open'.nodes) <= MaxNodes
  BY <1>6, <1>7, <1>9, AriaStreamAssumption
<1>14. history' = history
  BY DEF Open
<1>15. ServerTypes'
  BY <1>1, <1>3, <1>4, <1>5, <1>10, <1>11, <1>12, <1>13, <1>14 DEF ServerTypes
<1>16. broken' \in SUBSET LTs
  BY <1>3, <1>4 DEF Open, Types, ClientTypes
<1>17. ChannelTypes' /\ ClientTypes'
  BY <1>16 DEF Open, Types, ChannelTypes, ClientTypes
<1> QED BY <1>15, <1>17 DEF Types

\* The nodes of the open message after an Update.
LEMMA UpdatedNodes ==
  ASSUME NEW olds \in Seq(Texts), NEW news \in NodeLists, Len(olds) <= MaxNodes
  PROVE  LET u == news \o SubSeq(olds, Len(news) + 1, Len(olds))
         IN /\ u \in Seq(Texts) /\ u # <<>> /\ Len(u) <= MaxNodes
            /\ Len(u) = IF Len(news) < Len(olds) THEN Len(olds) ELSE Len(news)
            /\ \A i \in 1..Len(u) : u[i] = IF i <= Len(news) THEN news[i] ELSE olds[i]
<1>1. PICK n \in Nat : n = Len(news) /\ n >= 1 /\ n <= MaxNodes /\ news \in Seq(Texts)
  BY NodeListIs, LenProperties, AriaStreamAssumption
<1>2. PICK m \in Nat : m = Len(olds)
  BY LenProperties
<1>3. PICK t : t = SubSeq(olds, n + 1, m)
  OBVIOUS
<1>4. PICK k \in Nat : k = IF n < m THEN m - n ELSE 0
  BY <1>1, <1>2
<1>5. t \in Seq(Texts) /\ Len(t) = k /\ \A i \in 1..k : t[i] = olds[n + i]
  <2>1. CASE n < m
    <3>1. n + k = m /\ n + k <= Len(olds)
      BY <1>2, <1>4, <2>1
    <3>2. SubSeq(olds, n + 1, n + k) = t
      BY <1>3, <3>1
    <3>3. n + k <= Len(olds)
      BY <3>1
    <3> QED BY <3>2, <3>3, Stretch
  <2>2. CASE ~(n < m)
    <3>1. m < n + 1 /\ k = 0
      BY <1>4, <2>2
    <3>2. t = <<>>
      BY <1>3, <3>1, SubSeqEmpty
    <3> QED BY <3>1, <3>2, EmptySeq
  <2> QED BY <2>1, <2>2
<1>6. PICK u : u = news \o t
  OBVIOUS
<1>7. /\ u \in Seq(Texts) /\ Len(u) = n + k
      /\ \A i \in 1..n : u[i] = news[i]
      /\ \A i \in 1..k : u[n + i] = olds[n + i]
  <2>1. news \in Seq(Texts) /\ t \in Seq(Texts)
    BY <1>1, <1>5
  <2>2. /\ u \in Seq(Texts) /\ Len(u) = Len(news) + Len(t)
        /\ \A i \in 1..Len(news) : u[i] = news[i]
        /\ \A i \in 1..Len(t) : u[Len(news) + i] = t[i]
    BY <1>6, <2>1, Joined
  <2> QED BY <1>1, <1>5, <2>2
<1>8. \A i \in 1..(n + k) : u[i] = IF i <= n THEN news[i] ELSE olds[i]
  <2> TAKE i \in 1..(n + k)
  <2>1. CASE i <= n
    BY <1>7, <2>1
  <2>2. CASE ~(i <= n)
    <3>1. i - n \in 1..k /\ n + (i - n) = i
      BY <2>2
    <3> QED BY <1>7, <2>2, <3>1
  <2> QED BY <2>1, <2>2
<1>9. n + k = IF n < m THEN m ELSE n
  BY <1>4
<1>10. u # <<>>
  BY <1>1, <1>7, EmptyText
<1>11. n + k <= MaxNodes
  BY <1>1, <1>2, <1>9
<1> QED BY <1>1, <1>2, <1>3, <1>6, <1>7, <1>8, <1>9, <1>10, <1>11

LEMMA UpdateTypes ==
  ASSUME Types, NEW news \in NodeLists, Update(news)
  PROVE  Types'
<1>1. open.nodes \in Seq(Texts) /\ Len(open.nodes) <= MaxNodes /\ open.lt \in LTs /\ open.ver \in Nat /\ open.lt # 0
  BY DEF Update, Types, ServerTypes
<1>2. PICK u : u = news \o SubSeq(open.nodes, Len(news) + 1, Len(open.nodes))
  OBVIOUS
<1>3. u \in Seq(Texts) /\ u # <<>> /\ Len(u) <= MaxNodes
  BY <1>1, <1>2, UpdatedNodes
<1>4. open' = [open EXCEPT !.nodes = u, !.ver = @ + 1]
  BY <1>2 DEF Update
<1>5. open \in [lt : LTs, nodes : Seq(Texts), ver : Nat]
  BY DEF Types, ServerTypes
<1>6. /\ open' \in [lt : LTs, nodes : Seq(Texts), ver : Nat]
      /\ open'.lt = open.lt /\ open'.nodes = u /\ open'.ver = open.ver + 1
  <2>1. PICK o, v : o = open /\ v = open.ver + 1
    OBVIOUS
  <2>2. v \in Nat /\ o \in [lt : LTs, nodes : Seq(Texts), ver : Nat]
    BY <1>1, <1>5, <2>1
  <2>3. open' = [o EXCEPT !.nodes = u, !.ver = v]
    BY <1>4, <1>5, <2>1
  <2>4. open' \in [lt : LTs, nodes : Seq(Texts), ver : Nat] /\ open'.lt = o.lt /\ open'.nodes = u /\ open'.ver = v
    BY <1>3, <2>2, <2>3
  <2> QED BY <2>1, <2>4
<1>7. open'.ver # 0
  BY <1>1, <1>6
<1>8. ServerTypes'
  <2>1. UNCHANGED <<history, unitLT, opened>>
    BY DEF Update
  <2> QED BY <1>1, <1>3, <1>6, <1>7, <2>1 DEF Types, ServerTypes
<1>9. PICK ds : ds = Deltas(open.nodes, news)
  OBVIOUS
<1>10. ds \in GoodDeltas
  BY <1>1, <1>9, DeltasType
<1>11. PICK e : e = <<>>
  OBVIOUS
<1>12. PICK p : p = Frame(<<>>, [lt |-> open.lt, v |-> open.ver, nodes |-> ds])
  OBVIOUS
<1>13. p \in GoodPage
  <2>1. e \in Seq(Committed)
    BY <1>11, EmptySeq
  <2>2. p = [committed |-> e, live |-> [lt |-> open.lt, v |-> open.ver, nodes |-> ds]]
    BY <1>11, <1>12 DEF Frame
  <2> QED BY <1>1, <1>10, <2>1, <2>2 DEF GoodPage, GoodLive
<1>14. pending' \in Seq(GoodPage)
  BY <1>9, <1>12, <1>13, OneOf DEF Update
<1>15. ChannelTypes' /\ ClientTypes'
  BY <1>14 DEF Update, Types, ChannelTypes, ClientTypes
<1> QED BY <1>8, <1>15 DEF Types

LEMMA NoOpenType ==
  /\ NoOpen \in [lt : LTs, nodes : Seq(Texts), ver : Nat]
  /\ NoOpen.lt = 0 /\ NoOpen.nodes = <<>> /\ NoOpen.ver = 0 /\ Len(NoOpen.nodes) <= MaxNodes
<1>1. PICK e : e = <<>>
  OBVIOUS
<1>2. e \in Seq(Texts) /\ Len(e) = 0
  BY <1>1, EmptySeq
<1>3. NoOpen = [lt |-> 0, nodes |-> e, ver |-> 0]
  BY <1>1 DEF NoOpen
<1> QED BY <1>1, <1>2, <1>3, LTsAre, AriaStreamAssumption

\* A message of texts is a message.
LEMMA TextsAre ==
  ASSUME NEW ns \in Seq(Texts)
  PROVE  ns \in Seq(Seq(Bytes))
<1>1. Texts \subseteq Seq(Bytes)
  BY TextIs
<1> QED BY <1>1, SeqMonotonic

LEMMA CloseTypes ==
  ASSUME Types, Close
  PROVE  Types'
<1>1. /\ history \in Seq(Message) /\ Ascending(history) /\ open.lt \in LTs /\ open.nodes \in Seq(Texts) /\ open.ver \in Nat
      /\ open.lt # 0 /\ LastLT(history) < open.lt /\ open.lt <= unitLT
  BY DEF Close, Types, ServerTypes
<1>2. PICK m : m = [lt |-> open.lt, nodes |-> open.nodes]
  OBVIOUS
<1>3. m \in Message /\ m.lt = open.lt
  BY <1>1, <1>2, TextsAre DEF Message
<1>4. history' = Append(history, m) /\ published' = published \cup {m} /\ open' = NoOpen
  BY <1>2 DEF Close
<1>5. PICK n \in Nat : n = Len(history) /\ DOMAIN history = 1..n
  BY <1>1, LenProperties
<1>6. PICK h : h = Append(history, m)
  OBVIOUS
<1>7. /\ h \in Seq(Message) /\ Len(h) = n + 1 /\ DOMAIN h = 1..(n + 1) /\ h[n + 1] = m
      /\ \A i \in 1..n : h[i] = history[i]
  <2>1. h \in Seq(Message) /\ Len(h) = Len(history) + 1 /\ h[Len(history) + 1] = m /\ \A i \in 1..Len(history) : h[i] = history[i]
    BY <1>1, <1>3, <1>6, AppendProperties
  <2> QED BY <1>5, <2>1, LenProperties
<1>8. \A i \in 1..n : history[i].lt \in Nat /\ history[i].lt < open.lt /\ i <= history[i].lt
  <2> TAKE i \in 1..n
  <2>1. history[i].lt \in LTs /\ history[i].lt <= LastLT(history) /\ LastLT(history) \in LTs
    BY <1>1, <1>5, LastIs
  <2>2. i <= history[i].lt
    BY <1>1, <1>5 DEF Ascending
  <2>3. history[i].lt \in Nat /\ LastLT(history) \in Nat /\ open.lt \in Nat
    BY <1>1, <2>1, LTsAre
  <2> QED BY <1>1, <2>1, <2>2, <2>3
<1>9. n + 1 <= open.lt
  <2>1. n <= LastLT(history) /\ LastLT(history) \in Nat /\ open.lt \in Nat
    BY <1>1, <1>5, LastIs, LTsAre
  <2> QED BY <1>1, <2>1
<1>10. Ascending(h)
  <2>1. ASSUME NEW i \in 1..(n + 1), NEW j \in 1..(n + 1), i < j PROVE h[i].lt < h[j].lt
    <3>1. i \in 1..n
      BY <2>1
    <3>2. CASE j = n + 1
      BY <1>3, <1>7, <1>8, <3>1, <3>2
    <3>3. CASE j # n + 1
      <4>1. j \in 1..n
        BY <3>3
      <4>2. history[i].lt < history[j].lt
        BY <1>1, <1>5, <2>1, <3>1, <4>1 DEF Ascending
      <4> QED BY <1>7, <3>1, <4>1, <4>2
    <3> QED BY <3>2, <3>3
  <2>2. ASSUME NEW i \in 1..(n + 1) PROVE i <= h[i].lt
    <3>1. CASE i = n + 1
      BY <1>3, <1>7, <1>9, <3>1
    <3>2. CASE i # n + 1
      <4>1. i \in 1..n
        BY <3>2
      <4> QED BY <1>7, <1>8, <4>1
    <3> QED BY <3>1, <3>2
  <2> QED BY <1>7, <2>1, <2>2 DEF Ascending
<1>11. LastLT(h) = open.lt
  <2>1. h # <<>>
    BY <1>7, EmptyText
  <2> QED BY <1>3, <1>7, <2>1 DEF LastLT, Last
<1>12. ServerTypes'
  <2>1. history' \in Seq(Message) /\ Ascending(history') /\ LastLT(history') <= unitLT
    BY <1>1, <1>4, <1>6, <1>7, <1>10, <1>11
  <2>2. UNCHANGED <<unitLT, opened>>
    BY DEF Close
  <2> QED BY <1>4, <2>1, <2>2, NoOpenType DEF Types, ServerTypes
<1>13. PICK k \in Nat : k = IF open.ver = 0 THEN 0 ELSE open.ver - 1
  BY <1>1
<1>14. PICK p : p = Frame(<<Marker(open.lt, k)>>, NoLive)
  OBVIOUS
<1>15. p \in GoodPage
  <2>1. PICK c, e : c = Marker(open.lt, k) /\ e = <<>>
    OBVIOUS
  <2>2. e \in Seq(Seq(Bytes)) /\ c = [lt |-> open.lt, v |-> k, nodes |-> e]
    BY <2>1, EmptySeq DEF Marker
  <2>3. c \in Committed
    BY <1>1, <2>2 DEF Committed
  <2>4. <<c>> \in Seq(Committed)
    BY <2>3, OneOf
  <2> QED BY <1>14, <2>1, <2>4, NoLiveType DEF Frame, GoodPage
<1>16. pending' \in Seq(GoodPage)
  BY <1>13, <1>14, <1>15, OneOf DEF Close
<1>17. published' \in SUBSET Message
  BY <1>3, <1>4 DEF Types, ClientTypes
<1>18. ChannelTypes' /\ ClientTypes'
  BY <1>16, <1>17 DEF Close, Types, ChannelTypes, ClientTypes
<1> QED BY <1>12, <1>18 DEF Types

LEMMA AbandonTypes ==
  ASSUME Types, Abandon
  PROVE  Types'
<1>1. ServerTypes'
  BY NoOpenType DEF Abandon, Types, ServerTypes
<1>2. ChannelTypes' /\ ClientTypes'
  BY DEF Abandon, Types, ChannelTypes, ClientTypes
<1> QED BY <1>1, <1>2 DEF Types

\* The units of the log, numbered anew (reconcileAriaServer).
Numbered(h, tail) ==
  LET kept == Picked(h, {i \in DOMAIN h : h[i].nodes # <<>>})
      all  == [i \in DOMAIN kept |-> kept[i].nodes] \o tail
  IN [i \in DOMAIN all |-> [lt |-> i, nodes |-> all[i]]]

NoBlank(tail) == \A i \in 1..Len(tail) : tail[i] # <<>>

LEMMA NumberedIs ==
  ASSUME NEW h \in Seq(Message), NEW tail \in Seq(Seq(Seq(Bytes))), NoBlank(tail),
         Len(h) + Len(tail) <= MaxUnits + 1
  PROVE  /\ Numbered(h, tail) \in Seq(Message) /\ Len(Numbered(h, tail)) \in Nat
         /\ Len(Numbered(h, tail)) <= Len(h) + Len(tail)
         /\ \A i \in 1..Len(Numbered(h, tail)) : Numbered(h, tail)[i].lt = i /\ Numbered(h, tail)[i].nodes # <<>>
<1>1. PICK I : I = {i \in DOMAIN h : h[i].nodes # <<>>}
  OBVIOUS
<1>2. I \subseteq DOMAIN h
  BY <1>1
<1>3. PICK kept : kept = Picked(h, I)
  OBVIOUS
<1>4. kept \in Seq(Message) /\ Len(kept) <= Len(h) /\ \E g : PartOf(kept, h, I, g)
  BY <1>2, <1>3, PickedPart
<1>5. PICK k \in Nat : k = Len(kept) /\ DOMAIN kept = 1..k
  BY <1>4, LenProperties
<1>6. PICK ns : ns = [i \in 1..k |-> kept[i].nodes]
  OBVIOUS
<1>7. \A i \in 1..k : kept[i].nodes \in Seq(Seq(Bytes)) /\ kept[i].nodes # <<>>
  <2> TAKE i \in 1..k
  <2>1. kept[i] \in Message
    BY <1>4, <1>5, ElementOfSeq
  <2>2. PICK g : PartOf(kept, h, I, g)
    BY <1>4
  <2>3. kept[i] = h[g[i]] /\ g[i] \in I
    BY <1>5, <2>2 DEF PartOf
  <2> QED BY <1>1, <2>1, <2>3 DEF Message
<1>8. ns \in Seq(Seq(Seq(Bytes))) /\ Len(ns) = k /\ \A i \in 1..k : ns[i] = kept[i].nodes
  <2>1. PICK X : X = Seq(Seq(Bytes))
    OBVIOUS
  <2>2. ns \in [1..k -> X]
    BY <1>6, <1>7, <2>1
  <2>3. ns \in Seq(X) /\ Len(ns) = k
    BY <2>2
  <2>4. \A i \in 1..k : ns[i] = kept[i].nodes
    BY <1>6
  <2> QED BY <2>1, <2>3, <2>4
<1>9. PICK m \in Nat : m = Len(tail)
  BY LenProperties
<1>10. PICK all : all = ns \o tail
  OBVIOUS
<1>11. /\ all \in Seq(Seq(Seq(Bytes))) /\ Len(all) = k + m
       /\ \A i \in 1..k : all[i] = ns[i]
       /\ \A i \in 1..m : all[k + i] = tail[i]
  <2>1. ns \in Seq(Seq(Seq(Bytes))) /\ tail \in Seq(Seq(Seq(Bytes)))
    BY <1>8
  <2>2. /\ all \in Seq(Seq(Seq(Bytes))) /\ Len(all) = Len(ns) + Len(tail)
        /\ \A i \in 1..Len(ns) : all[i] = ns[i]
        /\ \A i \in 1..Len(tail) : all[Len(ns) + i] = tail[i]
    BY <1>10, <2>1, Joined
  <2> QED BY <1>8, <1>9, <2>2
<1>12. ASSUME NEW i \in 1..(k + m) PROVE all[i] # <<>> /\ all[i] \in Seq(Seq(Bytes)) /\ i \in LTs
  <2>1. all[i] \in Seq(Seq(Bytes))
    BY <1>11, <1>12, ElementOfSeq
  <2>2. all[i] # <<>>
    <3>1. CASE i <= k
      <4>1. i \in 1..k
        BY <1>12, <3>1
      <4>2. all[i] = ns[i] /\ ns[i] = kept[i].nodes
        BY <1>8, <1>11, <4>1
      <4> QED BY <1>7, <4>1, <4>2
    <3>2. CASE ~(i <= k)
      <4>1. i - k \in 1..m /\ k + (i - k) = i
        BY <1>12, <3>2
      <4>2. tail[i - k] # <<>>
        BY <1>9, <4>1 DEF NoBlank
      <4> QED BY <1>11, <4>1, <4>2
    <3> QED BY <3>1, <3>2
  <2>3. i \in Nat /\ i <= MaxUnits + 1
    <3>1. Len(h) \in Nat
      BY LenProperties
    <3>2. i \in Nat /\ i <= k + m /\ k <= Len(h)
      BY <1>4, <1>5, <1>12
    <3> QED BY <1>9, <3>1, <3>2, LTsAre
  <2> QED BY <2>1, <2>2, <2>3, LTsAre
<1>13. PICK new : new = [i \in 1..(k + m) |-> [lt |-> i, nodes |-> all[i]]]
  OBVIOUS
<1>14. \A i \in 1..(k + m) : new[i] \in Message /\ new[i].lt = i /\ new[i].nodes # <<>>
  BY <1>12, <1>13 DEF Message
<1>15. new \in Seq(Message) /\ Len(new) = k + m
  <2>1. new \in [1..(k + m) -> Message]
    BY <1>13, <1>14
  <2> QED BY <1>13, <2>1
<1>16. Numbered(h, tail) = new
  <2>1. DOMAIN all = 1..(k + m)
    BY <1>11, LenProperties
  <2> QED BY <1>1, <1>3, <1>5, <1>6, <1>10, <1>13, <2>1 DEF Numbered
<1>17. k + m \in Nat /\ k + m <= Len(h) + Len(tail)
  BY <1>4, <1>5, <1>9, LenProperties
<1> QED BY <1>14, <1>15, <1>16, <1>17

\* What Reconcile does.
LEMMA ReconcileIs ==
  ASSUME ServerTypes, Reconcile
  PROVE  \E new \in Seq(Message), n \in Nat :
           /\ n = Len(new) /\ \A i \in 1..n : new[i].lt = i /\ new[i].nodes # <<>>
           /\ history' = new /\ open' = NoOpen /\ published' = published \cup Range(new) /\ n <= unitLT
           /\ unitLT' \in LTs /\ unitLT' <= unitLT /\ n <= unitLT'
           /\ \E news \in Seq(Message) :
                /\ \A i \in 1..Len(news) : \E j \in 1..n : news[i] = new[j] /\ j > LastLT(history)
                /\ \/ pending' = [i \in 1..Len(news) |-> Frame(<<Snapshot(news[i])>>, NoLive)]
                   \/ /\ pending' = <<Frame(<<>>, [NoLive EXCEPT !.lt = unitLT'])>> /\ unitLT' # 0 /\ open.lt # 0
                      /\ unitLT' = n + 1
           /\ excused' = (excused \/ ~IsPrefix(history, new))
<1>1. PICK tail \in {<<>>} \cup (IF open.nodes = <<>> THEN {} ELSE {<<open.nodes>>}) :
       LET new  == Numbered(history, tail)
           news == SubSeq(new, LastCommittedLT + 1, Len(new))
           bare == open.lt # 0 /\ Len(new) <= LastCommittedLT
       IN /\ history' = new
          /\ unitLT' = IF bare THEN Len(new) + 1 ELSE Len(new)
          /\ pending' = [i \in DOMAIN news |-> Frame(<<Snapshot(news[i])>>, NoLive)]
                        \o (IF bare THEN <<Frame(<<>>, [NoLive EXCEPT !.lt = unitLT'])>> ELSE <<>>)
          /\ published' = published \cup Range(new)
          /\ excused' = (excused \/ ~IsPrefix(history, new))
  BY DEF Reconcile, Numbered
<1>2. /\ history \in Seq(Message) /\ Ascending(history) /\ open.lt \in LTs /\ open.nodes \in Seq(Texts) /\ unitLT \in LTs
      /\ LastLT(history) <= unitLT
      /\ open.lt # 0 => LastLT(history) < open.lt /\ open.lt <= unitLT
      /\ open.lt = 0 => open.nodes = <<>>
  BY NoOpenType DEF ServerTypes
<1>3. PICK last \in Nat : last = LastLT(history) /\ last = LastCommittedLT /\ Len(history) <= last /\ Len(history) \in Nat
  BY <1>2, LastIs, LTsAre DEF LastLT, LastCommittedLT
<1>4. /\ tail \in Seq(Seq(Seq(Bytes))) /\ Len(tail) \in {0, 1} /\ NoBlank(tail)
      /\ Len(tail) = 1 => open.lt # 0
  <2>1. CASE tail = <<>>
    BY <2>1, EmptySeq DEF NoBlank
  <2>2. CASE open.nodes # <<>> /\ tail = <<open.nodes>>
    <3>1. open.nodes \in Seq(Seq(Bytes))
      BY <1>2, TextsAre
    <3>2. tail \in Seq(Seq(Seq(Bytes))) /\ Len(tail) = 1 /\ tail[1] = open.nodes
      BY <2>2, <3>1, OneOf
    <3>3. \A i \in 1..1 : i = 1
      OBVIOUS
    <3>4. NoBlank(tail)
      BY <2>2, <3>2, <3>3 DEF NoBlank
    <3> QED BY <1>2, <2>2, <3>2, <3>4
  <2> QED BY <1>1, <2>1, <2>2
<1>5. unitLT \in Nat /\ open.lt \in Nat /\ MaxUnits \in Nat /\ unitLT <= MaxUnits + 1
  BY <1>2, LTsAre
<1>6. Len(history) + Len(tail) <= unitLT
  <2>1. CASE Len(tail) = 0
    BY <1>2, <1>3, <1>5, <2>1
  <2>2. CASE Len(tail) = 1
    BY <1>2, <1>3, <1>4, <1>5, <2>2
  <2> QED BY <1>4, <2>1, <2>2
<1>7. PICK new : new = Numbered(history, tail)
  OBVIOUS
<1>8. Len(history) + Len(tail) <= MaxUnits + 1
  BY <1>3, <1>4, <1>5, <1>6
<1>9. /\ new \in Seq(Message) /\ Len(new) \in Nat /\ Len(new) <= Len(history) + Len(tail)
      /\ \A i \in 1..Len(new) : new[i].lt = i /\ new[i].nodes # <<>>
  BY <1>2, <1>4, <1>7, <1>8, NumberedIs
<1>10. PICK n \in Nat : n = Len(new) /\ n <= unitLT
  BY <1>3, <1>4, <1>5, <1>6, <1>9
<1>11. PICK news : news = SubSeq(new, last + 1, n)
  OBVIOUS
<1>12. PICK k \in Nat : k = IF last < n THEN n - last ELSE 0
  <2>1. last \in Nat /\ n \in Nat
    BY <1>3, <1>10
  <2>2. (IF last < n THEN n - last ELSE 0) \in Nat
    BY <2>1
  <2> QED BY <2>2
<1>13. news \in Seq(Message) /\ Len(news) = k /\ \A i \in 1..k : news[i] = new[last + i]
  <2>1. CASE last < n
    <3>1. last + k = n /\ last + k <= Len(new)
      BY <1>10, <1>12, <2>1
    <3>2. SubSeq(new, last + 1, last + k) = news
      BY <1>11, <3>1
    <3>3. last + k <= Len(new)
      BY <3>1
    <3>4. SubSeq(new, last + 1, last + k) \in Seq(Message) /\ Len(SubSeq(new, last + 1, last + k)) = k
          /\ \A i \in 1..k : SubSeq(new, last + 1, last + k)[i] = new[last + i]
      <4>1. new \in Seq(Message) /\ last \in Nat
        BY <1>3, <1>9
      <4> QED BY <3>3, <4>1, Stretch
    <3> QED BY <3>2, <3>4
  <2>2. CASE ~(last < n)
    <3>1. n < last + 1 /\ k = 0
      BY <1>12, <2>2
    <3>2. news = <<>>
      BY <1>11, <3>1, SubSeqEmpty
    <3> QED BY <3>1, <3>2, EmptySeq
  <2> QED BY <2>1, <2>2
<1>14. ASSUME NEW i \in 1..Len(news) PROVE \E j \in 1..n : news[i] = new[j] /\ j > LastLT(history)
  <2>1. last + i \in 1..n /\ last + i > last /\ i \in 1..k
    BY <1>12, <1>13, <1>14
  <2> QED BY <1>3, <1>13, <2>1
<1> DEFINE bare == open.lt # 0 /\ n <= last
<1>16. /\ history' = new /\ unitLT' = IF bare THEN n + 1 ELSE n
       /\ pending' = [i \in DOMAIN news |-> Frame(<<Snapshot(news[i])>>, NoLive)]
                     \o (IF bare THEN <<Frame(<<>>, [NoLive EXCEPT !.lt = unitLT'])>> ELSE <<>>)
       /\ published' = published \cup Range(new)
       /\ excused' = (excused \/ ~IsPrefix(history, new))
  BY <1>1, <1>3, <1>7, <1>10, <1>11
<1>17. unitLT' \in Nat /\ unitLT' <= unitLT /\ n <= unitLT'
  <2>1. CASE bare
    <3>1. unitLT' = n + 1 /\ last < open.lt /\ open.lt <= unitLT /\ n <= last
      BY <1>2, <1>3, <1>16, <2>1
    <3>2. last \in Nat /\ n \in Nat
      BY <1>3, <1>10
    <3> QED BY <1>5, <3>1, <3>2
  <2>2. CASE ~bare
    BY <1>10, <1>16, <2>2
  <2> QED BY <2>1, <2>2
<1>18. unitLT' \in LTs
  <2>1. unitLT' <= MaxUnits + 1
    BY <1>5, <1>17
  <2> QED BY <1>17, <2>1, LTsAre
<1>19. PICK P : P = [i \in 1..k |-> Frame(<<Snapshot(news[i])>>, NoLive)]
  OBVIOUS
<1>20. DOMAIN news = 1..k
  BY <1>13, LenProperties
<1>21. CASE bare
  <2>1. k = 0
    BY <1>3, <1>10, <1>12, <1>21
  <2>2. P = <<>>
    BY <1>19, <2>1
  <2>3. PICK q : q = <<Frame(<<>>, [NoLive EXCEPT !.lt = unitLT'])>>
    OBVIOUS
  <2>4. q \in Seq({Frame(<<>>, [NoLive EXCEPT !.lt = unitLT'])})
    BY <2>3, OneOf
  <2>5. <<>> \o q = q
    BY <2>4, ConcatEmptySeq
  <2>6. pending' = q
    BY <1>16, <1>19, <1>20, <1>21, <2>2, <2>3, <2>5
  <2>7. unitLT' = n + 1 /\ unitLT' # 0 /\ open.lt # 0
    BY <1>10, <1>16, <1>21
  <2>8. open' = NoOpen
    BY DEF Reconcile
  <2> QED BY <1>9, <1>10, <1>13, <1>14, <1>16, <1>17, <1>18, <2>3, <2>6, <2>7, <2>8
<1>22. CASE ~bare
  <2>1. P \in Seq({Frame(<<Snapshot(news[i])>>, NoLive) : i \in 1..k})
    BY <1>19
  <2>2. P \o <<>> = P
    BY <2>1, ConcatEmptySeq
  <2>3. pending' = [i \in 1..Len(news) |-> Frame(<<Snapshot(news[i])>>, NoLive)]
    BY <1>13, <1>16, <1>19, <1>20, <1>22, <2>2
  <2>4. open' = NoOpen
    BY DEF Reconcile
  <2> QED BY <1>9, <1>10, <1>13, <1>14, <1>16, <1>17, <1>18, <2>3, <2>4
<1> QED BY <1>21, <1>22

LEMMA SnapshotPage ==
  ASSUME NEW m \in Message
  PROVE  Frame(<<Snapshot(m)>>, NoLive) \in GoodPage /\ Snapshot(m) \in Committed
<1>1. PICK c : c = Snapshot(m)
  OBVIOUS
<1>2. c \in Committed
  BY <1>1 DEF Snapshot, Committed, Message
<1>3. <<c>> \in Seq(Committed)
  BY <1>2, OneOf
<1> QED BY <1>1, <1>2, <1>3, NoLiveType DEF Frame, GoodPage

LEMMA BlankPage ==
  ASSUME NEW lt \in LTs
  PROVE  Frame(<<>>, [NoLive EXCEPT !.lt = lt]) \in GoodPage
<1>1. PICK e, x : e = <<>> /\ x = [NoLive EXCEPT !.lt = lt]
  OBVIOUS
<1>2. e \in Seq(Committed) /\ x \in GoodLive
  BY <1>1, EmptySeq, NoLiveType DEF GoodLive
<1> QED BY <1>1, <1>2 DEF Frame, GoodPage

LEMMA ReconcileTypes ==
  ASSUME Types, Reconcile
  PROVE  Types'
<1>0. ServerTypes
  BY DEF Types
<1>1. PICK new \in Seq(Message), n \in Nat :
           /\ n = Len(new) /\ \A i \in 1..n : new[i].lt = i /\ new[i].nodes # <<>>
           /\ history' = new /\ open' = NoOpen /\ published' = published \cup Range(new) /\ n <= unitLT
           /\ unitLT' \in LTs /\ unitLT' <= unitLT /\ n <= unitLT'
           /\ \E news \in Seq(Message) :
                \/ pending' = [i \in 1..Len(news) |-> Frame(<<Snapshot(news[i])>>, NoLive)]
                \/ pending' = <<Frame(<<>>, [NoLive EXCEPT !.lt = unitLT'])>>
           /\ excused' = (excused \/ ~IsPrefix(history, new))
  BY <1>0, ReconcileIs
<1>2. DOMAIN new = 1..n
  BY <1>1, LenProperties
<1>3. Ascending(new)
  BY <1>1, <1>2 DEF Ascending
<1>4. LastLT(new) <= unitLT'
  <2>1. CASE new = <<>>
    BY <1>1, <2>1, LTsAre DEF LastLT
  <2>2. CASE new # <<>>
    <3>1. n >= 1 /\ n \in 1..n
      BY <1>1, <2>2, EmptySeq
    <3> QED BY <1>1, <2>2, <3>1 DEF LastLT, Last
  <2> QED BY <2>1, <2>2
<1>5. ServerTypes'
  <2>1. opened' = opened
    BY DEF Reconcile
  <2>2. opened \in Seq(LTs) /\ unitLT <= Len(opened) /\ Len(opened) <= MaxUnits + 1 /\ unitLT \in LTs
    BY <1>0 DEF ServerTypes
  <2>3. unitLT' <= Len(opened)
    <3>1. unitLT \in Nat /\ unitLT' \in Nat /\ Len(opened) \in Nat
      BY <1>1, <2>2, LTsAre, LenProperties
    <3> QED BY <1>1, <2>2, <3>1
  <2> QED BY <1>1, <1>3, <1>4, <2>1, <2>2, <2>3, NoOpenType DEF ServerTypes
<1>6. PICK news \in Seq(Message) :
                \/ pending' = [i \in 1..Len(news) |-> Frame(<<Snapshot(news[i])>>, NoLive)]
                \/ pending' = <<Frame(<<>>, [NoLive EXCEPT !.lt = unitLT'])>>
  BY <1>1
<1>7. pending' \in Seq(GoodPage)
  <2>1. CASE pending' = <<Frame(<<>>, [NoLive EXCEPT !.lt = unitLT'])>>
    BY <1>1, <2>1, BlankPage, OneOf
  <2>2. CASE pending' = [i \in 1..Len(news) |-> Frame(<<Snapshot(news[i])>>, NoLive)]
    <3>1. PICK k \in Nat : k = Len(news)
      BY LenProperties
    <3>2. \A i \in 1..k : Frame(<<Snapshot(news[i])>>, NoLive) \in GoodPage
      BY <3>1, ElementOfSeq, SnapshotPage
    <3>3. pending' \in [1..k -> GoodPage]
      BY <2>2, <3>1, <3>2
    <3> QED BY <3>3
  <2> QED BY <1>6, <2>1, <2>2
<1>8. published' \in SUBSET Message
  <2>1. \A m \in Range(new) : m \in Message
    BY ElementOfSeq, LenProperties DEF Range
  <2> QED BY <1>1, <2>1 DEF Types, ClientTypes
<1>9. ChannelTypes' /\ ClientTypes'
  BY <1>1, <1>7, <1>8 DEF Reconcile, Types, ChannelTypes, ClientTypes
<1> QED BY <1>5, <1>9 DEF Types

\* The connection and the readers.
LEMMA DeliverTypes ==
  ASSUME Types, Deliver
  PROVE  Types'
<1>1. pending \in Seq(GoodPage) /\ pending # <<>> /\ wire \in Seq(Item) /\ Len(wire) < WireCap
  BY DEF Deliver, Types, ChannelTypes
<1>2. Head(pending) \in GoodPage /\ Tail(pending) \in Seq(GoodPage)
  BY <1>1, HeadTailProperties
<1>3. PICK x : x = [reader |-> {}, page |-> Head(pending)]
  OBVIOUS
<1>4. x \in Item
  BY <1>2, <1>3 DEF Item
<1>5. wire' \in Seq(Item) /\ Len(wire') = Len(wire) + 1
  BY <1>1, <1>3, <1>4, AppendProperties DEF Deliver
<1>6. Len(wire') <= WireCap
  BY <1>1, <1>5, LenProperties, AriaStreamAssumption
<1>7. ServerTypes' /\ ClientTypes'
  BY DEF Deliver, server, Types, ServerTypes, ClientTypes
<1>8. ChannelTypes'
  BY <1>2, <1>5, <1>6 DEF Deliver, Types, ChannelTypes
<1> QED BY <1>7, <1>8 DEF Types

LEMMA ServeTypes ==
  ASSUME Types, NEW r \in Readers, Serve(r)
  PROVE  Types'
<1>1. ServerTypes /\ reads \in [Readers -> GoodQuery]
  BY DEF Types, ChannelTypes
<1>2. PICK p : p = IF reads[r].call = "Read" THEN ReadSince(reads[r].since) ELSE Frame(ReadRecent, NoLive)
  OBVIOUS
<1>3. p \in GoodPage
  <2>1. ReadSince(reads[r].since) \in GoodPage
    BY <1>1, ReadSinceType
  <2>2. Frame(ReadRecent, NoLive) \in GoodPage
    BY <1>1, ReadRecentType, NoLiveType DEF Frame, GoodPage
  <2> QED BY <1>2, <2>1, <2>2
<1>4. reads' = [reads EXCEPT ![r].stage = "served", ![r].page = p]
  BY <1>2 DEF Serve
<1>5. [reads[r] EXCEPT !.stage = "served", !.page = p] \in GoodQuery
  BY <1>1, <1>3 DEF GoodQuery
<1>6. reads' = [reads EXCEPT ![r] = [reads[r] EXCEPT !.stage = "served", !.page = p]]
  BY <1>1, <1>4
<1>7. reads' \in [Readers -> GoodQuery]
  BY <1>1, <1>5, <1>6
<1>8. ServerTypes' /\ ClientTypes' /\ ChannelTypes'
  BY <1>7 DEF Serve, server, Types, ServerTypes, ClientTypes, ChannelTypes
<1> QED BY <1>8 DEF Types

LEMMA ReplyTypes ==
  ASSUME Types, NEW r \in Readers, Reply(r)
  PROVE  Types'
<1>1. reads \in [Readers -> GoodQuery] /\ wire \in Seq(Item) /\ Len(wire) < WireCap
  BY DEF Reply, Types, ChannelTypes
<1>2. [reads[r] EXCEPT !.stage = "wired", !.page = NoPage] \in GoodQuery
  BY <1>1, QueryTypes DEF GoodQuery
<1>3. reads' = [reads EXCEPT ![r] = [reads[r] EXCEPT !.stage = "wired", !.page = NoPage]]
  BY <1>1 DEF Reply
<1>4. reads' \in [Readers -> GoodQuery]
  BY <1>1, <1>2, <1>3
<1>5. PICK x : x = [reader |-> {r}, page |-> reads[r].page]
  OBVIOUS
<1>6. x \in Item
  BY <1>1, <1>5 DEF Item, GoodQuery
<1>7. wire' \in Seq(Item) /\ Len(wire') = Len(wire) + 1
  BY <1>1, <1>5, <1>6, AppendProperties DEF Reply
<1>8. Len(wire') <= WireCap
  BY <1>1, <1>7, LenProperties, AriaStreamAssumption
<1>9. ServerTypes' /\ ClientTypes' /\ ChannelTypes'
  BY <1>4, <1>7, <1>8 DEF Reply, server, Types, ServerTypes, ClientTypes, ChannelTypes
<1> QED BY <1>9 DEF Types

LEMMA ReceiveFrameTypes ==
  ASSUME Types, ReceiveFrame
  PROVE  Types'
<1>1. wire \in Seq(Item) /\ wire # <<>> /\ Len(wire) <= WireCap
  BY DEF ReceiveFrame, Types, ChannelTypes
<1>2. Head(wire) \in Item /\ Tail(wire) \in Seq(Item) /\ Len(Tail(wire)) = Len(wire) - 1
  BY <1>1, HeadTailProperties
<1>3. Head(wire).page \in GoodPage
  BY <1>2 DEF Item
<1>4. wire' = Tail(wire) /\ Fold(Head(wire).page, FALSE, {})
  BY DEF ReceiveFrame
<1>5. view' \in View /\ shown' \in [LTs -> Nat] /\ broken' \in SUBSET LTs /\ reads' \in [Readers -> GoodQuery]
  BY <1>3, <1>4, FoldTypes
<1>6. Len(wire') <= WireCap
  BY <1>1, <1>2, <1>4, LenProperties, AriaStreamAssumption
<1>7. ServerTypes' /\ ClientTypes' /\ ChannelTypes'
  BY <1>2, <1>4, <1>5, <1>6 DEF ReceiveFrame, server, Types, ServerTypes, ClientTypes, ChannelTypes
<1> QED BY <1>7 DEF Types

LEMMA ReceivedType ==
  ASSUME NEW q \in GoodQuery, NEW p \in GoodPage
  PROVE  Received(q, p) \in GoodQuery
<1>1. p.committed \in Seq(Committed) /\ p.live \in GoodLive /\ q.have \in Seq(Committed)
  BY DEF GoodPage, GoodQuery
<1>2. CASE q.call = "ReadBefore"
  <2>1. Ask(RecentCursor) \in GoodQuery
    BY QueryTypes
  <2>2. [Ask(RecentCursor) EXCEPT !.have = p.committed] \in GoodQuery
    BY <1>1, <2>1 DEF GoodQuery
  <2> QED BY <1>2, <2>2 DEF Received
<1>3. CASE q.call # "ReadBefore"
  <2>1. PICK x : x = Frame(q.have \o p.committed, p.live)
    OBVIOUS
  <2>2. q.have \o p.committed \in Seq(Committed)
    BY <1>1, ConcatProperties
  <2>3. x \in GoodPage
    BY <1>1, <2>1, <2>2 DEF Frame, GoodPage
  <2>4. [q EXCEPT !.stage = "got", !.page = x] \in GoodQuery
    BY <2>3 DEF GoodQuery
  <2> QED BY <1>3, <2>1, <2>4 DEF Received
<1> QED BY <1>2, <1>3

LEMMA ReceiveAnswerTypes ==
  ASSUME Types, ReceiveAnswer
  PROVE  Types'
<1>1. wire \in Seq(Item) /\ wire # <<>> /\ Len(wire) <= WireCap /\ reads \in [Readers -> GoodQuery]
  BY DEF ReceiveAnswer, Types, ChannelTypes
<1>2. Head(wire) \in Item /\ Tail(wire) \in Seq(Item) /\ Len(Tail(wire)) = Len(wire) - 1
  BY <1>1, HeadTailProperties
<1>3. Head(wire).page \in GoodPage
  BY <1>2 DEF Item
<1>4. reads' = [r \in Readers |-> IF r \in Head(wire).reader THEN Received(reads[r], Head(wire).page) ELSE reads[r]]
  BY DEF ReceiveAnswer
<1>5. \A r \in Readers : Received(reads[r], Head(wire).page) \in GoodQuery
  BY <1>1, <1>3, ReceivedType
<1>6. reads' \in [Readers -> GoodQuery]
  BY <1>1, <1>4, <1>5
<1>7. wire' = Tail(wire) /\ Len(wire') <= WireCap
  BY <1>1, <1>2, LenProperties, AriaStreamAssumption DEF ReceiveAnswer
<1>8. ServerTypes' /\ ClientTypes' /\ ChannelTypes'
  BY <1>2, <1>6, <1>7 DEF ReceiveAnswer, server, Types, ServerTypes, ClientTypes, ChannelTypes
<1> QED BY <1>8 DEF Types

LEMMA ApplyAnswerTypes ==
  ASSUME Types, NEW r \in Readers, ApplyAnswer(r)
  PROVE  Types'
<1>1. reads[r].page \in GoodPage
  BY DEF Types, ChannelTypes, GoodQuery
<1>2. Fold(reads[r].page, TRUE, {r})
  BY DEF ApplyAnswer
<1>3. view' \in View /\ shown' \in [LTs -> Nat] /\ broken' \in SUBSET LTs /\ reads' \in [Readers -> GoodQuery]
  BY <1>1, <1>2, FoldTypes
<1>4. ServerTypes' /\ ClientTypes' /\ ChannelTypes'
  BY <1>3 DEF ApplyAnswer, server, Types, ServerTypes, ClientTypes, ChannelTypes
<1> QED BY <1>4 DEF Types

LEMMA EnterTranscriptTypes ==
  ASSUME Types, EnterTranscript
  PROVE  Types'
<1>1. reads \in [Readers -> GoodQuery] /\ Pager \in Readers
  BY DEF Types, ChannelTypes, Readers
<1>2. [reads[Pager] EXCEPT !.stage = "asked", !.call = "ReadBefore"] \in GoodQuery
  BY <1>1 DEF GoodQuery
<1>3. reads' = [reads EXCEPT ![Pager] = [reads[Pager] EXCEPT !.stage = "asked", !.call = "ReadBefore"]]
  BY <1>1 DEF EnterTranscript
<1>4. reads' \in [Readers -> GoodQuery]
  BY <1>1, <1>2, <1>3
<1>5. ServerTypes' /\ ClientTypes' /\ ChannelTypes'
  BY <1>4 DEF EnterTranscript, server, Types, ServerTypes, ClientTypes, ChannelTypes
<1> QED BY <1>5 DEF Types

LEMMA TimeoutTypes ==
  ASSUME Types, NEW r \in Readers, Timeout(r)
  PROVE  Types'
<1>1. wire \in Seq(Item) /\ Len(wire) <= WireCap /\ reads \in [Readers -> GoodQuery]
  BY DEF Types, ChannelTypes
<1>2. PICK x : x = Frame(reads[r].have, NoLive)
  OBVIOUS
<1>3. x \in GoodPage
  BY <1>1, <1>2, NoLiveType DEF Frame, GoodPage, GoodQuery
<1>4. [reads[r] EXCEPT !.stage = "got", !.page = x] \in GoodQuery
  BY <1>1, <1>3 DEF GoodQuery
<1>5. Through(r) \in GoodQuery
  BY QueryTypes
<1>6. reads' = [reads EXCEPT ![r] = IF reads[r].since = RecentCursor
                                    THEN [reads[r] EXCEPT !.stage = "got", !.page = x] ELSE Through(r)]
  BY <1>1, <1>2 DEF Timeout
<1>7. reads' \in [Readers -> GoodQuery]
  BY <1>1, <1>4, <1>5, <1>6
<1>8. wire' \in Seq(Item) /\ Len(wire') <= Len(wire)
  <2>1. PICK I : I = {k \in DOMAIN wire : wire[k].reader # {r}}
    OBVIOUS
  <2>2. I \subseteq DOMAIN wire
    BY <2>1
  <2>3. Picked(wire, I) \in Seq(Item) /\ Len(Picked(wire, I)) <= Len(wire)
    BY <1>1, <2>2, PickedPart
  <2> QED BY <2>1, <2>3 DEF Timeout
<1>9. Len(wire') <= WireCap
  BY <1>1, <1>8, LenProperties, AriaStreamAssumption
<1>10. ServerTypes' /\ ClientTypes' /\ ChannelTypes'
  BY <1>7, <1>8, <1>9 DEF Timeout, server, Types, ServerTypes, ClientTypes, ChannelTypes
<1> QED BY <1>10 DEF Types

LEMMA IdleTypes ==
  ASSUME Types, UNCHANGED vars
  PROVE  Types'
BY DEF Types, ServerTypes, ClientTypes, ChannelTypes, vars, server

LEMMA InitTypes ==
  ASSUME Init
  PROVE  Types
<1>1. PICK t, e : t = (CHOOSE x \in Texts : TRUE) /\ e = <<>>
  OBVIOUS
<1>2. t \in Texts /\ e \in Seq(Message) /\ e \in Seq(GoodPage) /\ e \in Seq(Item) /\ Len(e) = 0 /\ DOMAIN e = {}
  BY <1>1, AriaStreamAssumption, EmptySeq
<1>3. PICK n : n = <<t>>
  OBVIOUS
<1>4. n \in Seq(Texts) /\ Len(n) = 1 /\ n # <<>> /\ n \in Seq(Seq(Bytes))
  BY <1>2, <1>3, OneOf, TextsAre, EmptyText
<1>5. Before \subseteq {n}
  BY <1>1, <1>3 DEF Before
<1>6. PICK m : m = [lt |-> 1, nodes |-> n]
  OBVIOUS
<1>7. 1 \in LTs /\ 2 \in LTs /\ MaxUnits \in Nat \ {0} /\ MaxNodes \in Nat \ {0}
  BY AriaStreamAssumption DEF LTs
<1>8. m \in Message /\ m.lt = 1
  BY <1>4, <1>6, <1>7 DEF Message
<1>9. history = e \/ history = <<m>>
  BY <1>1, <1>5, <1>6 DEF Init
<1>10. PICK k \in Nat : k = Len(history) /\ history \in Seq(Message) /\ Ascending(history) /\ LastLT(history) = k /\ k <= 1
  <2>1. CASE history = e
    <3>1. Ascending(history) /\ LastLT(history) = 0
      BY <1>1, <1>2, <2>1 DEF Ascending, LastLT
    <3> QED BY <1>2, <2>1, <3>1
  <2>2. CASE history = <<m>>
    <3>1. PICK h : h = history
      OBVIOUS
    <3>2. h \in Seq(Message) /\ Len(h) = 1 /\ h[1] = m /\ DOMAIN h = 1..1
      BY <1>8, <2>2, <3>1, OneOf
    <3>3. \A i \in 1..1 : i = 1
      OBVIOUS
    <3>4. h # <<>>
      BY <3>2, EmptyText
    <3>5. Ascending(h) /\ LastLT(h) = 1
      BY <1>8, <3>2, <3>3, <3>4 DEF Ascending, LastLT, Last
    <3> QED BY <3>1, <3>2, <3>5
  <2> QED BY <1>9, <2>1, <2>2
<1>11. open = NoOpen \/ open = [lt |-> k + 1, nodes |-> n, ver |-> 1]
  BY <1>5, <1>10 DEF Init
<1>12. /\ open \in [lt : LTs, nodes : Seq(Texts), ver : Nat]
       /\ (open.ver = 0) = (open.nodes = <<>>) /\ Len(open.nodes) <= MaxNodes
       /\ open.ver <= 1
       /\ open.lt = 0 => open = NoOpen
       /\ open.lt # 0 => open.lt = k + 1 /\ open.ver = 1
  <2>1. CASE open = NoOpen
    BY <2>1, NoOpenType
  <2>2. CASE open = [lt |-> k + 1, nodes |-> n, ver |-> 1]
    <3>1. k + 1 \in LTs /\ k + 1 # 0
      BY <1>7, <1>10
    <3>2. open.lt = k + 1 /\ open.nodes = n /\ open.ver = 1
      BY <2>2
    <3>3. open \in [lt : LTs, nodes : Seq(Texts), ver : Nat]
      BY <1>4, <2>2, <3>1
    <3>4. Len(open.nodes) <= MaxNodes
      <4>1. Len(open.nodes) = 1 /\ 1 <= MaxNodes
        BY <1>4, <1>7, <3>2
      <4> QED BY <4>1
    <3>5. open.nodes # <<>>
      BY <1>4, <3>2
    <3> QED BY <3>1, <3>2, <3>3, <3>4, <3>5
  <2> QED BY <1>11, <2>1, <2>2
<1>13. PICK u \in Nat : u = unitLT /\ u = k + open.ver /\ u <= 2
  BY <1>10, <1>12 DEF Init
<1>14. opened \in Seq(LTs) /\ Len(opened) = u
  <2>1. opened = [i \in 1..u |-> i]
    BY <1>13 DEF Init
  <2>2. \A i \in 1..u : i \in LTs
    BY <1>7, <1>13
  <2>3. opened \in [1..u -> LTs]
    BY <2>1, <2>2
  <2> QED BY <2>1, <2>3
<1>15. u \in LTs /\ u <= MaxUnits + 1
  BY <1>7, <1>13, LTsAre
<1>16. ServerTypes
  BY <1>10, <1>12, <1>13, <1>14, <1>15 DEF ServerTypes
<1>17. pending \in Seq(GoodPage)
  <2>1. PICK p : p = Frame(<<>>, ReadOpen)
    OBVIOUS
  <2>2. p \in GoodPage
    BY <1>16, <2>1, ReadOpenType, EmptySeq DEF Frame, GoodPage
  <2>3. pending = e \/ pending = <<p>>
    BY <1>1, <2>1 DEF Init
  <2> QED BY <1>2, <2>2, <2>3, OneOf
<1>18. base \in LTs
  BY <1>10, LastIs DEF Init, LastCommittedLT, LastLT
<1>19. wire \in Seq(Item) /\ Len(wire) <= WireCap
  BY <1>1, <1>2, AriaStreamAssumption DEF Init
<1>20. reads \in [Readers -> GoodQuery]
  BY QueryTypes DEF Init
<1>21. view \in View
  <2>1. PICK b, o : b = NoBlocks /\ o = <<>>
    OBVIOUS
  <2>2. b \in [1..MaxNodes -> Seq(Bytes)] /\ o \in Seq(1..MaxNodes)
    BY <2>1, NoBlocksType, EmptySeq
  <2>3. view = [closed |-> {}, seen |-> {}, floor |-> 0, cursor |-> 0, lt |-> 0, v |-> 0, order |-> o, block |-> b]
    BY <2>1 DEF Init, NewView
  <2> QED BY <2>2, <2>3, LTsAre DEF View
<1>22. published \in SUBSET Message
  BY <1>10, ElementOfSeq, LenProperties DEF Init, Range
<1>23. shown \in [LTs -> Nat] /\ broken \in SUBSET LTs /\ excused \in BOOLEAN
  BY DEF Init
<1> QED BY <1>16, <1>17, <1>18, <1>19, <1>20, <1>21, <1>22, <1>23 DEF Types, ChannelTypes, ClientTypes

LEMMA NextTypes ==
  ASSUME Types, [Next]_vars
  PROVE  Types'
<1>1. CASE UNCHANGED vars
  BY <1>1, IdleTypes
<1>2. CASE Producer
  BY <1>2, OpenTypes, UpdateTypes, CloseTypes, AbandonTypes, ReconcileTypes DEF Producer
<1>3. CASE EnterTranscript \/ Deliver \/ ReceiveFrame \/ ReceiveAnswer
  BY <1>3, EnterTranscriptTypes, DeliverTypes, ReceiveFrameTypes, ReceiveAnswerTypes
<1>4. CASE Quiescent
  BY <1>4, IdleTypes DEF Quiescent
<1>5. CASE \E r \in Readers : Handler(r) \/ Reader(r)
  BY <1>5, ServeTypes, ReplyTypes, ApplyAnswerTypes, TimeoutTypes DEF Handler, Reader
<1> QED BY <1>1, <1>2, <1>3, <1>4, <1>5 DEF Next

LEMMA TypesInvariant == Spec => []Types
<1>1. Init => Types
  BY InitTypes
<1>2. Types /\ [Next]_vars => Types'
  BY NextTypes
<1> QED BY <1>1, <1>2, PTL DEF Spec

\* A sequence of good things is a sequence of things.
LEMMA GoodIs ==
  /\ GoodDeltas \subseteq Seq(NodeDelta) /\ GoodLive \subseteq Live /\ GoodPage \subseteq Page
  /\ GoodQuery \subseteq Query /\ Item \subseteq [reader : SUBSET Readers, page : Page]
<1>1. GoodDeltas \subseteq Seq(NodeDelta)
  BY DEF GoodDeltas
<1>2. GoodLive \subseteq Live
  BY <1>1 DEF GoodLive, Live
<1>3. GoodPage \subseteq Page
  BY <1>2 DEF GoodPage, Page, Committed
<1>4. GoodQuery \subseteq Query
  BY <1>3 DEF GoodQuery, Query, Committed
<1>5. Item \subseteq [reader : SUBSET Readers, page : Page]
  BY <1>3 DEF Item
<1> QED BY <1>1, <1>2, <1>3, <1>4, <1>5

\* Every variable keeps its type, the closed messages of the server have
\* ascending LTs, below that of the open one, and the open message has nodes once
\* a frame was sent (Server.Open, Update, Close, Replace; Client.Apply).
THEOREM StreamTypes == Spec => []TypeOK
<1>1. Types => TypeOK
  <2> SUFFICES ASSUME Types PROVE TypeOK
    OBVIOUS
  <2>1. pending \in Seq(Page) /\ wire \in Seq([reader : SUBSET Readers, page : Page]) /\ reads \in [Readers -> Query]
    <3>1. PICK S : S = [reader : SUBSET Readers, page : Page]
      OBVIOUS
    <3>2. Item \subseteq S
      BY <3>1, GoodIs
    <3>3. wire \in Seq(S)
      BY <3>2, SeqMonotonic DEF Types, ChannelTypes
    <3>4. pending \in Seq(Page)
      BY GoodIs, SeqMonotonic DEF Types, ChannelTypes
    <3>5. reads \in [Readers -> Query]
      BY GoodIs DEF Types, ChannelTypes
    <3> QED BY <3>1, <3>3, <3>4, <3>5
  <2>2. open \in [lt : LTs, nodes : Seq(Seq(Bytes)), ver : Nat]
    <3>1. open \in [lt : LTs, nodes : Seq(Texts), ver : Nat]
      BY DEF Types, ServerTypes
    <3>2. open.nodes \in Seq(Seq(Bytes))
      BY <3>1, TextsAre
    <3> QED BY <3>1, <3>2
  <2>3. LastCommittedLT = LastLT(history)
    BY DEF LastCommittedLT, LastLT
  <2> QED BY <2>1, <2>2, <2>3 DEF TypeOK, Types, ServerTypes, ChannelTypes, ClientTypes, Ascending
<1> QED BY <1>1, TypesInvariant, PTL

\* Whatever texts a unit takes one after the other, no frame and no answer on its
\* way to the client splits a rune (livedoc.Diff and the JSON encoder).
THEOREM NoSplitRune == Spec => []WholeRunes
<1>1. Types => WholeRunes
  <2> SUFFICES ASSUME Types, NEW k \in DOMAIN wire, NEW i \in DOMAIN wire[k].page.live.nodes
               PROVE  Valid(wire[k].page.live.nodes[i].splice.ins)
    BY DEF WholeRunes
  <2>1. wire[k] \in Item
    BY ElementOfSeq, LenProperties DEF Types, ChannelTypes
  <2>2. wire[k].page.live.nodes \in GoodDeltas
    BY <2>1 DEF Item, GoodPage, GoodLive
  <2> QED BY <2>2 DEF GoodDeltas
<1> QED BY <1>1, TypesInvariant, PTL

-----------------------------------------------------------------------------
(* What folding deltas makes of a copy *)

\* The copy's nodes are 1, 2, ..., n.
Counted(w, n) == Len(w.order) = n /\ \A i \in 1..n : w.order[i] = i

\* Folding ds gives the first m nodes of w their texts, and names every node
\* that w does not have.
Fills(w, ds, n, m, text) ==
  /\ \A j, k \in 1..Len(ds) : j < k => ds[j].id < ds[k].id
  /\ \A k \in 1..Len(ds) : ds[k].id \in 1..m /\ FoldDelta(w.block[ds[k].id], ds[k]) = text[ds[k].id]
  /\ \A i \in 1..m : (\E k \in 1..Len(ds) : ds[k].id = i) \/ (i <= n /\ w.block[i] = text[i])

\* One node: it is the next one, or one the copy has.
LEMMA OneMore ==
  ASSUME NEW w \in View, NEW d \in NodeDelta, NEW n \in Nat, Counted(w, n), d.id <= n + 1
  PROVE  Counted(ApplyNode(w, d), IF d.id = n + 1 THEN n + 1 ELSE n)
<1>1. PICK o : o = w.order
  OBVIOUS
<1>2. o \in Seq(1..MaxNodes) /\ Len(o) = n /\ DOMAIN o = 1..n /\ \A i \in 1..n : o[i] = i
  BY <1>1, LenProperties DEF View, Counted
<1>3. d.id \in 1..MaxNodes /\ d.id \in Nat /\ d.id >= 1
  BY AriaStreamAssumption DEF NodeDelta
<1>4. PICK x : x = ApplyNode(w, d).order
  OBVIOUS
<1>5. x = IF \E i \in DOMAIN o : o[i] = d.id THEN o ELSE Append(o, d.id)
  <2>1. ApplyNode(w, d).order = IF \E i \in DOMAIN w.order : w.order[i] = d.id THEN w.order ELSE Append(w.order, d.id)
    BY ApplyNodeType, Zenon
  <2> QED BY <1>1, <1>4, <2>1, Zenon
<1>6. CASE d.id = n + 1
  <2>1. ~ \E i \in DOMAIN o : o[i] = d.id
    BY <1>2, <1>6
  <2>2. PICK i1 : i1 = d.id
    OBVIOUS
  <2>3. x = Append(o, i1) /\ i1 \in 1..MaxNodes
    BY <1>3, <1>5, <2>1, <2>2
  <2>4. Len(x) = Len(o) + 1 /\ x[Len(o) + 1] = i1 /\ \A i \in 1..Len(o) : x[i] = o[i]
    BY <1>2, <2>3, AppendProperties
  <2>5. \A i \in 1..(n + 1) : i = n + 1 \/ i \in 1..n
    OBVIOUS
  <2>6. Len(x) = n + 1 /\ \A i \in 1..(n + 1) : x[i] = i
    BY <1>2, <1>6, <2>2, <2>4, <2>5
  <2> QED BY <1>4, <1>6, <2>6 DEF Counted
<1>7. CASE d.id # n + 1
  <2>1. d.id \in 1..n
    BY <1>3, <1>7
  <2>2. x = o
    BY <1>2, <1>5, <2>1
  <2> QED BY <1>2, <1>4, <1>7, <2>2 DEF Counted
<1> QED BY <1>6, <1>7

LEMMA FoldNodes ==
  ASSUME NEW w \in View, NEW ds \in Seq(NodeDelta), NEW n \in Nat, NEW m \in Nat, NEW text,
         Counted(w, n), Fills(w, ds, n, m, text)
  PROVE  /\ Counted(ApplyNodes(w, ds), IF n < m THEN m ELSE n)
         /\ \A i \in 1..MaxNodes : ApplyNodes(w, ds).block[i] = IF i <= m THEN text[i] ELSE w.block[i]
<1>1. PICK N \in Nat : N = Len(ds)
  BY LenProperties
<1>2. PICK G : /\ ApplyNodes(w, ds) = G[N] /\ G[0] = w /\ \A k \in 0..N : G[k] \in View
               /\ \A k \in 1..N : G[k] = ApplyNode(G[k - 1], ds[k])
  BY <1>1, NodesRun
<1>3. PICK id : id = [k \in 1..N |-> ds[k].id]
  OBVIOUS
<1>4. /\ \A j, k \in 1..N : j < k => id[j] < id[k]
      /\ \A k \in 1..N : id[k] \in 1..m /\ id[k] \in Nat /\ id[k] \in 1..MaxNodes /\ ds[k] \in NodeDelta
      /\ \A k \in 1..N : ds[k].id = id[k] /\ FoldDelta(w.block[id[k]], ds[k]) = text[id[k]]
      /\ \A i \in 1..m : (\E k \in 1..N : id[k] = i) \/ (i <= n /\ w.block[i] = text[i])
  <2>1. \A k \in 1..N : ds[k] \in NodeDelta /\ ds[k].id = id[k]
    BY <1>1, <1>3, ElementOfSeq
  <2>2. \A k \in 1..N : id[k] \in 1..MaxNodes
    BY <2>1 DEF NodeDelta
  <2>3. /\ \A j, k \in 1..N : j < k => id[j] < id[k]
        /\ \A k \in 1..N : id[k] \in 1..m /\ FoldDelta(w.block[id[k]], ds[k]) = text[id[k]]
        /\ \A i \in 1..m : (\E k \in 1..N : id[k] = i) \/ (i <= n /\ w.block[i] = text[i])
    <3>1. \A j, k \in 1..N : j < k => id[j] < id[k]
      BY <1>1, <2>1 DEF Fills
    <3>2. \A k \in 1..N : id[k] \in 1..m /\ FoldDelta(w.block[id[k]], ds[k]) = text[id[k]]
      BY <1>1, <2>1 DEF Fills
    <3>3. \A i \in 1..m : (\E k \in 1..N : id[k] = i) \/ (i <= n /\ w.block[i] = text[i])
      BY <1>1, <2>1 DEF Fills
    <3> QED BY <3>1, <3>2, <3>3
  <2>4. \A k \in 1..N : id[k] \in Nat
    BY <2>3
  <2> QED BY <2>1, <2>2, <2>3, <2>4
<1> DEFINE top(k) == IF k = 0 THEN n ELSE IF id[k] > n THEN id[k] ELSE n
           Good(k) == /\ Counted(G[k], top(k))
                      /\ \A j \in 1..k : G[k].block[id[j]] = text[id[j]]
                      /\ \A i \in 1..MaxNodes : (\A j \in 1..k : id[j] # i) => G[k].block[i] = w.block[i]
           T == {k \in 0..N : Good(k)}
<1>5. 0 \in T
  BY <1>2
<1>6. ASSUME NEW k \in 0..(N - 1), k \in T PROVE k + 1 \in T
  <2>1. k + 1 \in 1..N /\ (k + 1) - 1 = k /\ k \in 0..N /\ k + 1 \in 0..N /\ k \in Nat
    BY <1>6
  <2>2. Good(k)
    BY <1>6
  <2>3. PICK x, d, i : x = G[k] /\ d = ds[k + 1] /\ i = id[k + 1]
    OBVIOUS
  <2>4. /\ x \in View /\ d \in NodeDelta /\ d.id = i /\ G[k + 1] = ApplyNode(x, d)
        /\ i \in 1..m /\ i \in Nat /\ i \in 1..MaxNodes /\ FoldDelta(w.block[i], d) = text[i]
    BY <1>2, <1>4, <2>1, <2>3
  <2>5. \A j \in 1..k : id[j] < i /\ id[j] # i /\ j \in 1..N
    BY <1>4, <2>1, <2>3
  <2>6. PICK b : b = x.block
    OBVIOUS
  <2>7. b \in [1..MaxNodes -> Seq(Bytes)] /\ b[i] = w.block[i]
    BY <2>2, <2>3, <2>4, <2>5, <2>6 DEF View
  <2>8. ApplyNode(x, d).block = [b EXCEPT ![i] = FoldDelta(@, d)]
    BY <2>4, <2>6, ApplyNodeType
  <2>9. G[k + 1].block[i] = text[i] /\ \A h \in 1..MaxNodes : h # i => G[k + 1].block[h] = b[h]
    BY <2>4, <2>7, <2>8
  <2>10. \A j \in 1..(k + 1) : G[k + 1].block[id[j]] = text[id[j]]
    <3> TAKE j \in 1..(k + 1)
    <3>1. CASE j = k + 1
      BY <2>3, <2>9, <3>1
    <3>2. CASE j # k + 1
      <4>1. j \in 1..k
        BY <2>1, <3>2
      <4>2. id[j] \in 1..MaxNodes /\ id[j] # i
        BY <1>4, <2>5, <4>1
      <4>3. b[id[j]] = text[id[j]]
        BY <2>2, <2>3, <2>6, <4>1
      <4> QED BY <2>9, <4>2, <4>3
    <3> QED BY <3>1, <3>2
  <2>11. ASSUME NEW h \in 1..MaxNodes, \A j \in 1..(k + 1) : id[j] # h PROVE G[k + 1].block[h] = w.block[h]
    <3>1. k + 1 \in 1..(k + 1) /\ \A j \in 1..k : j \in 1..(k + 1)
      BY <2>1
    <3>2. h # i /\ \A j \in 1..k : id[j] # h
      BY <2>3, <2>11, <3>1
    <3>3. b[h] = w.block[h]
      BY <2>2, <2>3, <2>6, <2>11, <3>2
    <3> QED BY <2>9, <2>11, <3>2, <3>3
  <2>12. PICK t : t = top(k)
    OBVIOUS
  <2>13. t \in Nat /\ t >= n /\ (k = 0 => t = n) /\ (k # 0 => t >= id[k] /\ (t = n \/ t = id[k]))
    <3>1. CASE k = 0
      BY <2>12, <3>1
    <3>2. CASE k # 0
      <4>1. id[k] \in Nat
        BY <1>4, <2>1, <3>2
      <4> QED BY <2>12, <3>2, <4>1
    <3> QED BY <3>1, <3>2
  <2>14. i <= t + 1
    <3> SUFFICES ASSUME ~(i <= t + 1) PROVE FALSE
      OBVIOUS
    <3>1. t + 1 \in 1..m /\ ~(t + 1 <= n) /\ t + 1 < i
      BY <2>4, <2>13
    <3>2. PICK j \in 1..N : id[j] = t + 1
      BY <1>4, <3>1
    <3>3. ~(j < k + 1)
      <4> SUFFICES ASSUME j < k + 1 PROVE FALSE
        OBVIOUS
      <4>1. k # 0 /\ j <= k /\ k \in 1..N
        BY <2>1
      <4>2. id[k] <= t /\ id[k] \in Nat
        BY <1>4, <2>13, <4>1
      <4>3. CASE j = k
        BY <2>13, <3>2, <4>2, <4>3
      <4>4. CASE j < k
        BY <1>4, <2>13, <3>2, <4>1, <4>2, <4>4
      <4> QED BY <4>1, <4>3, <4>4
    <3>4. CASE j = k + 1
      BY <2>3, <3>1, <3>2, <3>4
    <3>5. CASE k + 1 < j
      <4>1. id[k + 1] < id[j]
        BY <1>4, <2>1, <3>5
      <4> QED BY <2>3, <2>4, <2>13, <3>1, <3>2, <4>1
    <3> QED BY <2>1, <3>3, <3>4, <3>5
  <2>15. Counted(x, t)
    BY <2>2, <2>3, <2>12
  <2>16. Counted(G[k + 1], IF i = t + 1 THEN t + 1 ELSE t)
    <3>1. d.id <= t + 1
      BY <2>4, <2>14
    <3>2. Counted(ApplyNode(x, d), IF d.id = t + 1 THEN t + 1 ELSE t)
      BY <2>4, <2>13, <2>15, <3>1, OneMore
    <3> QED BY <2>4, <3>2
  <2>17. (IF i = t + 1 THEN t + 1 ELSE t) = top(k + 1)
    <3>1. top(k + 1) = IF i > n THEN i ELSE n
      BY <2>1, <2>3
    <3>2. CASE i = t + 1
      BY <2>13, <3>1, <3>2
    <3>3. CASE i # t + 1
      <4>1. i <= t
        BY <2>4, <2>13, <2>14, <3>3
      <4>2. t = n
        <5>1. CASE k = 0
          BY <2>13, <5>1
        <5>2. CASE k # 0
          <6>1. k \in 1..k
            BY <2>1, <5>2
          <6>2. id[k] < i /\ id[k] \in Nat
            BY <1>4, <2>5, <6>1
          <6> QED BY <2>4, <2>13, <4>1, <5>2, <6>2
        <5> QED BY <5>1, <5>2
      <4> QED BY <2>4, <3>1, <3>3, <4>1, <4>2
    <3> QED BY <3>2, <3>3
  <2>18. Good(k + 1)
    BY <2>10, <2>11, <2>16, <2>17
  <2> HIDE DEF Good
  <2> QED BY <2>1, <2>18
<1>7. \A k \in 0..N : k \in T
  <2> HIDE DEF T
  <2> QED BY <1>5, <1>6, UpTo
<1>8. Good(N)
  BY <1>7
<1>9. top(N) = IF n < m THEN m ELSE n
  <2>1. CASE n < m
    <3>1. m \in 1..m /\ ~(m <= n)
      BY <2>1
    <3>2. PICK k \in 1..N : id[k] = m
      BY <1>4, <3>1
    <3>3. N \in 1..N /\ N # 0
      BY <3>2
    <3>4. id[N] = m
      <4>1. CASE k = N
        BY <3>2, <4>1
      <4>2. CASE k # N
        <5>1. k < N
          BY <3>2, <4>2
        <5>2. id[k] < id[N] /\ id[N] \in 1..m
          BY <1>4, <3>2, <3>3, <5>1
        <5> QED BY <3>2, <5>2
      <4> QED BY <4>1, <4>2
    <3> QED BY <2>1, <3>3, <3>4
  <2>2. CASE ~(n < m)
    <3>1. CASE N = 0
      BY <2>2, <3>1
    <3>2. CASE N # 0
      <4>1. id[N] \in 1..m
        BY <1>4, <3>2
      <4> QED BY <2>2, <3>2, <4>1
    <3> QED BY <3>1, <3>2
  <2> QED BY <2>1, <2>2
<1>10. ASSUME NEW i \in 1..MaxNodes PROVE G[N].block[i] = IF i <= m THEN text[i] ELSE w.block[i]
  <2>1. CASE \E k \in 1..N : id[k] = i
    <3>1. PICK k \in 1..N : id[k] = i
      BY <2>1
    <3>2. i <= m
      BY <1>4, <3>1
    <3> QED BY <1>8, <3>1, <3>2
  <2>2. CASE ~ \E k \in 1..N : id[k] = i
    <3>1. G[N].block[i] = w.block[i]
      BY <1>8, <1>10, <2>2
    <3>2. CASE i <= m
      <4>1. i \in 1..m
        BY <1>10, <3>2, AriaStreamAssumption
      <4>2. w.block[i] = text[i]
        BY <1>4, <2>2, <4>1
      <4> QED BY <3>1, <3>2, <4>2
    <3>3. CASE ~(i <= m)
      BY <3>1, <3>3
    <3> QED BY <3>2, <3>3
  <2> QED BY <2>1, <2>2
<1> QED BY <1>2, <1>8, <1>9, <1>10

-----------------------------------------------------------------------------
(* What the client's copy of a unit owes to the server.  c lists the contents  *)
(* the unit took, version 0 first; e counts its frames the client received.    *)

\* What version v was made from, and what the unit is closed with.
Old(c, v)  == IF v = 0 THEN <<>> ELSE c[v]
Closing(c) == IF c = <<>> THEN <<>> ELSE c[Len(c)]

\* The deltas ds turn the nodes old into new.
Makes(ds, old, new) ==
  /\ \A j, k \in 1..Len(ds) : j < k => ds[j].id < ds[k].id
  /\ \A k \in 1..Len(ds) :
       /\ ds[k].id \in 1..Len(new)
       /\ IF ds[k].id > Len(old) THEN ds[k] = FullSet(ds[k].id, new[ds[k].id])
          ELSE FoldDelta(old[ds[k].id], ds[k]) = new[ds[k].id]
  /\ \A i \in 1..Len(new) : (\E k \in 1..Len(ds) : ds[k].id = i) \/ (i <= Len(old) /\ old[i] = new[i])

\* f is a snapshot of one of the contents c.
SnapOf(f, c) ==
  /\ f.v \in 0..(Len(c) - 1)
  /\ f.nodes = [i \in 1..Len(c[f.v + 1]) |-> FullSet(i, c[f.v + 1][i])]

\* The contents of a unit: nodes are never taken away.
Contents(c) ==
  /\ c \in Seq(Seq(Texts))
  /\ \A i \in 1..Len(c) : c[i] # <<>> /\ Len(c[i]) <= MaxNodes
  /\ \A i, j \in 1..Len(c) : i <= j => Len(c[i]) <= Len(c[j])

\* The nodes of the copy are those of the last frame received, and perhaps some
\* that a snapshot one version ahead brought, with the texts it gave them.
NodesOK(w, c, e) ==
  LET old == Old(c, e)
      top == c[IF e < Len(c) THEN e + 1 ELSE e]
  IN /\ Len(w.order) <= Len(top)
     /\ \A i \in 1..Len(w.order) : w.order[i] = i
     /\ \A i \in 1..MaxNodes : i > Len(w.order) => w.block[i] = <<>>
     /\ \A i \in 1..Len(w.order) : i > Len(old) => w.block[i] = top[i]

\* If the copy says it has the version of the last frame received, its texts are
\* those of that version.
CopyOK(w, c, e) ==
  /\ NodesOK(w, c, e)
  /\ w.v + 1 = e => Len(Old(c, e)) <= Len(w.order) /\ \A i \in 1..Len(Old(c, e)) : w.block[i] = Old(c, e)[i]

LEMMA FullSetFolds ==
  ASSUME NEW i, NEW x, NEW t
  PROVE  FoldDelta(t, FullSet(i, x)) = IF x = <<>> THEN t ELSE x
<1>1. FullSet(i, x).op = IF x = <<>> THEN "keep" ELSE "set"
  BY DEF FullSet
<1>2. FullSet(i, x).splice.ins = x
  BY DEF FullSet, NoSplice
<1> QED BY <1>1, <1>2 DEF FoldDelta

LEMMA DeltaFolds ==
  ASSUME NEW i, NEW old \in Texts, NEW new \in Texts
  PROVE  FoldDelta(old, Delta(i, old, new)) = new
<1>1. old \in Seq(Bytes) /\ new \in Seq(Bytes)
  BY TextIs
<1>2. CASE old = <<>> \/ new = <<>>
  <2>1. Delta(i, old, new).op = "set" /\ Delta(i, old, new).splice.ins = new
    BY <1>2 DEF Delta, NoSplice
  <2> QED BY <2>1 DEF FoldDelta
<1>3. CASE ~(old = <<>> \/ new = <<>>)
  <2>1. Delta(i, old, new).op = "splice" /\ Delta(i, old, new).splice = Diff(old, new)
    BY <1>3 DEF Delta
  <2>2. Apply(old, Diff(old, new)) = new
    BY <1>1, DiffApplies
  <2> QED BY <2>1, <2>2 DEF FoldDelta
<1> QED BY <1>2, <1>3

\* An Update's deltas turn the open message's nodes into its new ones.
LEMMA DeltasMake ==
  ASSUME NEW olds \in Seq(Texts), NEW news \in NodeLists, NEW u \in Seq(Texts),
         Len(u) = IF Len(news) < Len(olds) THEN Len(olds) ELSE Len(news),
         \A i \in 1..Len(u) : u[i] = IF i <= Len(news) THEN news[i] ELSE olds[i]
  PROVE  Makes(Deltas(olds, news), olds, u)
<1>1. PICK n \in Nat, m \in Nat : n = Len(news) /\ m = Len(olds) /\ DOMAIN news = 1..n
  BY NodeListIs, LenProperties
<1> DEFINE all == [i \in DOMAIN news |-> IF i > Len(olds) THEN FullSet(i, news[i]) ELSE Delta(i, olds[i], news[i])]
           I   == {i \in DOMAIN news : i > Len(olds) \/ olds[i] # news[i]}
<1>2. PICK ds : ds = Deltas(olds, news)
  OBVIOUS
<1>3. ds \in GoodDeltas /\ \E h : PartOf(ds, all, I, h)
  BY <1>2, DeltasType
<1>4. PICK h : PartOf(ds, all, I, h)
  BY <1>3
<1>5. ds \in Seq(NodeDelta) /\ DOMAIN ds = 1..Len(ds) /\ Len(ds) \in Nat
  BY <1>3, LenProperties DEF GoodDeltas
<1>6. PICK N \in Nat : N = Len(ds)
  BY <1>5
<1>7. /\ \A k \in 1..N : h[k] \in 1..n /\ (h[k] > m \/ olds[h[k]] # news[h[k]]) /\ ds[k] = all[h[k]]
      /\ \A j, k \in 1..N : j < k => h[j] < h[k]
      /\ \A i \in 1..n : i > m \/ olds[i] # news[i] => \E k \in 1..N : h[k] = i
  <2>1. I = {i \in 1..n : i > m \/ olds[i] # news[i]}
    BY <1>1
  <2>2. /\ \A k \in 1..N : h[k] \in I /\ ds[k] = all[h[k]]
        /\ \A j, k \in 1..N : j < k => h[j] < h[k]
        /\ \A i \in I : \E k \in 1..N : h[k] = i
    <3> HIDE DEF all, I
    <3> QED BY <1>4, <1>5, <1>6 DEF PartOf
  <2> HIDE DEF all
  <2> QED BY <2>1, <2>2
<1>8. \A i \in 1..n : all[i] = IF i > m THEN FullSet(i, news[i]) ELSE Delta(i, olds[i], news[i])
  BY <1>1
<1> HIDE DEF all, I
<1>9. PICK L \in Nat : L = Len(u) /\ L = IF n < m THEN m ELSE n
  BY <1>1, LenProperties
<1>10. \A i \in 1..L : u[i] = IF i <= n THEN news[i] ELSE olds[i]
  BY <1>1, <1>9
<1>11. ASSUME NEW k \in 1..N
       PROVE  /\ ds[k].id = h[k] /\ h[k] \in 1..L
              /\ IF h[k] > m THEN ds[k] = FullSet(h[k], u[h[k]]) ELSE FoldDelta(olds[h[k]], ds[k]) = u[h[k]]
  <2>1. PICK i \in 1..n : i = h[k] /\ ds[k] = all[i]
    BY <1>7, <1>11
  <2>2. i \in 1..L /\ u[i] = news[i] /\ news[i] \in Texts
    <3>1. i \in 1..L /\ i <= n
      BY <1>9, <2>1
    <3> QED BY <1>1, <1>10, <2>1, <3>1, NodeListIs, ElementOfSeq
  <2>3. i \in 1..MaxNodes
    BY <1>1, <2>1, NodeListIs, AriaStreamAssumption
  <2>4. CASE i > m
    <3>1. ds[k] = FullSet(i, u[i]) /\ ds[k].id = i
      BY <1>8, <2>1, <2>2, <2>3, <2>4, FullSetType
    <3> QED BY <2>1, <2>2, <2>4, <3>1
  <2>5. CASE ~(i > m)
    <3>1. olds[i] \in Texts
      BY <1>1, <2>1, <2>5, ElementOfSeq
    <3>2. ds[k] = Delta(i, olds[i], news[i])
      BY <1>8, <2>1, <2>5
    <3>3. ds[k].id = i /\ FoldDelta(olds[i], ds[k]) = news[i]
      BY <2>2, <2>3, <3>1, <3>2, DeltaType, DeltaFolds
    <3> QED BY <2>1, <2>2, <2>5, <3>3
  <2> QED BY <2>4, <2>5
<1>12. ASSUME NEW i \in 1..L PROVE (\E k \in 1..N : ds[k].id = i) \/ (i <= m /\ olds[i] = u[i])
  <2>1. CASE i <= n
    <3>1. i \in 1..n /\ u[i] = news[i]
      BY <1>10, <1>12, <2>1
    <3>2. CASE i > m \/ olds[i] # news[i]
      <4>1. PICK k \in 1..N : h[k] = i
        BY <1>7, <3>1, <3>2
      <4> QED BY <1>11, <4>1
    <3>3. CASE ~(i > m \/ olds[i] # news[i])
      BY <3>1, <3>3
    <3> QED BY <3>2, <3>3
  <2>2. CASE ~(i <= n)
    <3>1. u[i] = olds[i] /\ i <= m
      BY <1>9, <1>10, <1>12, <2>2
    <3> QED BY <3>1
  <2> QED BY <2>1, <2>2
<1>13. \A j, k \in 1..N : j < k => ds[j].id < ds[k].id
  BY <1>7, <1>11
<1>14. Makes(ds, olds, u)
  BY <1>1, <1>6, <1>9, <1>11, <1>12, <1>13 DEF Makes
<1> QED BY <1>2, <1>14

\* What the contents are made of.
LEMMA ContentIs ==
  ASSUME NEW c, Contents(c), NEW k \in 1..Len(c)
  PROVE  /\ c[k] \in Seq(Texts) /\ Len(c[k]) \in Nat /\ Len(c[k]) <= MaxNodes /\ c[k] # <<>>
         /\ \A i \in 1..Len(c[k]) : c[k][i] \in Texts
<1>1. c[k] \in Seq(Texts)
  BY ElementOfSeq DEF Contents
<1>2. Len(c[k]) \in Nat /\ \A i \in 1..Len(c[k]) : c[k][i] \in Texts
  BY <1>1, LenProperties, ElementOfSeq
<1> QED BY <1>1, <1>2 DEF Contents

\* The copy has exactly the nodes ns.
Exact(w, ns) ==
  /\ Counted(w, Len(ns))
  /\ \A i \in 1..MaxNodes : w.block[i] = IF i <= Len(ns) THEN ns[i] ELSE <<>>

\* The deltas of a version fold into a copy of the version before, whatever nodes
\* it has beyond it.
LEMMA FrameFolds ==
  ASSUME NEW w \in View, NEW ds \in Seq(NodeDelta), NEW old \in Seq(Texts), NEW new \in Seq(Texts), Makes(ds, old, new),
         NEW n \in Nat, Counted(w, n), Len(old) <= n, n <= Len(new), Len(new) <= MaxNodes,
         \A i \in 1..MaxNodes : w.block[i] = IF i <= Len(old) THEN old[i] ELSE IF i <= n THEN new[i] ELSE <<>>
  PROVE  Exact(ApplyNodes(w, ds), new)
<1>1. PICK o \in Nat, m \in Nat, N \in Nat : o = Len(old) /\ m = Len(new) /\ N = Len(ds)
  BY LenProperties
<1>2. o <= n /\ n <= m /\ m <= MaxNodes /\ MaxNodes \in Nat
  BY <1>1, AriaStreamAssumption
<1>3. \A i \in 1..MaxNodes : w.block[i] = IF i <= o THEN old[i] ELSE IF i <= n THEN new[i] ELSE <<>>
  BY <1>1
<1>4. /\ \A j, k \in 1..N : j < k => ds[j].id < ds[k].id
      /\ \A k \in 1..N :
           /\ ds[k].id \in 1..m
           /\ IF ds[k].id > o THEN ds[k] = FullSet(ds[k].id, new[ds[k].id])
              ELSE FoldDelta(old[ds[k].id], ds[k]) = new[ds[k].id]
      /\ \A i \in 1..m : (\E k \in 1..N : ds[k].id = i) \/ (i <= o /\ old[i] = new[i])
  BY <1>1 DEF Makes
<1>5. ASSUME NEW k \in 1..N PROVE FoldDelta(w.block[ds[k].id], ds[k]) = new[ds[k].id]
  <2>1. PICK i \in 1..m : i = ds[k].id
    BY <1>4, <1>5
  <2>2. i \in 1..MaxNodes
    BY <1>2, <2>1
  <2>3. CASE i > o
    <3>1. ds[k] = FullSet(i, new[i])
      BY <1>4, <1>5, <2>1, <2>3
    <3>2. w.block[i] = IF i <= n THEN new[i] ELSE <<>>
      BY <1>3, <2>2, <2>3
    <3>3. FoldDelta(w.block[i], ds[k]) = IF new[i] = <<>> THEN w.block[i] ELSE new[i]
      BY <3>1, FullSetFolds
    <3> QED BY <2>1, <3>2, <3>3
  <2>4. CASE ~(i > o)
    <3>1. FoldDelta(old[i], ds[k]) = new[i] /\ w.block[i] = old[i]
      BY <1>3, <1>4, <1>5, <2>1, <2>2, <2>4
    <3> QED BY <2>1, <3>1
  <2> QED BY <2>3, <2>4
<1>6. ASSUME NEW i \in 1..m PROVE (\E k \in 1..N : ds[k].id = i) \/ (i <= n /\ w.block[i] = new[i])
  <2>1. CASE \E k \in 1..N : ds[k].id = i
    BY <2>1
  <2>2. CASE i <= o /\ old[i] = new[i]
    <3>1. i \in 1..MaxNodes /\ i <= n
      BY <1>2, <1>6, <2>2
    <3> QED BY <1>3, <2>2, <3>1
  <2> QED BY <1>4, <1>6, <2>1, <2>2
<1>7. Fills(w, ds, n, m, new)
  BY <1>1, <1>4, <1>5, <1>6 DEF Fills
<1>8. /\ Counted(ApplyNodes(w, ds), IF n < m THEN m ELSE n)
      /\ \A i \in 1..MaxNodes : ApplyNodes(w, ds).block[i] = IF i <= m THEN new[i] ELSE w.block[i]
  BY <1>7, FoldNodes
<1>9. (IF n < m THEN m ELSE n) = m
  BY <1>2
<1>10. ASSUME NEW i \in 1..MaxNodes PROVE ApplyNodes(w, ds).block[i] = IF i <= m THEN new[i] ELSE <<>>
  <2>1. CASE i <= m
    BY <1>8, <1>10, <2>1
  <2>2. CASE ~(i <= m)
    <3>1. ~(i <= o) /\ ~(i <= n)
      BY <1>2, <1>10, <2>2
    <3> QED BY <1>3, <1>8, <1>10, <2>2, <3>1
  <2> QED BY <2>1, <2>2
<1> QED BY <1>1, <1>8, <1>9, <1>10 DEF Exact

\* An exact copy of version e - 1, the last one received.
LEMMA ExactCopy ==
  ASSUME NEW w \in View, NEW c, Contents(c), NEW e \in 1..Len(c), Exact(w, c[e])
  PROVE  CopyOK(w, c, e)
<1>1. PICK K \in Nat : K = Len(c)
  BY LenProperties DEF Contents
<1>2. e \in Nat /\ e # 0 /\ e \in 1..K
  BY <1>1
<1>3. PICK t \in 1..K : t = (IF e < K THEN e + 1 ELSE e) /\ e <= t
  BY <1>2
<1>4. PICK m \in Nat : m = Len(c[e]) /\ m <= MaxNodes
  BY ContentIs
<1>5. m <= Len(c[t])
  BY <1>1, <1>2, <1>3, <1>4 DEF Contents
<1>6. Len(w.order) = m /\ \A i \in 1..m : w.order[i] = i
  BY <1>4 DEF Exact, Counted
<1>7. \A i \in 1..MaxNodes : w.block[i] = IF i <= m THEN c[e][i] ELSE <<>>
  BY <1>4 DEF Exact
<1>8. Old(c, e) = c[e]
  BY <1>2 DEF Old
<1>9. NodesOK(w, c, e)
  <2>1. \A i \in 1..MaxNodes : i > m => w.block[i] = <<>>
    BY <1>4, <1>7, AriaStreamAssumption
  <2>2. \A i \in 1..m : ~(i > m)
    OBVIOUS
  <2> QED BY <1>1, <1>3, <1>4, <1>5, <1>6, <1>8, <2>1, <2>2 DEF NodesOK
<1>10. \A i \in 1..m : w.block[i] = c[e][i]
  <2> TAKE i \in 1..m
  <2>1. i \in 1..MaxNodes /\ i <= m
    BY <1>4, AriaStreamAssumption
  <2> QED BY <1>7, <2>1
<1> QED BY <1>4, <1>6, <1>8, <1>9, <1>10 DEF CopyOK

\* A snapshot folds into a copy, when it need not clear a text.
LEMMA SnapFolds ==
  ASSUME NEW w \in View, NEW f \in GoodLive, NEW c, Contents(c), SnapOf(f, c), NEW e \in 0..Len(c), f.v <= e,
         NodesOK(w, c, e), \A i \in DOMAIN f.nodes : f.nodes[i].op = "keep" => w.block[f.nodes[i].id] = <<>>
  PROVE  CopyOK([ApplyNodes(w, f.nodes) EXCEPT !.v = f.v], c, e)
<1>1. PICK K \in Nat : K = Len(c)
  BY LenProperties DEF Contents
<1>2. PICK s \in Nat : s = f.v /\ s <= K - 1 /\ s + 1 \in 1..K
  BY <1>1 DEF SnapOf
<1>3. e \in Nat /\ e <= K /\ s <= e
  BY <1>1, <1>2
<1>4. PICK ns : ns = c[s + 1]
  OBVIOUS
<1>5. PICK m \in Nat : m = Len(ns) /\ m <= MaxNodes /\ \A i \in 1..m : ns[i] \in Texts
  BY <1>1, <1>2, <1>4, ContentIs
<1>6. f.nodes = [i \in 1..m |-> FullSet(i, ns[i])] /\ f.nodes \in Seq(NodeDelta)
  BY <1>2, <1>4, <1>5 DEF SnapOf, GoodLive, GoodDeltas
<1>7. PICK ds : ds = f.nodes
  OBVIOUS
<1>8. ds \in Seq(NodeDelta) /\ DOMAIN ds = 1..m /\ Len(ds) = m /\ \A i \in 1..m : ds[i] = FullSet(i, ns[i])
  <2>1. ds \in Seq(NodeDelta) /\ DOMAIN ds = 1..m /\ \A i \in 1..m : ds[i] = FullSet(i, ns[i])
    BY <1>6, <1>7
  <2>2. Len(ds) = m
    BY <2>1, LenProperties
  <2> QED BY <2>1, <2>2
<1>9. \A i \in 1..m : i \in 1..MaxNodes /\ ds[i].id = i /\ ds[i].op = IF ns[i] = <<>> THEN "keep" ELSE "set"
  <2> TAKE i \in 1..m
  <2>1. i \in 1..MaxNodes
    BY <1>5, AriaStreamAssumption
  <2>2. FullSet(i, ns[i]).id = i /\ FullSet(i, ns[i]).op = IF ns[i] = <<>> THEN "keep" ELSE "set"
    BY DEF FullSet
  <2> QED BY <1>8, <2>1, <2>2
<1>10. PICK n \in Nat : n = Len(w.order)
  BY LenProperties DEF View
<1>11. PICK t : t = (IF e < K THEN e + 1 ELSE e)
  OBVIOUS
<1>12. /\ n <= Len(c[t]) /\ \A i \in 1..n : w.order[i] = i
       /\ \A i \in 1..MaxNodes : i > n => w.block[i] = <<>>
       /\ \A i \in 1..n : i > Len(Old(c, e)) => w.block[i] = c[t][i]
  BY <1>1, <1>10, <1>11 DEF NodesOK
<1>13. ASSUME NEW k \in 1..m PROVE FoldDelta(w.block[ds[k].id], ds[k]) = ns[ds[k].id]
  <2>1. ds[k].id = k /\ ds[k] = FullSet(k, ns[k])
    BY <1>8, <1>9, <1>13
  <2>2. FoldDelta(w.block[k], ds[k]) = IF ns[k] = <<>> THEN w.block[k] ELSE ns[k]
    BY <2>1, FullSetFolds
  <2>3. ns[k] = <<>> => w.block[k] = <<>>
    BY <1>7, <1>8, <1>9, <1>13
  <2> QED BY <2>1, <2>2, <2>3
<1>14. Fills(w, ds, n, m, ns)
  <2>1. \A j, k \in 1..m : j < k => ds[j].id < ds[k].id
    BY <1>9
  <2>2. \A k \in 1..m : ds[k].id \in 1..m
    BY <1>9
  <2>3. \A i \in 1..m : \E k \in 1..m : ds[k].id = i
    BY <1>9
  <2> QED BY <1>8, <1>13, <2>1, <2>2, <2>3 DEF Fills
<1>15. Counted(w, n)
  BY <1>10, <1>12 DEF Counted
<1>16. PICK a : a = ApplyNodes(w, ds)
  OBVIOUS
<1>17. PICK x \in Nat : x = IF n < m THEN m ELSE n
  OBVIOUS
<1>18. /\ a \in View /\ Counted(a, x)
       /\ \A i \in 1..MaxNodes : a.block[i] = IF i <= m THEN ns[i] ELSE w.block[i]
  BY <1>8, <1>14, <1>15, <1>16, <1>17, FoldNodes, ApplyNodesType
<1>19. PICK r : r = [a EXCEPT !.v = f.v]
  OBVIOUS
<1>20. r.order = a.order /\ r.block = a.block /\ r.v = s
  BY <1>2, <1>18, <1>19 DEF View
<1>21. Len(r.order) = x /\ \A i \in 1..x : r.order[i] = i
  BY <1>18, <1>20 DEF Counted
<1>22. t \in 1..K /\ t \in Nat /\ s + 1 <= t
  BY <1>1, <1>2, <1>3, <1>11
<1>23. PICK T \in Nat : T = Len(c[t]) /\ T <= MaxNodes
  BY <1>1, <1>22, ContentIs
<1>24. m <= T
  BY <1>1, <1>2, <1>4, <1>5, <1>22, <1>23 DEF Contents
<1>25. PICK o \in Nat : o = Len(Old(c, e)) /\ (s + 1 <= e => m <= o) /\ (s + 1 = e => Old(c, e) = ns)
  <2>1. CASE e = 0
    BY <1>2, <2>1, EmptyText DEF Old
  <2>2. CASE e # 0
    <3>1. e \in 1..K /\ Old(c, e) = c[e]
      BY <1>3, <2>2 DEF Old
    <3>2. Len(c[e]) \in Nat
      BY <1>1, <3>1, ContentIs
    <3>3. s + 1 <= e => m <= Len(c[e])
      BY <1>1, <1>2, <1>4, <1>5, <3>1 DEF Contents
    <3>4. s + 1 = e => c[e] = ns
      BY <1>4
    <3> QED BY <3>1, <3>2, <3>3, <3>4
  <2> QED BY <2>1, <2>2
<1>26. \A i \in 1..MaxNodes : i > x => r.block[i] = <<>>
  <2> TAKE i \in 1..MaxNodes
  <2> HAVE i > x
  <2>1. ~(i <= m) /\ i > n
    BY <1>17, AriaStreamAssumption
  <2> QED BY <1>12, <1>18, <1>20, <2>1
<1>27. ASSUME NEW i \in 1..x, i > o PROVE r.block[i] = c[t][i]
  <2>1. i \in 1..MaxNodes
    BY <1>12, <1>17, <1>23, <1>24, <1>27, AriaStreamAssumption
  <2>2. CASE i <= m
    <3>1. ~(s + 1 <= e)
      BY <1>25, <1>27, <2>2
    <3>2. s = e /\ e < K
      BY <1>2, <1>3, <3>1
    <3>3. t = s + 1
      BY <1>11, <3>2
    <3> QED BY <1>4, <1>18, <1>20, <2>1, <2>2, <3>3
  <2>3. CASE ~(i <= m)
    <3>1. i \in 1..n
      BY <1>17, <1>27, <2>3
    <3>2. w.block[i] = c[t][i]
      BY <1>12, <1>25, <1>27, <3>1
    <3> QED BY <1>18, <1>20, <2>1, <2>3, <3>2
  <2> QED BY <2>2, <2>3
<1>28. NodesOK(r, c, e)
  <2>1. x <= T
    BY <1>12, <1>17, <1>23, <1>24
  <2> QED BY <1>1, <1>11, <1>21, <1>23, <1>25, <1>26, <1>27, <2>1 DEF NodesOK
<1>29. ASSUME r.v + 1 = e PROVE Len(Old(c, e)) <= Len(r.order) /\ \A i \in 1..Len(Old(c, e)) : r.block[i] = Old(c, e)[i]
  <2>1. Old(c, e) = ns /\ o = m
    BY <1>5, <1>20, <1>25, <1>29
  <2>2. m <= x
    BY <1>17
  <2>3. \A i \in 1..m : r.block[i] = ns[i]
    BY <1>9, <1>18, <1>20
  <2> QED BY <1>5, <1>21, <2>1, <2>2, <2>3
<1>30. CopyOK(r, c, e)
  BY <1>28, <1>29 DEF CopyOK
<1> QED BY <1>7, <1>16, <1>19, <1>30

-----------------------------------------------------------------------------
(* The inductive invariant of Faithful: for every LT there are contents c and  *)
(* a count e that explain what the server, the connection, the reads and the   *)
(* client's copy have of its unit, unless the LT is broken.                    *)

\* Everything on its way to the client in the order of arrival: the connection,
\* then what the drain loop still has to deliver.
LineOf(w, p) == w \o [i \in 1..Len(p) |-> [reader |-> {}, page |-> p[i]]]
Line == LineOf(wire, pending)

\* x is a frame, a blank frame, the close marker, or an answer with a snapshot,
\* of lt.
Framed(x, lt)  == x.reader = {} /\ x.page.live.lt = lt /\ x.page.live.nodes # <<>>
Blank(x, lt)   == x.reader = {} /\ x.page.live.lt = lt /\ x.page.live.nodes = <<>>
Marks(x, lt)   == x.reader = {} /\ \E i \in 1..Len(x.page.committed) :
                                     x.page.committed[i].lt = lt /\ ~Full(x.page.committed[i])
Answers(x, lt) == x.reader # {} /\ x.page.live.lt = lt
Ver(x)         == x.page.live.v

\* A frame makes its version of the one before; an answer is a snapshot of a
\* version; the marker names the last one.
ItemOK(x, lt, c, e) ==
  /\ Framed(x, lt) => /\ Ver(x) \in e..(Len(c) - 1)
                      /\ Makes(x.page.live.nodes, Old(c, Ver(x)), c[Ver(x) + 1])
  /\ Answers(x, lt) => SnapOf(x.page.live, c)
  /\ Marks(x, lt) => \A i \in 1..Len(x.page.committed) :
                       x.page.committed[i].v = IF c = <<>> THEN 0 ELSE Len(c) - 1

\* x arrives before y: frames in the order of their versions, a snapshot behind
\* the frames it contains, the marker behind the frames and a blank behind both.
InOrder(x, y, lt) ==
  /\ Framed(x, lt) /\ Framed(y, lt) => Ver(x) < Ver(y)
  /\ Answers(x, lt) /\ Framed(y, lt) => Ver(x) <= Ver(y)
  /\ Marks(x, lt) => ~Framed(y, lt)
  /\ Blank(x, lt) => ~Framed(y, lt) /\ ~Marks(y, lt)

\* The frames the client has not received, from version e on, are all under way.
LineOK(q, lt, c, e) ==
  /\ \A k \in 1..Len(q) : ItemOK(q[k], lt, c, e)
  /\ \A j, k \in 1..Len(q) : j < k => InOrder(q[j], q[k], lt)
  /\ \A v \in e..(Len(c) - 1) : \E k \in 1..Len(q) : Framed(q[k], lt) /\ Ver(q[k]) = v

\* The open unit has the last contents; a unit whose marker or
\* blank is under way is not open.
ServerOK(o, pub, q, lt, c) ==
  /\ (\E k \in 1..Len(q) : Marks(q[k], lt)) => o.lt # lt /\ [lt |-> lt, nodes |-> Closing(c)] \in pub
  /\ (\E k \in 1..Len(q) : Blank(q[k], lt)) => o.lt # lt
  /\ [lt |-> lt, nodes |-> <<>>] \in pub => c = <<>> /\ o.lt # lt
  /\ o.lt = lt => Len(c) = o.ver /\ Closing(c) = o.nodes

\* The answers that are not on the connection.
ReadsOK(rd, pd, lt, c, e) ==
  \A r \in Readers : rd[r].page.live.lt = lt =>
    /\ rd[r].stage \in {"served", "got"} => SnapOf(rd[r].page.live, c)
    /\ rd[r].stage = "got" => rd[r].page.live.v <= e
    /\ rd[r].stage = "served" =>
         \A k \in 1..Len(pd) : pd[k].live.lt = lt /\ pd[k].live.nodes # <<>> => rd[r].page.live.v <= pd[k].live.v

\* The unit is open, or its close marker is under way.
Alive(o, q, lt) == o.lt = lt \/ \E k \in 1..Len(q) : Marks(q[k], lt)

\* The client's copy, as long as it may still be closed from.
ViewOK(w, alive, lt, c, e) ==
  w.lt = lt => /\ c = <<>> => w.order = <<>> /\ w.block = NoBlocks
               /\ c # <<>> /\ alive => CopyOK(w, c, e)

UnitOK(lt, c, e) ==
  /\ lt \notin Range(opened) => c = <<>>
  /\ Contents(c) /\ e \in 0..Len(c)
  /\ LineOK(Line, lt, c, e) /\ ServerOK(open, published, Line, lt, c)
  /\ ReadsOK(reads, pending, lt, c, e) /\ ViewOK(view, Alive(open, Line, lt), lt, c, e)

\* An LT that was not opened is not in use, and the LTs up to unitLT were opened.
InPlay ==
  /\ 1..unitLT \subseteq Range(opened) /\ open.lt \in {0} \cup Range(opened)
  /\ \A lt \in LTs \ {0} : lt \notin Range(opened) =>
       /\ \A k \in 1..Len(Line) : ~Marks(Line[k], lt) /\ ~Blank(Line[k], lt)
       /\ [lt |-> lt, nodes |-> <<>>] \notin published

\* A push carries one committed entry or a live part; what it and the answers
\* carry of closed messages was published.
Told(cs, pub) == \A i \in 1..Len(cs) : [lt |-> cs[i].lt, nodes |-> cs[i].nodes] \in pub
PushOK(p, pub) ==
  /\ p.committed = <<>> \/ (Len(p.committed) = 1 /\ p.live = NoLive)
  /\ \A i \in 1..Len(p.committed) : p.committed[i].lt # 0
  /\ \A i \in 1..Len(p.committed) : Full(p.committed[i]) =>
       [lt |-> p.committed[i].lt, nodes |-> p.committed[i].nodes] \in pub
PageOK(x, pub) == IF x.reader = {} THEN PushOK(x.page, pub) ELSE Told(x.page.committed, pub)
QueryOK(q, pub) == Told(q.have, pub) /\ Told(q.page.committed, pub)
PagesOK ==
  /\ \A k \in 1..Len(Line) : PageOK(Line[k], published)
  /\ \A r \in Readers : QueryOK(reads[r], published)
  /\ \A i \in 1..Len(history) : history[i] \in published
  /\ \A m \in published : m.lt # 0
  /\ \A k \in 1..Len(pending) : pending[k].live.nodes # <<>> => Len(pending) = 1

Explained == \A lt \in LTs \ {0} : lt \notin broken => \E c, e : UnitOK(lt, c, e)

Copies == Faithful /\ InPlay /\ PagesOK /\ Explained

-----------------------------------------------------------------------------
(* The line under the actions *)

\* What the line consists of.
LEMMA LineIs ==
  ASSUME NEW w \in Seq(Item), NEW p \in Seq(GoodPage)
  PROVE  /\ LineOf(w, p) \in Seq(Item) /\ Len(LineOf(w, p)) = Len(w) + Len(p)
         /\ \A k \in 1..Len(w) : LineOf(w, p)[k] = w[k]
         /\ \A k \in 1..Len(p) : LineOf(w, p)[Len(w) + k] = [reader |-> {}, page |-> p[k]]
<1>1. PICK y : y = [i \in 1..Len(p) |-> [reader |-> {}, page |-> p[i]]]
  OBVIOUS
<1>2. Len(p) \in Nat /\ \A i \in 1..Len(p) : p[i] \in GoodPage
  BY LenProperties, ElementOfSeq
<1>3. \A i \in 1..Len(p) : [reader |-> {}, page |-> p[i]] \in Item
  BY <1>2 DEF Item
<1>4. y \in Seq(Item)
  BY <1>1, <1>2, <1>3, IsASeq
<1>5. Len(y) = Len(p) /\ \A i \in 1..Len(p) : y[i] = [reader |-> {}, page |-> p[i]]
  BY <1>1, <1>2, <1>4, LenProperties
<1>6. LineOf(w, p) = w \o y
  BY <1>1 DEF LineOf
<1>7. /\ w \o y \in Seq(Item) /\ Len(w \o y) = Len(w) + Len(y)
      /\ \A i \in 1..Len(w) : (w \o y)[i] = w[i]
      /\ \A i \in 1..Len(y) : (w \o y)[Len(w) + i] = y[i]
  BY <1>4, Joined
<1> QED BY <1>5, <1>6, <1>7

\* Delivering a push does not change the line.
LEMMA LineDelivered ==
  ASSUME NEW w \in Seq(Item), NEW p \in Seq(GoodPage), p # <<>>
  PROVE  LineOf(Append(w, [reader |-> {}, page |-> Head(p)]), Tail(p)) = LineOf(w, p)
<1>1. PICK x \in Item : x = [reader |-> {}, page |-> Head(p)] /\ Head(p) = p[1]
  <2>1. Head(p) \in GoodPage
    BY HeadTailProperties
  <2>2. Head(p) = p[1]
    OBVIOUS
  <2>3. [reader |-> {}, page |-> Head(p)] \in Item
    BY <2>1 DEF Item
  <2> QED BY <2>2, <2>3
<1>2. PICK n \in Nat, m \in Nat : n = Len(w) /\ m = Len(p) /\ m >= 1
  BY LenProperties, EmptySeq
<1>3. PICK u \in Seq(Item) : u = Append(w, x)
  BY AppendProperties
<1>4. Len(u) = n + 1 /\ (\A k \in 1..n : u[k] = w[k]) /\ u[n + 1] = x
  BY <1>2, <1>3, AppendProperties
<1>5. PICK t \in Seq(GoodPage) : t = Tail(p) /\ Len(t) = m - 1 /\ \A k \in 1..(m - 1) : t[k] = p[k + 1]
  <2>1. Tail(p) \in Seq(GoodPage) /\ Len(Tail(p)) = Len(p) - 1 /\ \A i \in 1..Len(Tail(p)) : Tail(p)[i] = p[i + 1]
    BY HeadTailProperties
  <2> QED BY <1>2, <2>1
<1>6. /\ LineOf(u, t) \in Seq(Item) /\ Len(LineOf(u, t)) = n + 1 + (m - 1)
      /\ \A k \in 1..(n + 1) : LineOf(u, t)[k] = u[k]
      /\ \A k \in 1..(m - 1) : LineOf(u, t)[n + 1 + k] = [reader |-> {}, page |-> t[k]]
  <2>1. /\ LineOf(u, t) \in Seq(Item) /\ Len(LineOf(u, t)) = Len(u) + Len(t)
        /\ \A k \in 1..Len(u) : LineOf(u, t)[k] = u[k]
        /\ \A k \in 1..Len(t) : LineOf(u, t)[Len(u) + k] = [reader |-> {}, page |-> t[k]]
    BY LineIs
  <2> QED BY <1>4, <1>5, <2>1
<1>7. /\ LineOf(w, p) \in Seq(Item) /\ Len(LineOf(w, p)) = n + m
      /\ \A k \in 1..n : LineOf(w, p)[k] = w[k]
      /\ \A k \in 1..m : LineOf(w, p)[n + k] = [reader |-> {}, page |-> p[k]]
  BY <1>2, LineIs
<1>8. ASSUME NEW k \in 1..(n + m) PROVE LineOf(u, t)[k] = LineOf(w, p)[k]
  <2>1. CASE k \in 1..n
    BY <1>4, <1>6, <1>7, <2>1
  <2>2. CASE k = n + 1
    <3>1. LineOf(u, t)[k] = x
      BY <1>4, <1>6, <2>2
    <3>2. LineOf(w, p)[k] = [reader |-> {}, page |-> p[1]]
      <4>1. 1 \in 1..m
        BY <1>2
      <4> QED BY <1>7, <2>2, <4>1
    <3> QED BY <1>1, <3>1, <3>2
  <2>3. CASE k \in (n + 2)..(n + m)
    <3>1. PICK j \in 1..(m - 1) : k = n + 1 + j
      <4>1. k - n - 1 \in 1..(m - 1) /\ k = n + 1 + (k - n - 1)
        BY <1>2, <2>3
      <4> QED BY <4>1
    <3>2. LineOf(u, t)[k] = [reader |-> {}, page |-> p[j + 1]]
      BY <1>5, <1>6, <3>1
    <3>3. j + 1 \in 1..m /\ k = n + (j + 1)
      BY <3>1
    <3> QED BY <1>7, <3>2, <3>3
  <2> QED BY <1>8, <2>1, <2>2, <2>3
<1>9. LineOf(u, t) = LineOf(w, p)
  BY <1>2, <1>6, <1>7, <1>8, SeqEqual
<1> QED BY <1>1, <1>3, <1>5, <1>9

\* q consists of the items of p at the positions g, in their order.
Within(q, p, g) ==
  /\ \A k \in 1..Len(q) : g[k] \in 1..Len(p) /\ q[k] = p[g[k]]
  /\ \A j, k \in 1..Len(q) : j < k => g[j] < g[k]

\* q continues p.
Continues(q, p) ==
  /\ Len(p) \in Nat /\ Len(q) \in Nat /\ Len(p) <= Len(q)
  /\ \A k \in 1..Len(p) : q[k] = p[k]

\* q is p with x in front of its items from position n on.
With(q, p, n, x) ==
  /\ Len(p) \in Nat /\ Len(q) = Len(p) + 1 /\ n \in 1..Len(q) /\ q[n] = x
  /\ \A k \in 1..(n - 1) : q[k] = p[k]
  /\ \A k \in (n + 1)..Len(q) : q[k] = p[k - 1]

\* x says nothing of the contents of lt.
Inert(x, lt) == ~Framed(x, lt) /\ ~Answers(x, lt) /\ ~Marks(x, lt)

\* Taking away other items than frames of lt does no harm,
LEMMA LineThinner ==
  ASSUME NEW p, NEW q, NEW g, Within(q, p, g), NEW lt, NEW c, NEW e, LineOK(p, lt, c, e),
         \A i \in 1..Len(p) : Framed(p[i], lt) => \E k \in 1..Len(q) : g[k] = i
  PROVE  LineOK(q, lt, c, e)
<1>1. ASSUME NEW k \in 1..Len(q) PROVE ItemOK(q[k], lt, c, e)
  BY <1>1 DEF Within, LineOK
<1>2. ASSUME NEW j \in 1..Len(q), NEW k \in 1..Len(q), j < k PROVE InOrder(q[j], q[k], lt)
  BY <1>2 DEF Within, LineOK
<1>3. ASSUME NEW v \in e..(Len(c) - 1) PROVE \E k \in 1..Len(q) : Framed(q[k], lt) /\ Ver(q[k]) = v
  <2>1. PICK i \in 1..Len(p) : Framed(p[i], lt) /\ Ver(p[i]) = v
    BY <1>3 DEF LineOK
  <2>2. PICK k \in 1..Len(q) : g[k] = i
    BY <2>1
  <2>3. q[k] = p[i]
    BY <2>2 DEF Within
  <2> QED BY <2>1, <2>2, <2>3
<1> QED BY <1>1, <1>2, <1>3 DEF LineOK

\* nor does adding items behind the others that say nothing of lt.
LEMMA LineLonger ==
  ASSUME NEW p, NEW q, Continues(q, p), NEW lt, NEW c, NEW e, LineOK(p, lt, c, e),
         \A k \in (Len(p) + 1)..Len(q) : Inert(q[k], lt)
  PROVE  LineOK(q, lt, c, e)
<1>1. PICK n \in Nat, m \in Nat : n = Len(p) /\ m = Len(q) /\ n <= m
  BY DEF Continues
<1>2. \A k \in 1..m : k \in 1..n \/ k \in (n + 1)..m
  BY <1>1
<1>3. \A k \in 1..n : k \in 1..m /\ q[k] = p[k]
  BY <1>1 DEF Continues
<1>4. \A k \in (n + 1)..m : Inert(q[k], lt)
  BY <1>1
<1>5. ASSUME NEW k \in 1..m PROVE ItemOK(q[k], lt, c, e)
  <2>1. CASE k \in 1..n
    BY <1>1, <1>3, <2>1 DEF LineOK
  <2>2. CASE k \in (n + 1)..m
    BY <1>4, <2>2 DEF Inert, ItemOK
  <2> QED BY <1>2, <2>1, <2>2
<1>6. ASSUME NEW j \in 1..m, NEW k \in 1..m, j < k PROVE InOrder(q[j], q[k], lt)
  <2>1. CASE k \in 1..n
    <3>1. j \in 1..n
      BY <1>6, <2>1
    <3> QED BY <1>1, <1>3, <1>6, <2>1, <3>1 DEF LineOK
  <2>2. CASE k \in (n + 1)..m
    BY <1>4, <2>2 DEF Inert, InOrder
  <2> QED BY <1>2, <2>1, <2>2
<1>7. ASSUME NEW v \in e..(Len(c) - 1) PROVE \E k \in 1..m : Framed(q[k], lt) /\ Ver(q[k]) = v
  <2>1. PICK k \in 1..n : Framed(p[k], lt) /\ Ver(p[k]) = v
    BY <1>1, <1>7 DEF LineOK
  <2> QED BY <1>3, <2>1
<1> QED BY <1>1, <1>5, <1>6, <1>7 DEF LineOK

\* An answer may be put in front of the frames it does not contain.
LEMMA LineWith ==
  ASSUME NEW p, NEW q, NEW n, NEW x, With(q, p, n, x), NEW lt, NEW c, NEW e, LineOK(p, lt, c, e),
         x.reader # {}, Answers(x, lt) => SnapOf(x.page.live, c),
         \A k \in n..Len(p) : Answers(x, lt) /\ Framed(p[k], lt) => Ver(x) <= Ver(p[k])
  PROVE  LineOK(q, lt, c, e)
<1>1. PICK m \in Nat : m = Len(p) /\ Len(q) = m + 1 /\ n \in 1..(m + 1)
  BY DEF With
<1>2. q[n] = x /\ ~Framed(x, lt) /\ ~Marks(x, lt) /\ ~Blank(x, lt)
  BY DEF With, Framed, Marks, Blank
<1>3. \A k \in 1..(n - 1) : k \in 1..m /\ q[k] = p[k]
  BY <1>1 DEF With
<1>4. \A k \in (n + 1)..(m + 1) : k - 1 \in 1..m /\ k - 1 \in n..m /\ q[k] = p[k - 1]
  BY <1>1 DEF With
<1>5. \A k \in 1..(m + 1) : k \in 1..(n - 1) \/ k = n \/ k \in (n + 1)..(m + 1)
  BY <1>1
<1>6. ASSUME NEW k \in 1..(m + 1) PROVE ItemOK(q[k], lt, c, e)
  <2>1. CASE k = n
    BY <1>2, <2>1 DEF ItemOK
  <2>2. CASE k \in 1..(n - 1)
    BY <1>1, <1>3, <2>2 DEF LineOK
  <2>3. CASE k \in (n + 1)..(m + 1)
    BY <1>1, <1>4, <2>3 DEF LineOK
  <2> QED BY <1>5, <2>1, <2>2, <2>3
<1>7. ASSUME NEW j \in 1..(m + 1), NEW k \in 1..(m + 1), j < k PROVE InOrder(q[j], q[k], lt)
  <2>1. CASE k = n
    BY <1>2, <2>1 DEF InOrder
  <2>2. CASE j = n
    <3>1. k \in (n + 1)..(m + 1)
      BY <1>1, <1>7, <2>2
    <3>2. Answers(x, lt) /\ Framed(q[k], lt) => Ver(x) <= Ver(q[k])
      BY <1>1, <1>4, <3>1
    <3> QED BY <1>2, <2>2, <3>2 DEF InOrder
  <2>3. CASE j \in 1..(n - 1) /\ k \in 1..(n - 1)
    BY <1>1, <1>3, <1>7, <2>3 DEF LineOK
  <2>4. CASE j \in 1..(n - 1) /\ k \in (n + 1)..(m + 1)
    <3>1. j < k - 1
      BY <1>1, <2>4
    <3> QED BY <1>1, <1>3, <1>4, <2>4, <3>1 DEF LineOK
  <2>5. CASE j \in (n + 1)..(m + 1) /\ k \in (n + 1)..(m + 1)
    <3>1. j - 1 < k - 1
      BY <1>1, <1>7, <2>5
    <3> QED BY <1>1, <1>4, <2>5, <3>1 DEF LineOK
  <2>6. ~(j \in (n + 1)..(m + 1) /\ k \in 1..(n - 1))
    BY <1>1, <1>7
  <2> QED BY <1>5, <2>1, <2>2, <2>3, <2>4, <2>5, <2>6
<1>8. ASSUME NEW v \in e..(Len(c) - 1) PROVE \E k \in 1..(m + 1) : Framed(q[k], lt) /\ Ver(q[k]) = v
  <2>1. PICK i \in 1..m : Framed(p[i], lt) /\ Ver(p[i]) = v
    BY <1>1, <1>8 DEF LineOK
  <2>2. CASE i \in 1..(n - 1)
    BY <1>1, <1>3, <2>1, <2>2
  <2>3. CASE ~(i \in 1..(n - 1))
    <3>1. i + 1 \in (n + 1)..(m + 1) /\ i + 1 \in 1..(m + 1) /\ (i + 1) - 1 = i
      BY <1>1, <2>1, <2>3
    <3>2. q[i + 1] = p[i]
      BY <1>4, <3>1
    <3> QED BY <2>1, <3>1, <3>2
  <2> QED BY <2>2, <2>3
<1> QED BY <1>1, <1>6, <1>7, <1>8 DEF LineOK

\* d adds the contents u to c.
Adds(d, c, u) ==
  /\ Len(c) \in Nat /\ Len(d) = Len(c) + 1 /\ d[Len(c) + 1] = u
  /\ \A k \in 1..Len(c) : d[k] = c[k]

LEMMA AppendAdds ==
  ASSUME NEW c, Contents(c), NEW u \in Seq(Texts), u # <<>>, Len(u) <= MaxNodes, Len(Closing(c)) <= Len(u)
  PROVE  Contents(Append(c, u)) /\ Adds(Append(c, u), c, u) /\ Append(c, u) # <<>>
<1>1. PICK n \in Nat, d \in Seq(Seq(Texts)) : n = Len(c) /\ d = Append(c, u)
  BY AppendProperties, LenProperties DEF Contents
<1>2. /\ Len(d) = n + 1 /\ d # <<>> /\ d[n + 1] = u
      /\ \A k \in 1..n : d[k] = c[k]
  BY <1>1, AppendProperties DEF Contents
<1>3. \A k \in 1..(n + 1) : k \in 1..n \/ k = n + 1
  OBVIOUS
<1>4. ASSUME NEW k \in 1..(n + 1) PROVE d[k] # <<>> /\ Len(d[k]) <= MaxNodes
  BY <1>1, <1>2, <1>3, <1>4 DEF Contents
<1>5. \A k \in 1..n : Len(c[k]) <= Len(u)
  <2> TAKE k \in 1..n
  <2>1. n \in 1..n /\ k <= n /\ c # <<>>
    BY <1>1, EmptySeq
  <2>2. Len(c[k]) <= Len(c[n]) /\ Closing(c) = c[n]
    BY <1>1, <2>1 DEF Contents, Closing
  <2>3. Len(c[k]) \in Nat /\ Len(c[n]) \in Nat /\ Len(u) \in Nat
    BY <1>1, <2>1, ContentIs, LenProperties
  <2> QED BY <2>2, <2>3
<1>6. ASSUME NEW i \in 1..(n + 1), NEW j \in 1..(n + 1), i <= j PROVE Len(d[i]) <= Len(d[j])
  <2>1. CASE j \in 1..n
    <3>1. i \in 1..n
      BY <1>6, <2>1
    <3> QED BY <1>1, <1>2, <1>6, <2>1, <3>1 DEF Contents
  <2>2. CASE j = n + 1 /\ i \in 1..n
    BY <1>2, <1>5, <2>2
  <2>3. CASE j = n + 1 /\ i = n + 1
    BY <1>2, <2>3, LenProperties
  <2> QED BY <1>3, <1>6, <2>1, <2>2, <2>3
<1>7. Contents(d)
  BY <1>1, <1>2, <1>4, <1>6 DEF Contents
<1>8. Adds(d, c, u)
  BY <1>1, <1>2 DEF Adds
<1> QED BY <1>1, <1>2, <1>7, <1>8

\* The snapshots of c are snapshots of the contents it grows to.
LEMMA SnapAdds ==
  ASSUME NEW c, NEW d, NEW u, Adds(d, c, u), NEW f, SnapOf(f, c)
  PROVE  SnapOf(f, d)
<1>1. PICK n \in Nat : n = Len(c) /\ Len(d) = n + 1 /\ \A k \in 1..n : d[k] = c[k]
  BY DEF Adds
<1>2. f.v \in 0..(n - 1) /\ f.nodes = [i \in 1..Len(c[f.v + 1]) |-> FullSet(i, c[f.v + 1][i])]
  BY <1>1 DEF SnapOf
<1>3. f.v \in 0..((n + 1) - 1) /\ f.v + 1 \in 1..n
  BY <1>2
<1>4. d[f.v + 1] = c[f.v + 1]
  BY <1>1, <1>3
<1> QED BY <1>1, <1>2, <1>3, <1>4 DEF SnapOf

\* The frame of the next version goes behind the line of an open unit.
LEMMA LineFramed ==
  ASSUME NEW p, NEW q, Continues(q, p), Len(q) = Len(p) + 1,
         NEW lt, NEW c, NEW d, NEW u, Contents(c), Adds(d, c, u), NEW e \in 0..Len(c), LineOK(p, lt, c, e),
         Framed(q[Len(q)], lt), Ver(q[Len(q)]) = Len(c), Makes(q[Len(q)].page.live.nodes, Closing(c), u),
         ~Marks(q[Len(q)], lt),
         \A k \in 1..Len(p) : ~Marks(p[k], lt) /\ ~Blank(p[k], lt)
  PROVE  LineOK(q, lt, d, e)
<1>1. PICK m \in Nat, n \in Nat : m = Len(p) /\ n = Len(c)
  BY DEF Continues, Adds
<1>2. Len(q) = m + 1 /\ \A k \in 1..m : q[k] = p[k]
  BY <1>1 DEF Continues
<1>3. Len(d) = n + 1 /\ d[n + 1] = u /\ \A k \in 1..n : d[k] = c[k]
  BY <1>1 DEF Adds
<1>4. PICK x : x = q[m + 1]
  OBVIOUS
<1>5. Framed(x, lt) /\ Ver(x) = n /\ Makes(x.page.live.nodes, Closing(c), u)
  BY <1>1, <1>2, <1>4
<1>6. ~Answers(x, lt)
  BY <1>5 DEF Framed, Answers
<1>7. ~Marks(x, lt)
  BY <1>2, <1>4
<1>8. e \in Nat /\ e <= n /\ n \in e..((n + 1) - 1)
  BY <1>1
<1>9. \A v \in 0..(n - 1) : Old(d, v) = Old(c, v) /\ d[v + 1] = c[v + 1]
  <2> TAKE v \in 0..(n - 1)
  <2>1. v + 1 \in 1..n /\ (v # 0 => v \in 1..n)
    OBVIOUS
  <2> QED BY <1>3, <2>1 DEF Old
<1>10. Old(d, n) = Closing(c)
  <2>1. CASE n = 0
    <3>1. c = <<>>
      BY <1>1, <2>1, EmptySeq DEF Contents
    <3> QED BY <2>1, <3>1 DEF Old, Closing
  <2>2. CASE n # 0
    <3>1. c # <<>> /\ n \in 1..n
      BY <1>1, <2>2, EmptySeq
    <3> QED BY <1>1, <1>3, <2>2, <3>1 DEF Old, Closing
  <2> QED BY <2>1, <2>2
<1>11. \A k \in 1..(m + 1) : k \in 1..m \/ k = m + 1
  OBVIOUS
<1>12. ASSUME NEW k \in 1..m PROVE ItemOK(q[k], lt, d, e)
  <2>1. PICK y : y = p[k] /\ y = q[k]
    BY <1>2, <1>12
  <2>2. ItemOK(y, lt, c, e) /\ ~Marks(y, lt)
    BY <1>1, <1>12, <2>1 DEF LineOK
  <2>3. ASSUME Framed(y, lt)
        PROVE  Ver(y) \in e..((n + 1) - 1) /\ Makes(y.page.live.nodes, Old(d, Ver(y)), d[Ver(y) + 1])
    <3>1. Ver(y) \in e..(n - 1) /\ Makes(y.page.live.nodes, Old(c, Ver(y)), c[Ver(y) + 1])
      BY <1>1, <2>2, <2>3 DEF ItemOK
    <3>2. Ver(y) \in 0..(n - 1) /\ Ver(y) \in e..((n + 1) - 1)
      BY <1>8, <3>1
    <3> QED BY <1>9, <3>1, <3>2
  <2>4. Answers(y, lt) => SnapOf(y.page.live, d)
    BY <2>2, SnapAdds DEF ItemOK
  <2> QED BY <1>3, <2>1, <2>2, <2>3, <2>4 DEF ItemOK
<1>13. ItemOK(x, lt, d, e)
  BY <1>3, <1>5, <1>6, <1>7, <1>8, <1>10 DEF ItemOK
<1>14. ASSUME NEW j \in 1..(m + 1), NEW k \in 1..(m + 1), j < k PROVE InOrder(q[j], q[k], lt)
  <2>1. CASE k \in 1..m
    <3>1. j \in 1..m
      BY <1>14, <2>1
    <3> QED BY <1>1, <1>2, <1>14, <2>1, <3>1 DEF LineOK
  <2>2. CASE k = m + 1
    <3>1. j \in 1..m
      BY <1>14, <2>2
    <3>2. PICK y : y = p[j] /\ y = q[j]
      BY <1>2, <3>1
    <3>3. ItemOK(y, lt, c, e) /\ ~Marks(y, lt) /\ ~Blank(y, lt)
      BY <1>1, <3>1, <3>2 DEF LineOK
    <3>4. Framed(y, lt) => Ver(y) < n
      <4>1. Framed(y, lt) => Ver(y) \in e..(n - 1)
        BY <1>1, <3>3 DEF ItemOK
      <4> QED BY <1>8, <4>1
    <3>5. Answers(y, lt) => Ver(y) <= n
      <4>1. Answers(y, lt) => Ver(y) \in 0..(n - 1)
        BY <1>1, <3>3 DEF ItemOK, SnapOf, Ver
      <4> QED BY <4>1
    <3>6. InOrder(y, x, lt)
      BY <1>5, <3>3, <3>4, <3>5 DEF InOrder
    <3> QED BY <1>4, <2>2, <3>2, <3>6
  <2> QED BY <1>11, <1>14, <2>1, <2>2
<1>15. ASSUME NEW v \in e..((n + 1) - 1) PROVE \E k \in 1..(m + 1) : Framed(q[k], lt) /\ Ver(q[k]) = v
  <2>1. CASE v = n
    BY <1>4, <1>5, <2>1
  <2>2. CASE v # n
    <3>1. v \in e..(n - 1)
      BY <1>8, <1>15, <2>2
    <3>2. PICK k \in 1..m : Framed(p[k], lt) /\ Ver(p[k]) = v
      BY <1>1, <3>1 DEF LineOK
    <3>3. k \in 1..(m + 1) /\ q[k] = p[k]
      BY <1>2, <3>2
    <3> QED BY <3>2, <3>3
  <2> QED BY <2>1, <2>2
<1>16. \A k \in 1..(m + 1) : ItemOK(q[k], lt, d, e)
  BY <1>4, <1>11, <1>12, <1>13
<1> QED BY <1>2, <1>3, <1>14, <1>15, <1>16 DEF LineOK

\* The close marker goes behind the line of an open unit.
LEMMA LineMarked ==
  ASSUME NEW p, NEW q, Continues(q, p), Len(q) = Len(p) + 1,
         NEW lt, NEW c, NEW e, LineOK(p, lt, c, e),
         ~Framed(q[Len(q)], lt), ~Answers(q[Len(q)], lt),
         \A i \in 1..Len(q[Len(q)].page.committed) :
           q[Len(q)].page.committed[i].v = IF c = <<>> THEN 0 ELSE Len(c) - 1,
         \A k \in 1..Len(p) : ~Blank(p[k], lt)
  PROVE  LineOK(q, lt, c, e)
<1>1. PICK m \in Nat : m = Len(p)
  BY DEF Continues
<1>2. Len(q) = m + 1 /\ \A k \in 1..m : q[k] = p[k]
  BY <1>1 DEF Continues
<1>3. PICK x : x = q[m + 1]
  OBVIOUS
<1>4. ItemOK(x, lt, c, e) /\ ~Framed(x, lt)
  BY <1>1, <1>2, <1>3 DEF ItemOK
<1>5. \A k \in 1..(m + 1) : k \in 1..m \/ k = m + 1
  OBVIOUS
<1>6. \A k \in 1..(m + 1) : ItemOK(q[k], lt, c, e)
  BY <1>1, <1>2, <1>3, <1>4, <1>5 DEF LineOK
<1>7. ASSUME NEW j \in 1..(m + 1), NEW k \in 1..(m + 1), j < k PROVE InOrder(q[j], q[k], lt)
  <2>1. CASE k \in 1..m
    <3>1. j \in 1..m
      BY <1>7, <2>1
    <3> QED BY <1>1, <1>2, <1>7, <2>1, <3>1 DEF LineOK
  <2>2. CASE k = m + 1
    <3>1. j \in 1..m
      BY <1>7, <2>2
    <3>2. ~Blank(q[j], lt)
      BY <1>1, <1>2, <3>1
    <3> QED BY <1>3, <1>4, <2>2, <3>2 DEF InOrder
  <2> QED BY <1>5, <1>7, <2>1, <2>2
<1>8. ASSUME NEW v \in e..(Len(c) - 1) PROVE \E k \in 1..(m + 1) : Framed(q[k], lt) /\ Ver(q[k]) = v
  <2>1. PICK k \in 1..m : Framed(p[k], lt) /\ Ver(p[k]) = v
    BY <1>1, <1>8 DEF LineOK
  <2>2. k \in 1..(m + 1) /\ q[k] = p[k]
    BY <1>2, <2>1
  <2> QED BY <2>1, <2>2
<1> QED BY <1>2, <1>6, <1>7, <1>8 DEF LineOK

\* A frame at the head of the line is the next version; behind it the line is
\* that of the versions that follow.
LEMMA LineHead ==
  ASSUME NEW q, NEW t, Len(q) \in Nat \ {0}, Len(t) = Len(q) - 1, \A k \in 1..Len(t) : t[k] = q[k + 1],
         NEW lt, NEW c, Len(c) \in Nat, NEW e \in 0..Len(c), LineOK(q, lt, c, e), Framed(q[1], lt)
  PROVE  /\ Ver(q[1]) = e /\ e < Len(c)
         /\ LineOK(t, lt, c, e + 1)
<1>1. PICK m \in Nat, n \in Nat : m = Len(t) /\ Len(q) = m + 1 /\ n = Len(c)
  OBVIOUS
<1>2. \A k \in 1..m : t[k] = q[k + 1] /\ k + 1 \in 1..(m + 1) /\ 1 < k + 1
  BY <1>1
<1>3. 1 \in 1..(m + 1)
  BY <1>1
<1>4. Ver(q[1]) \in e..(n - 1)
  BY <1>1, <1>3 DEF LineOK, ItemOK
<1>5. e \in Nat /\ e \in e..(n - 1)
  BY <1>1, <1>4
<1>6. \A k \in 1..m : Framed(t[k], lt) => Ver(q[1]) < Ver(t[k])
  BY <1>1, <1>2, <1>3 DEF LineOK, InOrder
<1>7. Ver(q[1]) = e
  <2>1. PICK k \in 1..(m + 1) : Framed(q[k], lt) /\ Ver(q[k]) = e
    BY <1>1, <1>5 DEF LineOK
  <2>2. CASE k = 1
    BY <2>1, <2>2
  <2>3. CASE k # 1
    <3>1. k - 1 \in 1..m /\ (k - 1) + 1 = k
      BY <2>1, <2>3
    <3>2. Ver(q[1]) < e
      BY <1>2, <1>6, <2>1, <3>1
    <3> QED BY <1>4, <1>5, <3>2
  <2> QED BY <2>2, <2>3
<1>8. ASSUME NEW k \in 1..m PROVE ItemOK(t[k], lt, c, e + 1)
  <2>1. ItemOK(t[k], lt, c, e)
    BY <1>1, <1>2, <1>8 DEF LineOK
  <2>2. ASSUME Framed(t[k], lt) PROVE Ver(t[k]) \in (e + 1)..(n - 1)
    <3>1. Ver(t[k]) \in e..(n - 1)
      BY <1>1, <2>1, <2>2 DEF ItemOK
    <3>2. e < Ver(t[k])
      BY <1>6, <1>7, <1>8, <2>2
    <3> QED BY <1>5, <3>1, <3>2
  <2> QED BY <1>1, <2>1, <2>2 DEF ItemOK
<1>9. ASSUME NEW j \in 1..m, NEW k \in 1..m, j < k PROVE InOrder(t[j], t[k], lt)
  <2>1. j + 1 < k + 1
    BY <1>9
  <2> QED BY <1>1, <1>2, <1>9, <2>1 DEF LineOK
<1>10. ASSUME NEW v \in (e + 1)..(n - 1) PROVE \E k \in 1..m : Framed(t[k], lt) /\ Ver(t[k]) = v
  <2>1. v \in e..(n - 1) /\ v # e
    BY <1>5, <1>10
  <2>2. PICK k \in 1..(m + 1) : Framed(q[k], lt) /\ Ver(q[k]) = v
    BY <1>1, <2>1 DEF LineOK
  <2>3. k # 1
    BY <1>7, <2>1, <2>2
  <2>4. k - 1 \in 1..m /\ (k - 1) + 1 = k
    BY <2>2, <2>3
  <2>5. t[k - 1] = q[k]
    BY <1>2, <2>4
  <2> QED BY <2>2, <2>4, <2>5
<1> QED BY <1>1, <1>5, <1>7, <1>8, <1>9, <1>10 DEF LineOK

\* The copy of an open unit is not disturbed when its contents grow.
LEMMA CopyAdds ==
  ASSUME NEW w \in View, NEW c, NEW d, NEW u, Contents(c), Contents(d), Adds(d, c, u), NEW e \in 0..Len(c),
         c = <<>> => w.order = <<>> /\ w.block = NoBlocks,
         c # <<>> => CopyOK(w, c, e)
  PROVE  CopyOK(w, d, e)
<1>1. PICK n \in Nat : n = Len(c) /\ Len(d) = n + 1 /\ d[n + 1] = u /\ \A k \in 1..n : d[k] = c[k]
  BY DEF Adds
<1>2. PICK m \in Nat : m = Len(w.order)
  BY LenProperties DEF View
<1>3. e \in 0..n /\ e < n + 1 /\ e + 1 \in 1..(n + 1) /\ e \in Nat
  BY <1>1
<1>4. PICK T \in Nat : T = Len(d[e + 1])
  BY <1>1, <1>3, ContentIs
<1>5. (IF e < Len(d) THEN e + 1 ELSE e) = e + 1
  BY <1>1, <1>3
<1>6. w.v \in Nat
  BY DEF View
<1>7. CASE c = <<>>
  <2>1. n = 0 /\ e = 0 /\ m = 0
    BY <1>1, <1>2, <1>3, <1>7, EmptyText
  <2>2. Old(d, e) = <<>>
    BY <2>1 DEF Old
  <2>3. \A i \in 1..MaxNodes : w.block[i] = <<>>
    BY <1>7, NoBlocksType
  <2>4. NodesOK(w, d, e)
    <3>1. \A i \in 1..m : FALSE
      BY <2>1
    <3>2. m <= T
      BY <2>1
    <3> QED BY <1>2, <1>4, <1>5, <2>3, <3>1, <3>2 DEF NodesOK
  <2>5. w.v + 1 # e
    BY <1>6, <2>1
  <2> QED BY <2>4, <2>5 DEF CopyOK
<1>8. CASE c # <<>>
  <2>1. NodesOK(w, c, e)
    BY <1>8 DEF CopyOK
  <2>2. Old(d, e) = Old(c, e)
    <3>1. e # 0 => e \in 1..n
      BY <1>3
    <3> QED BY <1>1, <3>1 DEF Old
  <2>3. (\A i \in 1..m : w.order[i] = i) /\ \A i \in 1..MaxNodes : i > m => w.block[i] = <<>>
    BY <1>2, <2>1 DEF NodesOK
  <2>4. m <= T /\ \A i \in 1..m : i > Len(Old(c, e)) => w.block[i] = d[e + 1][i]
    <3>1. CASE e < n
      <4>1. e + 1 \in 1..n
        BY <1>3, <3>1
      <4>2. d[e + 1] = c[e + 1]
        BY <1>1, <4>1
      <4> QED BY <1>1, <1>2, <1>4, <2>1, <3>1, <4>2 DEF NodesOK
    <3>2. CASE ~(e < n)
      <4>1. e = n /\ n # 0
        BY <1>1, <1>3, <1>8, <3>2, EmptySeq DEF Contents
      <4>2. n \in 1..n /\ n \in 1..(n + 1) /\ n + 1 \in 1..(n + 1)
        BY <4>1
      <4>3. Old(c, e) = c[n] /\ (IF e < Len(c) THEN e + 1 ELSE e) = n
        BY <1>1, <3>2, <4>1 DEF Old
      <4>4. m <= Len(c[n])
        BY <1>2, <2>1, <4>3 DEF NodesOK
      <4>5. PICK k \in Nat : k = Len(c[n])
        BY <1>1, <4>2, ContentIs
      <4>6. k <= T
        <5>1. Len(d[n]) <= Len(d[n + 1])
          BY <1>1, <4>2 DEF Contents
        <5> QED BY <1>1, <1>4, <4>1, <4>2, <4>5, <5>1
      <4>7. m <= T
        BY <4>4, <4>5, <4>6
      <4>8. \A i \in 1..m : ~(i > k)
        BY <4>4, <4>5
      <4> QED BY <4>3, <4>5, <4>7, <4>8
    <3> QED BY <3>1, <3>2
  <2>5. NodesOK(w, d, e)
    BY <1>2, <1>4, <1>5, <2>2, <2>3, <2>4 DEF NodesOK
  <2> QED BY <1>8, <2>2, <2>5 DEF CopyOK
<1> QED BY <1>7, <1>8

-----------------------------------------------------------------------------
(* The actions of the server *)

\* What is said of a unit depends on these.
LEMMA UnitIs ==
  ASSUME NEW lt, NEW c, NEW e,
         lt \notin Range(opened)' => c = <<>>, Contents(c), e \in 0..Len(c),
         NEW q, q = Line', LineOK(q, lt, c, e), ServerOK(open', published', q, lt, c),
         ReadsOK(reads', pending', lt, c, e), ViewOK(view', Alive(open', q, lt), lt, c, e)
  PROVE  UnitOK(lt, c, e)'
BY DEF UnitOK

\* A unit that the server does not touch: the line may grow by items that say
\* nothing of it.
LEMMA ServerLonger ==
  ASSUME NEW p, NEW q, Continues(q, p), NEW lt, NEW c, \A k \in (Len(p) + 1)..Len(q) : Inert(q[k], lt),
         NEW o, NEW o2, NEW pub, NEW pub2, ServerOK(o, pub, p, lt, c),
         pub \subseteq pub2, [lt |-> lt, nodes |-> <<>>] \in pub2 => [lt |-> lt, nodes |-> <<>>] \in pub,
         o2.lt = lt => o2 = o,
         \A k \in (Len(p) + 1)..Len(q) : Blank(q[k], lt) => o2.lt # lt
  PROVE  ServerOK(o2, pub2, q, lt, c) /\ (Alive(o2, q, lt) => Alive(o, p, lt))
<1>1. PICK n \in Nat, m \in Nat : n = Len(p) /\ m = Len(q) /\ n <= m
  BY DEF Continues
<1>2. \A k \in 1..m : k \in 1..n \/ k \in (n + 1)..m
  BY <1>1
<1>3. \A k \in 1..n : q[k] = p[k]
  BY <1>1 DEF Continues
<1>4. (\E k \in 1..m : Marks(q[k], lt)) => \E k \in 1..n : Marks(p[k], lt)
  BY <1>1, <1>2, <1>3 DEF Inert
<1>5. (\E k \in 1..m : Blank(q[k], lt)) => o2.lt # lt
  BY <1>1, <1>2, <1>3 DEF ServerOK
<1>6. (\E k \in 1..n : Marks(p[k], lt)) => o2.lt # lt /\ [lt |-> lt, nodes |-> Closing(c)] \in pub2
  BY <1>1 DEF ServerOK
<1>7. ServerOK(o2, pub2, q, lt, c)
  BY <1>1, <1>4, <1>5, <1>6 DEF ServerOK
<1>8. Alive(o2, q, lt) => Alive(o, p, lt)
  BY <1>1, <1>4 DEF Alive
<1> QED BY <1>7, <1>8

\* What the drain loop computes goes behind everything else.
LEMMA LineGrows ==
  ASSUME NEW w \in Seq(Item), NEW p \in Seq(GoodPage)
  PROVE  /\ Continues(LineOf(w, p), LineOf(w, <<>>)) /\ Len(LineOf(w, <<>>)) = Len(w)
         /\ Len(LineOf(w, p)) = Len(w) + Len(p)
         /\ \A k \in (Len(w) + 1)..(Len(w) + Len(p)) :
              k - Len(w) \in 1..Len(p) /\ LineOf(w, p)[k] = [reader |-> {}, page |-> p[k - Len(w)]]
<1>1. PICK n \in Nat, m \in Nat : n = Len(w) /\ m = Len(p)
  BY LenProperties
<1>2. PICK z \in Seq(GoodPage) : z = <<>> /\ Len(z) = 0
  BY EmptySeq
<1>3. Len(LineOf(w, z)) = n + Len(z) /\ \A k \in 1..n : LineOf(w, z)[k] = w[k]
  BY <1>1, LineIs
<1>4. /\ Len(LineOf(w, p)) = n + m
      /\ \A k \in 1..n : LineOf(w, p)[k] = w[k]
      /\ \A k \in 1..m : LineOf(w, p)[n + k] = [reader |-> {}, page |-> p[k]]
  BY <1>1, LineIs
<1>5. Len(LineOf(w, <<>>)) = n
  BY <1>2, <1>3
<1>6. Continues(LineOf(w, p), LineOf(w, <<>>))
  BY <1>1, <1>2, <1>3, <1>4, <1>5 DEF Continues
<1>7. ASSUME NEW k \in (n + 1)..(n + m) PROVE k - n \in 1..m /\ LineOf(w, p)[k] = [reader |-> {}, page |-> p[k - n]]
  <2>1. k - n \in 1..m /\ n + (k - n) = k
    BY <1>7
  <2> QED BY <1>4, <2>1
<1> QED BY <1>1, <1>4, <1>5, <1>6, <1>7

Push(p) == [reader |-> {}, page |-> p]

\* A unit the server does not change.
LEMMA ServerElsewhere ==
  ASSUME Types, Types', NEW lt \in LTs \ {0}, NEW c, NEW e, UnitOK(lt, c, e),
         pending = <<>>, UNCHANGED <<wire, view, reads>>, Range(opened) \subseteq Range(opened'),
         published \subseteq published',
         [lt |-> lt, nodes |-> <<>>] \in published' => [lt |-> lt, nodes |-> <<>>] \in published,
         open'.lt = lt => open' = open,
         \A k \in 1..Len(pending') : Inert(Push(pending'[k]), lt) /\ (Blank(Push(pending'[k]), lt) => open'.lt # lt)
  PROVE  UnitOK(lt, c, e)'
<1>1. wire \in Seq(Item) /\ pending' \in Seq(GoodPage)
  BY DEF Types, ChannelTypes
<1>2. PICK p, q : p = Line /\ q = Line'
  OBVIOUS
<1>3. PICK n : n = Len(wire)
  OBVIOUS
<1>4. /\ Continues(q, p) /\ Len(p) = n /\ Len(q) = n + Len(pending')
      /\ \A k \in (n + 1)..(n + Len(pending')) : k - n \in 1..Len(pending') /\ q[k] = [reader |-> {}, page |-> pending'[k - n]]
  BY <1>1, <1>2, <1>3, LineGrows DEF Line
<1>5. /\ lt \notin Range(opened) => c = <<>> 
      /\ Contents(c) /\ e \in 0..Len(c)
      /\ LineOK(p, lt, c, e) /\ ServerOK(open, published, p, lt, c)
      /\ ReadsOK(reads, pending, lt, c, e) /\ ViewOK(view, Alive(open, p, lt), lt, c, e)
  BY <1>2 DEF UnitOK
<1>6. \A k \in (Len(p) + 1)..Len(q) : Inert(q[k], lt) /\ (Blank(q[k], lt) => open'.lt # lt)
  BY <1>4 DEF Push
<1>7. LineOK(q, lt, c, e)
  BY <1>4, <1>5, <1>6, LineLonger
<1>8. ServerOK(open', published', q, lt, c) /\ (Alive(open', q, lt) => Alive(open, p, lt))
  <2>1. /\ Continues(q, p) /\ ServerOK(open, published, p, lt, c)
        /\ \A k \in (Len(p) + 1)..Len(q) : Inert(q[k], lt)
        /\ \A k \in (Len(p) + 1)..Len(q) : Blank(q[k], lt) => open'.lt # lt
    BY <1>4, <1>5, <1>6
  <2> QED BY <2>1, ServerLonger, SMTT(30)
<1>9. ViewOK(view', Alive(open', q, lt), lt, c, e)
  BY <1>5, <1>8 DEF ViewOK
<1>10. ReadsOK(reads', pending', lt, c, e)
  <2>1. \A k \in 1..Len(pending') : ~(pending'[k].live.lt = lt /\ pending'[k].live.nodes # <<>>)
    BY DEF Inert, Framed, Push
  <2> QED BY <1>5, <2>1 DEF ReadsOK
<1>11. lt \notin Range(opened') => c = <<>>
  BY <1>5
<1> QED BY <1>2, <1>5, <1>7, <1>8, <1>9, <1>10, <1>11, UnitIs

LEMMA OpenedGrows ==
  ASSUME NEW S, NEW s \in Seq(S), NEW x \in S
  PROVE  Range(Append(s, x)) = Range(s) \cup {x}
<1>1. PICK n \in Nat, t \in Seq(S) : n = Len(s) /\ t = Append(s, x)
  BY AppendProperties, LenProperties
<1>2. Len(t) = n + 1 /\ t[n + 1] = x /\ \A i \in 1..n : t[i] = s[i]
  BY <1>1, AppendProperties
<1>3. DOMAIN t = 1..(n + 1) /\ DOMAIN s = 1..n
  BY <1>1, <1>2, LenProperties
<1>4. 1..(n + 1) = (1..n) \cup {n + 1}
  BY <1>1
<1>5. Range(t) = Range(s) \cup {x}
  BY <1>2, <1>3, <1>4 DEF Range
<1> QED BY <1>1, <1>5

LEMMA OpenUnits ==
  ASSUME Types, Types', Copies, Open, NEW lt \in LTs \ {0}, lt \notin broken', NEW c, NEW e, UnitOK(lt, c, e)
  PROVE  \E d, f : UnitOK(lt, d, f)'
<1>1. /\ pending = <<>> /\ UNCHANGED <<wire, view, reads>> /\ published' = published /\ pending' = pending
      /\ unitLT' = unitLT + 1 /\ open' = [NoOpen EXCEPT !.lt = unitLT + 1] /\ opened' = Append(opened, unitLT')
      /\ broken' = IF unitLT' \in Range(opened) THEN broken \cup {unitLT'} ELSE broken
  BY DEF Open
<1>2. unitLT' \in LTs /\ opened \in Seq(LTs)
  BY DEF Types, ServerTypes
<1>3. Range(opened) \subseteq Range(opened')
  BY <1>1, <1>2, OpenedGrows
<1>4. open'.lt = unitLT' /\ open'.ver = 0 /\ open'.nodes = <<>>
  BY <1>1 DEF NoOpen
<1>5. \A k \in 1..Len(pending') : FALSE
  BY <1>1, EmptyText
<1>6. CASE lt # unitLT'
  <2>1. UnitOK(lt, c, e)'
    BY <1>1, <1>3, <1>4, <1>5, <1>6, ServerElsewhere
  <2> QED BY <2>1
<1>7. CASE lt = unitLT'
  <2>1. lt \notin Range(opened)
    BY <1>1, <1>7
  <2>2. PICK q : q = Line /\ q = Line'
    BY <1>1 DEF Line
  <2>3. /\ \A k \in 1..Len(q) : ~Marks(q[k], lt) /\ ~Blank(q[k], lt)
        /\ [lt |-> lt, nodes |-> <<>>] \notin published
    BY <2>1, <2>2 DEF Copies, InPlay
  <2>4. /\ c = <<>> /\ Contents(c) /\ e \in 0..Len(c) /\ LineOK(q, lt, c, e)
        /\ ReadsOK(reads, pending, lt, c, e) /\ ViewOK(view, Alive(open, q, lt), lt, c, e)
    BY <2>1, <2>2 DEF UnitOK
  <2>5. ServerOK(open', published', q, lt, c)
    BY <1>1, <1>4, <2>3, <2>4, EmptyText DEF ServerOK, Closing
  <2>6. ViewOK(view', Alive(open', q, lt), lt, c, e)
    BY <1>1, <2>4 DEF ViewOK
  <2>7. UnitOK(lt, c, e)'
    BY <1>1, <2>2, <2>4, <2>5, <2>6, UnitIs
  <2> QED BY <2>7
<1> QED BY <1>6, <1>7

LEMMA UpdateUnits ==
  ASSUME Types, Types', Copies, NEW news \in NodeLists, Update(news), NEW lt \in LTs \ {0}, lt \notin broken',
         NEW c, NEW e, UnitOK(lt, c, e)
  PROVE  \E d, f : UnitOK(lt, d, f)'
<1>1. PICK olds, u : olds = open.nodes /\ u = news \o SubSeq(olds, Len(news) + 1, Len(olds))
  OBVIOUS
<1>2. PICK L : L = [lt |-> open.lt, v |-> open.ver, nodes |-> Deltas(olds, news)]
  OBVIOUS
<1>3. /\ pending = <<>> /\ open.lt # 0 /\ Deltas(olds, news) # <<>>
      /\ open' = [open EXCEPT !.nodes = u, !.ver = @ + 1]
      /\ pending' = <<Frame(<<>>, L)>>
      /\ UNCHANGED <<wire, view, reads, published, opened>>
  BY <1>1, <1>2 DEF Update
<1>4. /\ open \in [lt : LTs, nodes : Seq(Texts), ver : Nat] /\ olds \in Seq(Texts) /\ Len(olds) <= MaxNodes
      /\ pending' \in Seq(GoodPage) /\ wire \in Seq(Item) /\ view \in View
  BY <1>1 DEF Types, ServerTypes, ChannelTypes, ClientTypes
<1>5. open'.lt = open.lt /\ open'.nodes = u /\ open'.ver = open.ver + 1
  BY <1>3, <1>4
<1>6. Len(pending') = 1 /\ pending'[1] = Frame(<<>>, L)
  BY <1>3
<1>7. PICK x : x = Push(Frame(<<>>, L))
  OBVIOUS
<1>8. /\ x.reader = {} /\ x.page.live = L /\ x.page.committed = <<>>
      /\ L.lt = open.lt /\ L.v = open.ver /\ L.nodes = Deltas(olds, news)
  BY <1>2, <1>7 DEF Push, Frame
<1>9. ~Marks(x, lt) /\ ~Answers(x, lt)
  BY <1>8, EmptyText DEF Marks, Answers
<1>10. CASE lt # open.lt
  <2>1. Inert(x, lt) /\ ~Blank(x, lt)
    BY <1>8, <1>9, <1>10 DEF Inert, Framed, Blank
  <2>2. \A k \in 1..Len(pending') : pending'[k] = Frame(<<>>, L)
    BY <1>6
  <2>3. UnitOK(lt, c, e)'
    BY <1>3, <1>5, <1>7, <1>10, <2>1, <2>2, ServerElsewhere
  <2> QED BY <2>3
<1>11. CASE lt = open.lt
  <2>1. PICK p, q : p = Line /\ q = Line'
    OBVIOUS
  <2>2. /\ Continues(q, p) /\ Len(p) = Len(wire) /\ Len(q) = Len(wire) + 1
        /\ \A k \in (Len(wire) + 1)..(Len(wire) + 1) : q[k] = [reader |-> {}, page |-> pending'[k - Len(wire)]] /\ k - Len(wire) \in 1..1
    BY <1>3, <1>4, <1>6, <2>1, LineGrows DEF Line
  <2>3. Len(q) = Len(p) + 1 /\ q[Len(q)] = x
    <3>1. PICK n \in Nat : n = Len(wire)
      BY <1>4, LenProperties
    <3>2. n + 1 \in (n + 1)..(n + 1) /\ (n + 1) - n = 1
      BY <3>1
    <3> QED BY <1>6, <1>7, <2>2, <3>1, <3>2 DEF Push
  <2>4. /\ lt \notin Range(opened) => c = <<>> 
        /\ Contents(c) /\ e \in 0..Len(c)
        /\ LineOK(p, lt, c, e) /\ ServerOK(open, published, p, lt, c)
        /\ ReadsOK(reads, pending, lt, c, e) /\ ViewOK(view, Alive(open, p, lt), lt, c, e)
    BY <2>1 DEF UnitOK
  <2>5. /\ Len(c) = open.ver /\ Closing(c) = olds /\ [lt |-> lt, nodes |-> <<>>] \notin published
        /\ \A k \in 1..Len(p) : ~Marks(p[k], lt) /\ ~Blank(p[k], lt)
    BY <1>1, <1>11, <2>4 DEF ServerOK
  <2>6. /\ u \in Seq(Texts) /\ u # <<>> /\ Len(u) <= MaxNodes
        /\ Len(u) = IF Len(news) < Len(olds) THEN Len(olds) ELSE Len(news)
        /\ \A i \in 1..Len(u) : u[i] = IF i <= Len(news) THEN news[i] ELSE olds[i]
    BY <1>1, <1>4, UpdatedNodes
  <2>7. Len(olds) <= Len(u)
    <3>1. Len(olds) \in Nat /\ Len(news) \in Nat
      BY <1>4, NodeListIs, LenProperties
    <3> QED BY <2>6, <3>1
  <2>8. PICK d : d = Append(c, u) /\ Contents(d) /\ Adds(d, c, u) /\ d # <<>>
    BY <2>4, <2>5, <2>6, <2>7, AppendAdds
  <2>9. Makes(Deltas(olds, news), olds, u)
    BY <1>4, <2>6, DeltasMake
  <2>10. Framed(x, lt) /\ Ver(x) = Len(c)
    BY <1>3, <1>8, <1>11, <2>5 DEF Framed, Ver
  <2>11. LineOK(q, lt, d, e)
    <3>1. /\ Continues(q, p) /\ Len(q) = Len(p) + 1 /\ Contents(c) /\ Adds(d, c, u) /\ e \in 0..Len(c) /\ LineOK(p, lt, c, e)
          /\ \A k \in 1..Len(p) : ~Marks(p[k], lt) /\ ~Blank(p[k], lt)
      BY <2>2, <2>3, <2>4, <2>5, <2>8
    <3>2. /\ Framed(q[Len(q)], lt) /\ Ver(q[Len(q)]) = Len(c) /\ ~Marks(q[Len(q)], lt)
          /\ Makes(q[Len(q)].page.live.nodes, Closing(c), u)
      BY <1>8, <1>9, <2>3, <2>5, <2>9, <2>10
    <3> QED BY <3>1, <3>2, LineFramed, SMTT(30)
  <2>12. PICK n \in Nat : n = Len(c) /\ Len(d) = n + 1 /\ d[n + 1] = u
    BY <2>8 DEF Adds
  <2>13. \A k \in 1..Len(q) : ~Marks(q[k], lt) /\ ~Blank(q[k], lt)
    <3> TAKE k \in 1..Len(q)
    <3>1. k \in 1..Len(p) \/ k = Len(q)
      BY <2>2, <2>3 DEF Continues
    <3>2. ~Blank(x, lt)
      BY <2>10 DEF Framed, Blank
    <3>3. CASE k = Len(q)
      BY <1>9, <2>3, <3>2, <3>3
    <3>4. CASE k \in 1..Len(p)
      BY <2>2, <2>5, <3>4 DEF Continues
    <3> QED BY <3>1, <3>3, <3>4
  <2>14. ServerOK(open', published', q, lt, d)
    <3>1. Closing(d) = u
      BY <2>8, <2>12 DEF Closing
    <3> QED BY <1>3, <1>5, <2>5, <2>12, <2>13, <3>1 DEF ServerOK
  <2>15. ReadsOK(reads', pending', lt, d, e)
    <3> SUFFICES ASSUME NEW r \in Readers, reads[r].page.live.lt = lt
                 PROVE  /\ reads[r].stage \in {"served", "got"} => SnapOf(reads[r].page.live, d)
                        /\ reads[r].stage = "got" => reads[r].page.live.v <= e
                        /\ reads[r].stage = "served" =>
                             \A k \in 1..Len(pending') : reads[r].page.live.v <= pending'[k].live.v
      BY <1>3 DEF ReadsOK
    <3>1. /\ reads[r].stage \in {"served", "got"} => SnapOf(reads[r].page.live, c)
          /\ reads[r].stage = "got" => reads[r].page.live.v <= e
      BY <2>4 DEF ReadsOK
    <3>2. SnapOf(reads[r].page.live, c) => SnapOf(reads[r].page.live, d)
      BY <2>8, SnapAdds
    <3>3. SnapOf(reads[r].page.live, c) => reads[r].page.live.v <= n
      BY <2>12 DEF SnapOf
    <3>4. \A k \in 1..Len(pending') : pending'[k].live.v = n
      BY <1>6, <1>8, <2>5, <2>12 DEF Frame
    <3> QED BY <3>1, <3>2, <3>3, <3>4
  <2>16. ViewOK(view', Alive(open', q, lt), lt, d, e)
    <3>1. Alive(open, p, lt)
      BY <1>11 DEF Alive
    <3>2. view.lt = lt => CopyOK(view, d, e)
      BY <1>4, <2>4, <2>8, <3>1, CopyAdds DEF ViewOK
    <3> QED BY <1>3, <2>8, <3>2 DEF ViewOK
  <2>17. lt \in Range(opened')
    BY <1>3, <1>11 DEF Copies, InPlay
  <2>18. e \in 0..Len(d)
    BY <2>4, <2>12
  <2>19. UnitOK(lt, d, e)'
    BY <2>1, <2>8, <2>11, <2>14, <2>15, <2>16, <2>17, <2>18, UnitIs
  <2> QED BY <2>19
<1> QED BY <1>10, <1>11

LEMMA CloseUnits ==
  ASSUME Types, Types', Copies, Close, NEW lt \in LTs \ {0}, lt \notin broken', NEW c, NEW e, UnitOK(lt, c, e)
  PROVE  \E d, f : UnitOK(lt, d, f)'
<1>1. PICK m, K : m = [lt |-> open.lt, nodes |-> open.nodes] /\ K = Marker(open.lt, IF open.ver = 0 THEN 0 ELSE open.ver - 1)
  OBVIOUS
<1>2. /\ pending = <<>> /\ open.lt # 0 /\ open' = NoOpen /\ published' = published \cup {m}
      /\ pending' = <<Frame(<<K>>, NoLive)>> /\ UNCHANGED <<wire, view, reads, opened>>
  BY <1>1 DEF Close
<1>3. /\ open \in [lt : LTs, nodes : Seq(Texts), ver : Nat]
      /\ pending' \in Seq(GoodPage) /\ wire \in Seq(Item)
  BY DEF Types, ServerTypes, ChannelTypes
<1>4. open'.lt = 0
  BY <1>2 DEF NoOpen
<1>5. Len(pending') = 1 /\ pending'[1] = Frame(<<K>>, NoLive)
  BY <1>2
<1>6. PICK x : x = Push(Frame(<<K>>, NoLive))
  OBVIOUS
<1>7. /\ x.reader = {} /\ x.page.live = NoLive /\ x.page.committed = <<K>>
      /\ K.lt = open.lt /\ K.v = (IF open.ver = 0 THEN 0 ELSE open.ver - 1) /\ ~Full(K)
  BY <1>1, <1>6 DEF Push, Frame, Marker, Full
<1>8. Len(<<K>>) = 1 /\ \A i \in 1..1 : <<K>>[i] = K
  OBVIOUS
<1>9. ~Framed(x, lt) /\ ~Answers(x, lt) /\ ~Blank(x, lt)
  BY <1>7 DEF Framed, Answers, Blank, NoLive
<1>10. CASE lt # open.lt
  <2>1. Inert(x, lt) /\ ~Blank(x, lt)
    BY <1>7, <1>8, <1>9, <1>10 DEF Inert, Marks
  <2>2. \A k \in 1..Len(pending') : pending'[k] = Frame(<<K>>, NoLive)
    BY <1>5
  <2>3. [lt |-> lt, nodes |-> <<>>] # m
    BY <1>1, <1>10
  <2>4. UnitOK(lt, c, e)'
    BY <1>2, <1>4, <1>6, <2>1, <2>2, <2>3, ServerElsewhere
  <2> QED BY <2>4
<1>11. CASE lt = open.lt
  <2>1. PICK p, q : p = Line /\ q = Line'
    OBVIOUS
  <2>2. /\ Continues(q, p) /\ Len(p) = Len(wire) /\ Len(q) = Len(wire) + 1
        /\ \A k \in (Len(wire) + 1)..(Len(wire) + 1) : q[k] = [reader |-> {}, page |-> pending'[k - Len(wire)]] /\ k - Len(wire) \in 1..1
    BY <1>2, <1>3, <1>5, <2>1, LineGrows DEF Line
  <2>3. Len(q) = Len(p) + 1 /\ q[Len(q)] = x
    <3>1. PICK n \in Nat : n = Len(wire)
      BY <1>3, LenProperties
    <3>2. n + 1 \in (n + 1)..(n + 1) /\ (n + 1) - n = 1
      BY <3>1
    <3> QED BY <1>5, <1>6, <2>2, <3>1, <3>2 DEF Push
  <2>4. /\ lt \notin Range(opened) => c = <<>>
        /\ Contents(c) /\ e \in 0..Len(c)
        /\ LineOK(p, lt, c, e) /\ ServerOK(open, published, p, lt, c)
        /\ ReadsOK(reads, pending, lt, c, e) /\ ViewOK(view, Alive(open, p, lt), lt, c, e)
    BY <2>1 DEF UnitOK
  <2>5. /\ Len(c) = open.ver /\ Closing(c) = open.nodes /\ [lt |-> lt, nodes |-> <<>>] \notin published
        /\ \A k \in 1..Len(p) : ~Marks(p[k], lt) /\ ~Blank(p[k], lt)
    BY <1>11, <2>4 DEF ServerOK
  <2>6. (c = <<>>) = (open.ver = 0) /\ (open.nodes = <<>> => c = <<>>)
    <3>1. (c = <<>>) = (open.ver = 0)
      BY <2>4, <2>5, EmptySeq DEF Contents
    <3>2. (open.ver = 0) = (open.nodes = <<>>)
      BY DEF Types, ServerTypes
    <3> QED BY <3>1, <3>2
  <2>7. \A i \in 1..Len(x.page.committed) : x.page.committed[i].v = IF c = <<>> THEN 0 ELSE Len(c) - 1
    BY <1>7, <1>8, <2>5, <2>6
  <2>8. LineOK(q, lt, c, e)
    BY <1>9, <2>2, <2>3, <2>4, <2>5, <2>7, LineMarked
  <2>9. \A k \in 1..Len(q) : ~Blank(q[k], lt)
    <3> TAKE k \in 1..Len(q)
    <3>1. k \in 1..Len(p) \/ k = Len(q)
      BY <2>2, <2>3 DEF Continues
    <3>2. CASE k = Len(q)
      BY <1>9, <2>3, <3>2
    <3>3. CASE k \in 1..Len(p)
      BY <2>2, <2>5, <3>3 DEF Continues
    <3> QED BY <3>1, <3>2, <3>3
  <2>10. ServerOK(open', published', q, lt, c)
    <3>1. [lt |-> lt, nodes |-> Closing(c)] \in published'
      BY <1>1, <1>2, <1>11, <2>5
    <3>2. [lt |-> lt, nodes |-> <<>>] \in published' => c = <<>>
      <4>1. [lt |-> lt, nodes |-> <<>>] \in published' => m = [lt |-> lt, nodes |-> <<>>]
        BY <1>2, <2>5
      <4>2. m = [lt |-> lt, nodes |-> <<>>] => open.nodes = <<>>
        BY <1>1
      <4> QED BY <2>6, <4>1, <4>2
    <3>3. open'.lt # lt
      BY <1>4
    <3> QED BY <2>9, <3>1, <3>2, <3>3 DEF ServerOK
  <2>11. ReadsOK(reads', pending', lt, c, e)
    <3>1. \A k \in 1..Len(pending') : pending'[k].live.lt # lt
      BY <1>5 DEF Frame, NoLive
    <3> QED BY <1>2, <2>4, <3>1 DEF ReadsOK
  <2>12. ViewOK(view', Alive(open', q, lt), lt, c, e)
    <3>1. Alive(open, p, lt)
      BY <1>11 DEF Alive
    <3> QED BY <1>2, <2>4, <3>1 DEF ViewOK
  <2>13. lt \in Range(opened')
    BY <1>2, <1>11 DEF Copies, InPlay
  <2>14. UnitOK(lt, c, e)'
    BY <2>1, <2>4, <2>8, <2>10, <2>11, <2>12, <2>13, UnitIs
  <2> QED BY <2>14
<1> QED BY <1>10, <1>11

LEMMA AbandonUnits ==
  ASSUME Types, Types', Copies, Abandon, NEW lt \in LTs \ {0}, lt \notin broken', NEW c, NEW e, UnitOK(lt, c, e)
  PROVE  \E d, f : UnitOK(lt, d, f)'
<1>1. /\ pending = <<>> /\ open' = NoOpen /\ pending' = pending
      /\ UNCHANGED <<wire, view, reads, opened, published>>
  BY DEF Abandon
<1>2. \A k \in 1..Len(pending') : FALSE
  BY <1>1, EmptyText
<1>3. open'.lt # lt
  BY <1>1 DEF NoOpen
<1>4. UnitOK(lt, c, e)'
  BY <1>1, <1>2, <1>3, ServerElsewhere
<1> QED BY <1>4

LEMMA ReconcileUnits ==
  ASSUME Types, Types', Copies, Reconcile, NEW lt \in LTs \ {0}, lt \notin broken', NEW c, NEW e, UnitOK(lt, c, e)
  PROVE  \E d, f : UnitOK(lt, d, f)'
<1>1. pending = <<>> /\ UNCHANGED <<wire, view, reads, opened>>
  BY DEF Reconcile
<1>2. PICK new \in Seq(Message), n \in Nat :
           /\ n = Len(new) /\ \A i \in 1..n : new[i].lt = i /\ new[i].nodes # <<>>
           /\ history' = new /\ open' = NoOpen /\ published' = published \cup Range(new)
           /\ \E news \in Seq(Message) :
                /\ \A i \in 1..Len(news) : \E j \in 1..n : news[i] = new[j] /\ j > LastLT(history)
                /\ \/ pending' = [i \in 1..Len(news) |-> Frame(<<Snapshot(news[i])>>, NoLive)]
                   \/ /\ pending' = <<Frame(<<>>, [NoLive EXCEPT !.lt = unitLT'])>> /\ unitLT' # 0 /\ open.lt # 0
                      /\ unitLT' = n + 1
  BY ReconcileIs DEF Types
<1>3. open'.lt # lt
  BY <1>2 DEF NoOpen
<1>4. [lt |-> lt, nodes |-> <<>>] \notin Range(new)
  <2>1. DOMAIN new = 1..n
    BY <1>2, LenProperties
  <2> QED BY <1>2, <2>1 DEF Range
<1>5. ASSUME NEW k \in 1..Len(pending') PROVE Inert(Push(pending'[k]), lt)
  <2>1. PICK news \in Seq(Message) :
          /\ \A i \in 1..Len(news) : \E j \in 1..n : news[i] = new[j]
          /\ \/ pending' = [i \in 1..Len(news) |-> Frame(<<Snapshot(news[i])>>, NoLive)]
             \/ pending' = <<Frame(<<>>, [NoLive EXCEPT !.lt = unitLT'])>>
    BY <1>2
  <2>2. CASE pending' = [i \in 1..Len(news) |-> Frame(<<Snapshot(news[i])>>, NoLive)]
    <3>1. Len(pending') = Len(news)
      BY <2>2, LenProperties
    <3>2. PICK s : s = Snapshot(news[k]) /\ pending'[k] = Frame(<<s>>, NoLive)
      BY <1>5, <2>2, <3>1
    <3>3. Full(s)
      BY <1>2, <1>5, <2>1, <3>1, <3>2 DEF Full, Snapshot
    <3>4. PICK x : x = Push(pending'[k])
      OBVIOUS
    <3>5. x.reader = {} /\ x.page.committed = <<s>> /\ x.page.live = NoLive
      BY <3>2, <3>4 DEF Push, Frame
    <3>6. Len(<<s>>) = 1 /\ \A i \in 1..1 : <<s>>[i] = s
      OBVIOUS
    <3>7. ~Marks(x, lt)
      BY <3>3, <3>5, <3>6 DEF Marks
    <3>8. Inert(x, lt)
      BY <3>5, <3>7 DEF Inert, Framed, Answers, NoLive
    <3> QED BY <3>4, <3>8
  <2>3. CASE pending' = <<Frame(<<>>, [NoLive EXCEPT !.lt = unitLT'])>>
    <3>1. pending'[k] = Frame(<<>>, [NoLive EXCEPT !.lt = unitLT'])
      BY <1>5, <2>3
    <3>2. PICK x : x = Push(pending'[k])
      OBVIOUS
    <3>3. x.reader = {} /\ x.page.committed = <<>> /\ x.page.live.nodes = <<>>
      BY <3>1, <3>2 DEF Push, Frame, NoLive
    <3>4. Inert(x, lt)
      BY <3>3, EmptyText DEF Inert, Framed, Answers, Marks
    <3> QED BY <3>2, <3>4
  <2> QED BY <2>1, <2>2, <2>3
<1>6. UnitOK(lt, c, e)'
  BY <1>1, <1>2, <1>3, <1>4, <1>5, ServerElsewhere
<1> QED BY <1>6

-----------------------------------------------------------------------------
(* The actions of the connection and of the reads *)

\* A step that changes neither the server nor the copy, and takes no frame of lt
\* off the line.
LEMMA UnitKept ==
  ASSUME NEW lt, NEW c, NEW e, UnitOK(lt, c, e),
         UNCHANGED <<open, published, opened, view>>,
         LineOK(Line', lt, c, e), ReadsOK(reads', pending', lt, c, e),
         (\E k \in 1..Len(Line') : Marks(Line'[k], lt)) => (\E k \in 1..Len(Line) : Marks(Line[k], lt)),
         (\E k \in 1..Len(Line') : Blank(Line'[k], lt)) => (\E k \in 1..Len(Line) : Blank(Line[k], lt))
  PROVE  UnitOK(lt, c, e)'
<1>1. PICK p, q : p = Line /\ q = Line'
  OBVIOUS
<1>2. /\ lt \notin Range(opened) => c = <<>>
      /\ Contents(c) /\ e \in 0..Len(c) /\ ServerOK(open, published, p, lt, c)
      /\ ViewOK(view, Alive(open, p, lt), lt, c, e)
  BY <1>1 DEF UnitOK
<1>3. ServerOK(open', published', q, lt, c)
  BY <1>1, <1>2 DEF ServerOK
<1>4. Alive(open', q, lt) => Alive(open, p, lt)
  BY <1>1 DEF Alive
<1>5. ViewOK(view', Alive(open', q, lt), lt, c, e)
  BY <1>2, <1>4 DEF ViewOK
<1>6. LineOK(q, lt, c, e)
  BY <1>1
<1>7. lt \notin Range(opened') => c = <<>>
  BY <1>2
<1> QED BY <1>1, <1>2, <1>3, <1>5, <1>6, <1>7, UnitIs

LEMMA DeliverUnits ==
  ASSUME Types, Types', Copies, Deliver, NEW lt \in LTs \ {0}, lt \notin broken', NEW c, NEW e, UnitOK(lt, c, e)
  PROVE  \E d, f : UnitOK(lt, d, f)'
<1>1. /\ pending # <<>> /\ pending' = Tail(pending) /\ wire' = Append(wire, [reader |-> {}, page |-> Head(pending)])
      /\ UNCHANGED <<open, published, opened, view, reads>>
  BY DEF Deliver, server
<1>2. wire \in Seq(Item) /\ pending \in Seq(GoodPage)
  BY DEF Types, ChannelTypes
<1>3. Line' = Line
  BY <1>1, <1>2, LineDelivered DEF Line
<1>4. LineOK(Line', lt, c, e) /\ ReadsOK(reads, pending, lt, c, e)
  BY <1>3 DEF UnitOK
<1>5. Len(pending) \in Nat /\ Len(pending') = Len(pending) - 1 /\ \A k \in 1..Len(pending') : pending'[k] = pending[k + 1]
  BY <1>1, <1>2, HeadTailProperties, LenProperties
<1>6. \A k \in 1..Len(pending') : k + 1 \in 1..Len(pending)
  BY <1>5
<1>7. ReadsOK(reads', pending', lt, c, e)
  BY <1>1, <1>4, <1>5, <1>6 DEF ReadsOK
<1>8. UnitOK(lt, c, e)'
  BY <1>1, <1>3, <1>4, <1>7, UnitKept
<1> QED BY <1>8

\* The snapshot a read gets, unless nothing is open, has the last contents of
\* the unit, and the frame that is not delivered yet is the last.
LEMMA ServeUnits ==
  ASSUME Types, Types', Copies, NEW a \in Readers, Serve(a), NEW lt \in LTs \ {0}, lt \notin broken', NEW c, NEW e, UnitOK(lt, c, e)
  PROVE  \E d, f : UnitOK(lt, d, f)'
<1>1. PICK P : P = IF reads[a].call = "Read" THEN ReadSince(reads[a].since) ELSE Frame(ReadRecent, NoLive)
  OBVIOUS
<1>2. /\ reads' = [reads EXCEPT ![a].stage = "served", ![a].page = P]
      /\ UNCHANGED <<open, published, opened, view, wire, pending>>
  BY <1>1 DEF Serve, server
<1>3. Line' = Line
  BY <1>2 DEF Line
<1>4. PICK q : q = Line
  OBVIOUS
<1>5. /\ LineOK(q, lt, c, e) /\ ReadsOK(reads, pending, lt, c, e) /\ Contents(c) /\ e \in 0..Len(c)
      /\ ServerOK(open, published, q, lt, c)
  BY <1>4 DEF UnitOK
<1>6. /\ open \in [lt : LTs, nodes : Seq(Texts), ver : Nat] /\ reads \in [Readers -> GoodQuery]
      /\ (open.ver = 0) = (open.nodes = <<>>) /\ wire \in Seq(Item) /\ pending \in Seq(GoodPage)
  BY DEF Types, ServerTypes, ChannelTypes
<1>7. /\ reads'[a].page = P /\ reads'[a].stage = "served"
      /\ \A r \in Readers : r # a => reads'[r] = reads[r]
  BY <1>2, <1>6 DEF GoodQuery
<1>8. P.live = ReadOpen \/ P.live = NoLive
  BY <1>1 DEF ReadSince, Frame
<1>9. ASSUME P.live.lt = lt PROVE SnapOf(P.live, c) /\ P.live.v = Len(c) - 1
  <2>1. P.live = ReadOpen /\ open.nodes # <<>>
    BY <1>8, <1>9 DEF NoLive, ReadOpen
  <2>2. /\ P.live.lt = open.lt /\ P.live.v = (IF open.ver = 0 THEN 0 ELSE open.ver - 1)
        /\ P.live.nodes = [i \in DOMAIN open.nodes |-> FullSet(i, open.nodes[i])]
    BY <2>1 DEF ReadOpen
  <2>3. Len(c) = open.ver /\ Closing(c) = open.nodes /\ open.ver # 0
    BY <1>5, <1>6, <1>9, <2>1, <2>2 DEF ServerOK
  <2>4. PICK n \in Nat : n = Len(c) /\ n # 0 /\ P.live.v = n - 1
    BY <1>6, <2>2, <2>3
  <2>5. c # <<>>
    BY <2>4, EmptyText
  <2>6. c[n] = open.nodes /\ (n - 1) + 1 = n /\ n - 1 \in 0..(n - 1)
    BY <2>3, <2>4, <2>5 DEF Closing
  <2>7. DOMAIN open.nodes = 1..Len(open.nodes)
    BY <1>6, LenProperties
  <2> QED BY <2>2, <2>4, <2>6, <2>7 DEF SnapOf
<1>10. ASSUME P.live.lt = lt, NEW k \in 1..Len(pending), pending[k].live.lt = lt, pending[k].live.nodes # <<>>
       PROVE  P.live.v <= pending[k].live.v
  <2>1. Len(pending) = 1 /\ k = 1
    BY <1>10 DEF Copies, PagesOK
  <2>2. PICK n \in Nat, w \in Nat : n = Len(c) /\ w = Len(wire)
    BY <1>5, <1>6, LenProperties DEF Contents
  <2>3. Len(q) = w + 1 /\ q[w + 1] = [reader |-> {}, page |-> pending[1]]
    <3>1. /\ Len(q) = Len(wire) + Len(pending)
          /\ \A j \in 1..Len(pending) : q[Len(wire) + j] = [reader |-> {}, page |-> pending[j]]
      BY <1>4, <1>6, LineIs DEF Line
    <3>2. 1 \in 1..1
      OBVIOUS
    <3> QED BY <2>1, <2>2, <3>1, <3>2
  <2>4. PICK x : x = q[w + 1]
    OBVIOUS
  <2>5. Framed(x, lt) /\ Ver(x) = pending[k].live.v
    BY <1>10, <2>1, <2>3, <2>4 DEF Framed, Ver
  <2>6. w + 1 \in 1..(w + 1) /\ \A j \in 1..(w + 1) : j < w + 1 \/ j = w + 1
    BY <2>2
  <2>7. Ver(x) \in e..(n - 1)
    BY <1>5, <2>2, <2>3, <2>4, <2>5, <2>6 DEF LineOK, ItemOK
  <2>8. e \in Nat /\ n - 1 \in e..(n - 1)
    BY <1>5, <2>2, <2>7
  <2>9. PICK j \in 1..(w + 1) : Framed(q[j], lt) /\ Ver(q[j]) = n - 1
    BY <1>5, <2>2, <2>3, <2>8 DEF LineOK
  <2>10. CASE j = w + 1
    BY <1>9, <1>10, <2>2, <2>4, <2>5, <2>9, <2>10, <2>8
  <2>11. CASE j < w + 1
    <3>1. InOrder(q[j], x, lt)
      BY <1>5, <2>3, <2>4, <2>6, <2>9, <2>11 DEF LineOK
    <3>2. n - 1 < Ver(x)
      BY <2>5, <2>9, <3>1 DEF InOrder
    <3> QED BY <2>7, <2>8, <3>2
  <2> QED BY <2>6, <2>10, <2>11
<1>11. ReadsOK(reads', pending', lt, c, e)
  <2>1. ASSUME NEW r \in Readers, reads'[r].page.live.lt = lt, r = a
        PROVE  /\ SnapOf(reads'[r].page.live, c)
               /\ \A k \in 1..Len(pending) : pending[k].live.lt = lt /\ pending[k].live.nodes # <<>> =>
                    reads'[r].page.live.v <= pending[k].live.v
    BY <1>7, <1>9, <1>10, <2>1
  <2>2. reads'[a].stage # "got"
    BY <1>7
  <2> QED BY <1>2, <1>5, <1>7, <2>1, <2>2 DEF ReadsOK
<1>12. UnitOK(lt, c, e)'
  BY <1>2, <1>3, <1>4, <1>5, <1>11, UnitKept
<1> QED BY <1>12

\* An answer is written behind the connection, in front of what the drain loop
\* has not delivered.
LEMMA LineReply ==
  ASSUME NEW w \in Seq(Item), NEW p \in Seq(GoodPage), NEW x \in Item
  PROVE  With(LineOf(Append(w, x), p), LineOf(w, p), Len(w) + 1, x)
<1>1. PICK n \in Nat, m \in Nat : n = Len(w) /\ m = Len(p)
  BY LenProperties
<1>2. PICK u \in Seq(Item) : u = Append(w, x)
  BY AppendProperties
<1>3. Len(u) = n + 1 /\ (\A k \in 1..n : u[k] = w[k]) /\ u[n + 1] = x
  BY <1>1, <1>2, AppendProperties
<1>4. PICK q : q = LineOf(w, p)
  OBVIOUS
<1>5. /\ Len(q) = n + m /\ \A k \in 1..n : q[k] = w[k]
      /\ \A k \in 1..m : q[n + k] = [reader |-> {}, page |-> p[k]]
  BY <1>1, <1>4, LineIs
<1>6. PICK t : t = LineOf(u, p)
  OBVIOUS
<1>7. /\ Len(t) = n + 1 + m /\ \A k \in 1..(n + 1) : t[k] = u[k]
      /\ \A k \in 1..m : t[n + 1 + k] = [reader |-> {}, page |-> p[k]]
  <2>1. /\ Len(t) = Len(u) + m /\ \A k \in 1..Len(u) : t[k] = u[k]
        /\ \A k \in 1..m : t[Len(u) + k] = [reader |-> {}, page |-> p[k]]
    BY <1>1, <1>6, LineIs
  <2> QED BY <1>3, <2>1
<1>8. Len(q) \in Nat /\ Len(t) = Len(q) + 1 /\ n + 1 \in 1..Len(t)
  BY <1>5, <1>7
<1>9. t[n + 1] = x /\ \A k \in 1..((n + 1) - 1) : t[k] = q[k]
  BY <1>3, <1>5, <1>7
<1>10. ASSUME NEW k \in (n + 1 + 1)..Len(t) PROVE t[k] = q[k - 1]
  <2>1. PICK j \in 1..m : j = k - (n + 1)
    BY <1>7, <1>10
  <2>2. k = n + 1 + j /\ k - 1 = n + j
    BY <1>10, <2>1
  <2>3. t[n + 1 + j] = [reader |-> {}, page |-> p[j]]
    BY <1>7
  <2>4. q[n + j] = [reader |-> {}, page |-> p[j]]
    BY <1>5
  <2> QED BY <2>2, <2>3, <2>4
<1>11. With(t, q, n + 1, x)
  BY <1>8, <1>9, <1>10 DEF With
<1> QED BY <1>1, <1>2, <1>4, <1>6, <1>11

LEMMA ReplyUnits ==
  ASSUME Types, Types', Copies, NEW a \in Readers, Reply(a), NEW lt \in LTs \ {0}, lt \notin broken', NEW c, NEW e, UnitOK(lt, c, e)
  PROVE  \E d, f : UnitOK(lt, d, f)'
<1>1. PICK x : x = [reader |-> {a}, page |-> reads[a].page]
  OBVIOUS
<1>2. /\ reads[a].stage = "served" /\ reads' = [reads EXCEPT ![a].stage = "wired", ![a].page = NoPage]
      /\ wire' = Append(wire, x) /\ UNCHANGED <<open, published, opened, view, pending>>
  BY <1>1 DEF Reply, server
<1>3. reads \in [Readers -> GoodQuery] /\ wire \in Seq(Item) /\ pending \in Seq(GoodPage)
  BY DEF Types, ChannelTypes
<1>4. x \in Item /\ x.reader = {a} /\ x.page = reads[a].page
  BY <1>1, <1>3 DEF Item, GoodQuery
<1>5. PICK p, q : p = Line /\ q = Line'
  OBVIOUS
<1>6. PICK n \in Nat : n = Len(wire)
  BY <1>3, LenProperties
<1>7. With(q, p, n + 1, x)
  BY <1>2, <1>3, <1>4, <1>5, <1>6, LineReply DEF Line
<1>8. LineOK(p, lt, c, e) /\ ReadsOK(reads, pending, lt, c, e)
  BY <1>5 DEF UnitOK
<1>9. Answers(x, lt) => SnapOf(x.page.live, c)
  BY <1>2, <1>4, <1>8 DEF Answers, ReadsOK
<1>10. ASSUME NEW k \in (n + 1)..Len(p), Answers(x, lt), Framed(p[k], lt) PROVE Ver(x) <= Ver(p[k])
  <2>1. /\ Len(p) = n + Len(pending)
        /\ \A j \in 1..Len(pending) : p[n + j] = [reader |-> {}, page |-> pending[j]]
    <3>1. p = LineOf(wire, pending)
      BY <1>5 DEF Line
    <3>2. /\ Len(p) = Len(wire) + Len(pending)
          /\ \A j \in 1..Len(pending) : p[Len(wire) + j] = [reader |-> {}, page |-> pending[j]]
      BY <1>3, <3>1, LineIs
    <3> QED BY <1>6, <3>2
  <2>2. PICK m \in Nat : m = Len(pending)
    BY <1>3, LenProperties
  <2>3. PICK j \in 1..m : j = k - n
    BY <1>10, <2>1, <2>2
  <2>4. p[k] = [reader |-> {}, page |-> pending[j]]
    <3>1. k = n + j
      BY <1>10, <2>1, <2>2, <2>3
    <3> QED BY <2>1, <2>2, <3>1
  <2> QED BY <1>2, <1>4, <1>8, <1>10, <2>2, <2>4 DEF Answers, Framed, Ver, ReadsOK
<1>11. LineOK(q, lt, c, e)
  BY <1>4, <1>7, <1>8, <1>9, <1>10, LineWith
<1>12. ReadsOK(reads', pending', lt, c, e)
  <2>1. reads'[a].page = NoPage /\ \A r \in Readers : r # a => reads'[r] = reads[r]
    BY <1>2, <1>3 DEF GoodQuery
  <2>2. NoPage.live.lt # lt
    BY DEF NoPage, Frame, NoLive
  <2> QED BY <1>2, <1>8, <2>1, <2>2 DEF ReadsOK
<1>13. ~Marks(x, lt) /\ ~Blank(x, lt)
  BY <1>4 DEF Marks, Blank
<1>14. \A k \in 1..Len(q) : q[k] = x \/ \E j \in 1..Len(p) : q[k] = p[j]
  <2> TAKE k \in 1..Len(q)
  <2>1. PICK m \in Nat : m = Len(p) /\ Len(q) = m + 1
    BY <1>7 DEF With
  <2>2. CASE k \in 1..n
    <3>1. n <= m /\ k \in 1..((n + 1) - 1)
      BY <1>7, <2>1, <2>2 DEF With
    <3> QED BY <1>7, <2>1, <2>2, <3>1 DEF With
  <2>3. CASE k = n + 1
    BY <1>7, <2>3 DEF With
  <2>4. CASE k \in (n + 1 + 1)..(m + 1)
    <3>1. k - 1 \in 1..m
      BY <2>1, <2>4
    <3> QED BY <1>7, <2>1, <2>4, <3>1 DEF With
  <2> QED BY <2>1, <2>2, <2>3, <2>4
<1>15. UnitOK(lt, c, e)'
  <2>1. (\E k \in 1..Len(q) : Marks(q[k], lt)) => \E k \in 1..Len(p) : Marks(p[k], lt)
    BY <1>13, <1>14
  <2>2. (\E k \in 1..Len(q) : Blank(q[k], lt)) => \E k \in 1..Len(p) : Blank(p[k], lt)
    BY <1>13, <1>14
  <2> QED BY <1>2, <1>5, <1>11, <1>12, <2>1, <2>2, UnitKept
<1> QED BY <1>15

\* Taking the head off the connection takes it off the line.
LEMMA LineTail ==
  ASSUME NEW w \in Seq(Item), w # <<>>, NEW p \in Seq(GoodPage)
  PROVE  /\ Len(LineOf(w, p)) \in Nat \ {0} /\ LineOf(w, p)[1] = Head(w)
         /\ Len(LineOf(Tail(w), p)) = Len(LineOf(w, p)) - 1
         /\ \A k \in 1..Len(LineOf(Tail(w), p)) : LineOf(Tail(w), p)[k] = LineOf(w, p)[k + 1]
<1>1. PICK n \in Nat, m \in Nat : n = Len(w) /\ m = Len(p) /\ n >= 1
  BY LenProperties, EmptySeq
<1>2. PICK u \in Seq(Item) : u = Tail(w) /\ Len(u) = n - 1 /\ \A k \in 1..(n - 1) : u[k] = w[k + 1]
  <2>1. Tail(w) \in Seq(Item) /\ Len(Tail(w)) = Len(w) - 1 /\ \A i \in 1..Len(Tail(w)) : Tail(w)[i] = w[i + 1]
    BY HeadTailProperties
  <2> QED BY <1>1, <2>1
<1>3. PICK q : q = LineOf(w, p)
  OBVIOUS
<1>4. /\ Len(q) = n + m /\ \A k \in 1..n : q[k] = w[k]
      /\ \A k \in 1..m : q[n + k] = [reader |-> {}, page |-> p[k]]
  BY <1>1, <1>3, LineIs
<1>5. PICK t : t = LineOf(u, p)
  OBVIOUS
<1>6. /\ Len(t) = (n - 1) + m /\ \A k \in 1..(n - 1) : t[k] = u[k]
      /\ \A k \in 1..m : t[(n - 1) + k] = [reader |-> {}, page |-> p[k]]
  <2>1. /\ Len(t) = Len(u) + m /\ \A k \in 1..Len(u) : t[k] = u[k]
        /\ \A k \in 1..m : t[Len(u) + k] = [reader |-> {}, page |-> p[k]]
    BY <1>1, <1>5, LineIs
  <2> QED BY <1>2, <2>1
<1>7. Head(w) = w[1]
  OBVIOUS
<1>8. q[1] = Head(w)
  BY <1>1, <1>4, <1>7
<1>9. ASSUME NEW k \in 1..Len(t) PROVE t[k] = q[k + 1]
  <2>1. CASE k \in 1..(n - 1)
    <3>1. k + 1 \in 1..n
      BY <1>1, <2>1
    <3> QED BY <1>2, <1>4, <1>6, <2>1, <3>1
  <2>2. CASE ~(k \in 1..(n - 1))
    <3>0. k \in 1..((n - 1) + m) /\ ~(k \in 1..(n - 1)) /\ n >= 1
      BY <1>1, <1>6, <1>9, <2>2
    <3>1. PICK j \in 1..m : j = k - (n - 1)
      <4>1. k - (n - 1) \in 1..m
        BY <3>0
      <4> QED BY <4>1
    <3>2. k = (n - 1) + j /\ k + 1 = n + j
      BY <1>1, <1>6, <1>9, <3>1
    <3>3. t[(n - 1) + j] = [reader |-> {}, page |-> p[j]]
      BY <1>6
    <3>4. q[n + j] = [reader |-> {}, page |-> p[j]]
      BY <1>4
    <3> QED BY <3>2, <3>3, <3>4
  <2> QED BY <2>1, <2>2
<1>10. Len(q) \in Nat \ {0} /\ Len(t) = Len(q) - 1
  BY <1>1, <1>4, <1>6
<1> QED BY <1>2, <1>3, <1>5, <1>8, <1>9, <1>10

\* t is q without its head.
Behind(t, q) == Len(q) \in Nat \ {0} /\ Len(t) = Len(q) - 1 /\ \A k \in 1..Len(t) : t[k] = q[k + 1]

LEMMA BehindHead ==
  ASSUME NEW q, NEW t, Behind(t, q)
  PROVE  /\ \A k \in 1..Len(t) : \E j \in 1..Len(q) : t[k] = q[j] /\ 1 < j
         /\ 1 \in 1..Len(q)
         /\ \A j \in 1..Len(q) : j # 1 => \E k \in 1..Len(t) : t[k] = q[j]
<1>1. PICK m \in Nat : m = Len(t) /\ Len(q) = m + 1 /\ \A k \in 1..m : t[k] = q[k + 1]
  BY DEF Behind
<1>2. \A k \in 1..m : k + 1 \in 1..(m + 1) /\ 1 < k + 1
  BY <1>1
<1>3. ASSUME NEW j \in 1..(m + 1), j # 1 PROVE \E k \in 1..m : t[k] = q[j]
  <2>1. j - 1 \in 1..m /\ (j - 1) + 1 = j
    BY <1>1, <1>3
  <2> QED BY <1>1, <2>1
<1> QED BY <1>1, <1>2, <1>3

\* Receiving anything else than a frame of lt
LEMMA LineBehind ==
  ASSUME NEW q, NEW t, Behind(t, q), NEW lt, NEW c, NEW e, LineOK(q, lt, c, e), ~Framed(q[1], lt)
  PROVE  LineOK(t, lt, c, e)
<1>1. PICK m \in Nat : m = Len(t) /\ Len(q) = m + 1 /\ \A k \in 1..m : t[k] = q[k + 1]
  BY DEF Behind
<1>2. PICK g : g = [k \in 1..m |-> k + 1]
  OBVIOUS
<1>3. Within(t, q, g)
  <2>1. \A k \in 1..m : g[k] = k + 1 /\ k + 1 \in 1..(m + 1)
    BY <1>1, <1>2
  <2> QED BY <1>1, <2>1 DEF Within
<1>4. ASSUME NEW i \in 1..Len(q), Framed(q[i], lt) PROVE \E k \in 1..Len(t) : g[k] = i
  <2>1. i - 1 \in 1..m /\ (i - 1) + 1 = i
    BY <1>1, <1>4
  <2> QED BY <1>1, <1>2, <2>1
<1> QED BY <1>3, <1>4, LineThinner

\* When what is at the head of the line says that no frames follow, or that they
\* have at least version v, the client has received the versions up to there.
LEMMA CaughtUp ==
  ASSUME NEW q, NEW t, Behind(t, q), NEW lt, NEW c, Len(c) \in Nat, NEW e \in 0..Len(c), LineOK(q, lt, c, e),
         ~Framed(q[1], lt)
  PROVE  /\ Marks(q[1], lt) => e = Len(c)
         /\ Answers(q[1], lt) => Ver(q[1]) <= e
<1>1. 1 \in 1..Len(q) /\ \A j \in 1..Len(q) : j # 1 => 1 < j
  BY BehindHead DEF Behind
<1>2. PICK n \in Nat : n = Len(c) /\ e \in 0..n
  OBVIOUS
<1>3. CASE e = n
  <2>1. ASSUME Answers(q[1], lt) PROVE Ver(q[1]) <= e
    <3>1. SnapOf(q[1].page.live, c)
      BY <1>1, <2>1 DEF LineOK, ItemOK
    <3>2. Ver(q[1]) \in 0..(n - 1)
      BY <1>2, <3>1 DEF SnapOf, Ver
    <3> QED BY <1>3, <3>2
  <2> QED BY <1>2, <1>3, <2>1
<1>4. CASE e # n
  <2>1. e \in e..(n - 1)
    BY <1>2, <1>4
  <2>2. PICK k \in 1..Len(q) : Framed(q[k], lt) /\ Ver(q[k]) = e
    BY <1>2, <2>1 DEF LineOK
  <2>3. 1 < k
    BY <1>1, <2>2
  <2>4. InOrder(q[1], q[k], lt)
    BY <1>1, <2>2, <2>3 DEF LineOK
  <2> QED BY <2>2, <2>4 DEF InOrder
<1> QED BY <1>3, <1>4

LEMMA ReceiveAnswerUnits ==
  ASSUME Types, Types', Copies, ReceiveAnswer, NEW lt \in LTs \ {0}, lt \notin broken', NEW c, NEW e, UnitOK(lt, c, e)
  PROVE  \E d, f : UnitOK(lt, d, f)'
<1>1. PICK x : x = Head(wire)
  OBVIOUS
<1>2. /\ wire # <<>> /\ x.reader # {} /\ wire' = Tail(wire)
      /\ reads' = [r \in Readers |-> IF r \in x.reader THEN Received(reads[r], x.page) ELSE reads[r]]
      /\ UNCHANGED <<open, published, opened, view, pending>>
  BY <1>1 DEF ReceiveAnswer, server
<1>3. reads \in [Readers -> GoodQuery] /\ wire \in Seq(Item) /\ pending \in Seq(GoodPage)
  BY DEF Types, ChannelTypes
<1>4. PICK q, t : q = Line /\ t = Line'
  OBVIOUS
<1>5. Behind(t, q) /\ q[1] = x
  BY <1>1, <1>2, <1>3, <1>4, LineTail DEF Line, Behind
<1>6. LineOK(q, lt, c, e) /\ ReadsOK(reads, pending, lt, c, e) /\ Contents(c) /\ e \in 0..Len(c)
  BY <1>4 DEF UnitOK
<1>7. ~Framed(x, lt) /\ Len(c) \in Nat
  BY <1>2, <1>6, LenProperties DEF Framed, Contents
<1>8. LineOK(t, lt, c, e)
  BY <1>5, <1>6, <1>7, LineBehind
<1>9. ASSUME x.page.live.lt = lt PROVE SnapOf(x.page.live, c) /\ x.page.live.v <= e
  <2>1. Answers(x, lt)
    BY <1>2, <1>9 DEF Answers
  <2>2. SnapOf(x.page.live, c)
    BY <1>5, <1>6, <2>1, BehindHead DEF LineOK, ItemOK
  <2>3. Ver(x) <= e
    BY <1>5, <1>6, <1>7, <2>1, CaughtUp
  <2> QED BY <2>2, <2>3 DEF Ver
<1>10. ReadsOK(reads', pending', lt, c, e)
  <2> SUFFICES ASSUME NEW r \in Readers, reads'[r].page.live.lt = lt
               PROVE  /\ reads'[r].stage \in {"served", "got"} => SnapOf(reads'[r].page.live, c)
                      /\ reads'[r].stage = "got" => reads'[r].page.live.v <= e
                      /\ reads'[r].stage = "served" =>
                           \A k \in 1..Len(pending) : pending[k].live.lt = lt /\ pending[k].live.nodes # <<>> =>
                             reads'[r].page.live.v <= pending[k].live.v
    BY <1>2 DEF ReadsOK
  <2>1. CASE r \notin x.reader
    <3>1. reads'[r] = reads[r]
      BY <1>2, <2>1
    <3> QED BY <1>6, <3>1 DEF ReadsOK
  <2>2. CASE r \in x.reader
    <3>1. reads'[r] = Received(reads[r], x.page)
      BY <1>2, <2>2
    <3>2. reads[r].call # "ReadBefore"
      <4>1. reads[r].call = "ReadBefore" => reads'[r].page = NoPage
        BY <3>1 DEF Received, Ask, Idle
      <4>2. NoPage.live.lt = 0
        BY DEF NoPage, Frame, NoLive
      <4> QED BY <4>1, <4>2
    <3>3. reads'[r].page.live = x.page.live /\ reads'[r].stage = "got"
      <4>1. reads[r] \in GoodQuery
        BY <1>3
      <4> QED BY <3>1, <3>2, <4>1 DEF Received, Frame, GoodQuery
    <3> QED BY <1>9, <3>3
  <2> QED BY <2>1, <2>2
<1>11. UnitOK(lt, c, e)'
  <2>1. \A k \in 1..Len(t) : \E j \in 1..Len(q) : t[k] = q[j]
    BY <1>5, BehindHead
  <2> QED BY <1>2, <1>4, <1>8, <1>10, <2>1, UnitKept
<1> QED BY <1>11

LEMMA EnterTranscriptUnits ==
  ASSUME Types, Types', Copies, EnterTranscript, NEW lt \in LTs \ {0}, lt \notin broken', NEW c, NEW e, UnitOK(lt, c, e)
  PROVE  \E d, f : UnitOK(lt, d, f)'
<1>1. /\ reads[Pager] = Idle /\ reads' = [reads EXCEPT ![Pager].stage = "asked", ![Pager].call = "ReadBefore"]
      /\ UNCHANGED <<open, published, opened, view, wire, pending>>
  BY DEF EnterTranscript, server
<1>2. reads \in [Readers -> GoodQuery] /\ Pager \in Readers
  BY DEF Types, ChannelTypes, Readers
<1>3. Line' = Line
  BY <1>1 DEF Line
<1>4. LineOK(Line', lt, c, e) /\ ReadsOK(reads, pending, lt, c, e)
  BY <1>3 DEF UnitOK
<1>5. reads'[Pager].page = reads[Pager].page /\ \A r \in Readers : r # Pager => reads'[r] = reads[r]
  BY <1>1, <1>2 DEF GoodQuery
<1>6. reads'[Pager].page.live.lt # lt
  BY <1>1, <1>5 DEF Idle, NoPage, Frame, NoLive
<1>7. ReadsOK(reads', pending', lt, c, e)
  BY <1>1, <1>4, <1>5, <1>6 DEF ReadsOK
<1>8. UnitOK(lt, c, e)'
  BY <1>1, <1>3, <1>4, <1>7, UnitKept
<1> QED BY <1>8

\* Dropping answers from the connection.
LEMMA LinePicked ==
  ASSUME NEW w \in Seq(Item), NEW p \in Seq(GoodPage), NEW I, I \subseteq DOMAIN w
  PROVE  \E g : /\ Within(LineOf(Picked(w, I), p), LineOf(w, p), g)
                /\ \A i \in 1..Len(LineOf(w, p)) :
                     (\E k \in 1..Len(LineOf(Picked(w, I), p)) : g[k] = i) \/ (i \in DOMAIN w /\ i \notin I)
<1>0. PICK u \in Seq(Item) : u = Picked(w, I) /\ \E h : PartOf(u, w, I, h)
  BY PickedPart
<1>1. PICK h : u = Picked(w, I) /\ PartOf(u, w, I, h)
  BY <1>0
<1>2. PICK n \in Nat, m \in Nat, l \in Nat : n = Len(w) /\ m = Len(p) /\ l = Len(u)
  BY LenProperties
<1>3. DOMAIN w = 1..n /\ DOMAIN u = 1..l
  BY <1>2, LenProperties
<1>4. /\ \A k \in 1..l : h[k] \in I /\ h[k] \in 1..n /\ u[k] = w[h[k]]
      /\ \A j, k \in 1..l : j < k => h[j] < h[k]
      /\ \A i \in I : \E k \in 1..l : h[k] = i
  BY <1>1, <1>3 DEF PartOf
<1>5. PICK q : q = LineOf(w, p)
  OBVIOUS
<1>6. /\ Len(q) = n + m /\ \A k \in 1..n : q[k] = w[k]
      /\ \A k \in 1..m : q[n + k] = [reader |-> {}, page |-> p[k]]
  BY <1>2, <1>5, LineIs
<1>7. PICK t : t = LineOf(u, p)
  OBVIOUS
<1>8. /\ Len(t) = l + m /\ \A k \in 1..l : t[k] = u[k]
      /\ \A k \in 1..m : t[l + k] = [reader |-> {}, page |-> p[k]]
  BY <1>2, <1>7, LineIs
<1>9. PICK g : g = [k \in 1..(l + m) |-> IF k <= l THEN h[k] ELSE n + (k - l)]
  OBVIOUS
<1>10. \A k \in 1..(l + m) : (k \in 1..l /\ g[k] = h[k]) \/ (k - l \in 1..m /\ ~(k <= l) /\ g[k] = n + (k - l) /\ k = l + (k - l))
  BY <1>2, <1>9
<1>11. ASSUME NEW k \in 1..(l + m) PROVE g[k] \in 1..(n + m) /\ t[k] = q[g[k]]
  <2>1. CASE k \in 1..l /\ g[k] = h[k]
    <3>1. h[k] \in 1..n /\ u[k] = w[h[k]]
      BY <1>4, <2>1
    <3>2. t[k] = u[k] /\ q[h[k]] = w[h[k]]
      BY <1>6, <1>8, <2>1, <3>1
    <3>3. h[k] \in 1..(n + m)
      BY <1>2, <3>1
    <3> QED BY <2>1, <3>1, <3>2, <3>3
  <2>2. CASE k - l \in 1..m /\ g[k] = n + (k - l) /\ k = l + (k - l)
    <3>1. PICK j \in 1..m : j = k - l /\ k = l + j /\ g[k] = n + j
      BY <2>2
    <3>2. t[l + j] = [reader |-> {}, page |-> p[j]] /\ q[n + j] = [reader |-> {}, page |-> p[j]]
      BY <1>6, <1>8, <3>1
    <3>3. n + j \in 1..(n + m)
      BY <1>2, <3>1
    <3> QED BY <3>1, <3>2, <3>3
  <2> QED BY <1>10, <1>11, <2>1, <2>2
<1>12. ASSUME NEW j \in 1..(l + m), NEW k \in 1..(l + m), j < k PROVE g[j] < g[k]
  <2>1. CASE k \in 1..l
    <3>1. j \in 1..l /\ ~(~(j <= l)) /\ ~(~(k <= l))
      BY <1>2, <1>12, <2>1
    <3>2. g[j] = h[j] /\ g[k] = h[k]
      BY <1>10, <1>12, <3>1
    <3> QED BY <1>4, <1>12, <2>1, <3>1, <3>2
  <2>2. CASE ~(k \in 1..l) /\ j \in 1..l
    <3>1. g[k] = n + (k - l) /\ k - l \in 1..m
      BY <1>10, <1>12, <2>2
    <3>2. g[j] = h[j] /\ h[j] \in 1..n
      BY <1>2, <1>4, <1>10, <1>12, <2>2
    <3> QED BY <1>2, <3>1, <3>2
  <2>3. CASE ~(k \in 1..l) /\ ~(j \in 1..l)
    <3>1. g[k] = n + (k - l) /\ g[j] = n + (j - l)
      BY <1>10, <1>12, <2>3
    <3> QED BY <1>2, <1>12, <3>1
  <2> QED BY <2>1, <2>2, <2>3
<1>13. Within(t, q, g)
  BY <1>6, <1>8, <1>11, <1>12 DEF Within
<1>14. ASSUME NEW i \in 1..(n + m) PROVE (\E k \in 1..(l + m) : g[k] = i) \/ (i \in 1..n /\ i \notin I)
  <2>1. CASE i \in 1..n /\ i \in I
    <3>1. PICK k \in 1..l : h[k] = i
      BY <1>4, <2>1
    <3>2. k \in 1..(l + m) /\ k <= l
      BY <1>2, <3>1
    <3> QED BY <1>9, <3>1, <3>2
  <2>2. CASE ~(i \in 1..n)
    <3>1. PICK k \in 1..(l + m) : k = l + (i - n) /\ ~(k <= l) /\ n + (k - l) = i
      <4>1. l + (i - n) \in 1..(l + m) /\ ~(l + (i - n) <= l) /\ n + ((l + (i - n)) - l) = i
        BY <1>2, <1>14, <2>2
      <4> QED BY <4>1
    <3> QED BY <1>9, <3>1
  <2> QED BY <2>1, <2>2
<1>15. Within(t, q, g) /\ \A i \in 1..Len(q) : (\E k \in 1..Len(t) : g[k] = i) \/ (i \in DOMAIN w /\ i \notin I)
  BY <1>3, <1>6, <1>8, <1>13, <1>14
<1> QED BY <1>1, <1>5, <1>7, <1>15

LEMMA TimeoutUnits ==
  ASSUME Types, Types', Copies, NEW a \in Readers, Timeout(a), NEW lt \in LTs \ {0}, lt \notin broken', NEW c, NEW e, UnitOK(lt, c, e)
  PROVE  \E d, f : UnitOK(lt, d, f)'
<1>1. PICK I : I = {k \in DOMAIN wire : wire[k].reader # {a}}
  OBVIOUS
<1>2. /\ reads' = [reads EXCEPT ![a] = IF reads[a].since = RecentCursor
                                       THEN [@ EXCEPT !.stage = "got", !.page = Frame(reads[a].have, NoLive)]
                                       ELSE Through(a)]
      /\ wire' = Picked(wire, I) /\ UNCHANGED <<open, published, opened, view, pending>>
  BY <1>1 DEF Timeout, server
<1>3. reads \in [Readers -> GoodQuery] /\ wire \in Seq(Item) /\ pending \in Seq(GoodPage)
  BY DEF Types, ChannelTypes
<1>4. PICK q, t : q = Line /\ t = Line'
  OBVIOUS
<1>5. PICK g : Within(t, q, g) /\ \A i \in 1..Len(q) : (\E k \in 1..Len(t) : g[k] = i) \/ (i \in DOMAIN wire /\ i \notin I)
  <2>1. I \subseteq DOMAIN wire
    BY <1>1
  <2>2. q = LineOf(wire, pending) /\ t = LineOf(Picked(wire, I), pending)
    BY <1>2, <1>4 DEF Line
  <2>3. \E g : /\ Within(LineOf(Picked(wire, I), pending), LineOf(wire, pending), g)
               /\ \A i \in 1..Len(LineOf(wire, pending)) :
                    (\E k \in 1..Len(LineOf(Picked(wire, I), pending)) : g[k] = i) \/ (i \in DOMAIN wire /\ i \notin I)
    BY <1>3, <2>1, LinePicked, Zenon
  <2> QED BY <2>2, <2>3, Zenon
<1>6. LineOK(q, lt, c, e) /\ ReadsOK(reads, pending, lt, c, e)
  BY <1>4 DEF UnitOK
<1>7. ASSUME NEW i \in 1..Len(q), Framed(q[i], lt) PROVE \E k \in 1..Len(t) : g[k] = i
  <2>1. \A k \in 1..Len(wire) : q[k] = wire[k]
    BY <1>3, <1>4, LineIs DEF Line
  <2>2. DOMAIN wire = 1..Len(wire)
    BY <1>3, LenProperties
  <2>3. i \in DOMAIN wire /\ i \notin I => wire[i].reader = {a} /\ q[i] = wire[i]
    BY <1>1, <2>1, <2>2
  <2>4. i \in DOMAIN wire /\ i \notin I => FALSE
    BY <1>7, <2>3 DEF Framed
  <2> QED BY <1>5, <1>7, <2>4
<1>8. LineOK(t, lt, c, e)
  BY <1>5, <1>6, <1>7, LineThinner
<1>9. \A k \in 1..Len(t) : \E j \in 1..Len(q) : t[k] = q[j]
  BY <1>5 DEF Within
<1>10. (\A r \in Readers : r # a => reads'[r] = reads[r]) /\ reads'[a].page.live.lt # lt
  <2>1. reads[a] \in GoodQuery
    BY <1>3
  <2>2. reads'[a] = IF reads[a].since = RecentCursor
                    THEN [reads[a] EXCEPT !.stage = "got", !.page = Frame(reads[a].have, NoLive)] ELSE Through(a)
    BY <1>2, <1>3
  <2>3. CASE reads[a].since = RecentCursor
    <3>1. reads'[a].page = Frame(reads[a].have, NoLive)
      BY <2>1, <2>2, <2>3 DEF GoodQuery
    <3> QED BY <1>2, <1>3, <3>1 DEF Frame, NoLive
  <2>4. CASE reads[a].since # RecentCursor
    <3>1. reads'[a].page = NoPage
      BY <2>2, <2>4 DEF Through, Idle
    <3> QED BY <1>2, <1>3, <3>1 DEF NoPage, Frame, NoLive
  <2> QED BY <2>3, <2>4
<1>11. ReadsOK(reads', pending', lt, c, e)
  BY <1>2, <1>6, <1>10 DEF ReadsOK
<1>12. UnitOK(lt, c, e)'
  BY <1>2, <1>4, <1>8, <1>9, <1>11, UnitKept
<1> QED BY <1>12

-----------------------------------------------------------------------------
(* The client's folds *)

\* An entry the client may fold: a snapshot that was published, or a marker that
\* promotes the copy only to what was published.
EntryOK(x) ==
  /\ x.lt # 0
  /\ Full(x) => [lt |-> x.lt, nodes |-> x.nodes] \in published
  /\ ~Full(x) /\ view.lt = x.lt /\ view.v = x.v => x.lt \in broken \/ [lt |-> x.lt, nodes |-> OpenNodes(view)] \in published

\* m is nothing the server did not close, unless its LT is broken.
Vouched(m) == m.lt \in broken \/ m \in published

LEMMA OneEntry ==
  ASSUME NEW st \in ClientState, NEW x \in Committed, EntryOK(x),
         NoCopy(st.view) \/ SameCopy(st.view, view), \A m \in st.final : Vouched(m)
  PROVE  /\ ApplyCommitted(st, x) \in ClientState /\ ApplyCommitted(st, x).view.closed = st.view.closed
         /\ NoCopy(ApplyCommitted(st, x).view) \/ SameCopy(ApplyCommitted(st, x).view, view)
         /\ \A m \in ApplyCommitted(st, x).final : Vouched(m)
<1>1. PICK t : t = ApplyCommitted(st, x)
  OBVIOUS
<1>2. /\ t \in ClientState /\ t.view.closed = st.view.closed
      /\ NoCopy(t.view) \/ SameCopy(t.view, st.view)
      /\ \A m \in t.final :
           \/ m \in st.final
           \/ m.lt = x.lt /\ m.nodes = x.nodes /\ Full(x)
           \/ m.lt = x.lt /\ m.nodes = OpenNodes(st.view) /\ ~Full(x) /\ st.view.lt = x.lt /\ st.view.v = x.v
  BY <1>1, ApplyCommittedType
<1>3. NoCopy(t.view) \/ SameCopy(t.view, view)
  BY <1>2 DEF NoCopy, SameCopy
<1>4. ASSUME NEW m \in t.final PROVE Vouched(m)
  <2>1. m \in Message
    BY <1>2, <1>4 DEF ClientState
  <2>2. m = [lt |-> m.lt, nodes |-> m.nodes]
    BY <2>1 DEF Message
  <2>3. CASE m \in st.final
    BY <2>3
  <2>4. CASE m.lt = x.lt /\ m.nodes = x.nodes /\ Full(x)
    BY <2>2, <2>4 DEF EntryOK, Vouched
  <2>5. CASE m.lt = x.lt /\ m.nodes = OpenNodes(st.view) /\ ~Full(x) /\ st.view.lt = x.lt /\ st.view.v = x.v
    <3>1. SameCopy(st.view, view)
      BY <2>5 DEF EntryOK, NoCopy
    <3>2. view.lt = x.lt /\ view.v = x.v /\ OpenNodes(st.view) = OpenNodes(view)
      BY <2>5, <3>1 DEF SameCopy, OpenNodes
    <3>3. x.lt \in broken \/ [lt |-> x.lt, nodes |-> OpenNodes(view)] \in published
      BY <2>5, <3>2 DEF EntryOK
    <3> QED BY <2>2, <2>5, <3>2, <3>3 DEF Vouched
  <2> QED BY <1>2, <1>4, <2>3, <2>4, <2>5
<1> QED BY <1>1, <1>2, <1>3, <1>4

\* The committed part of a page.
LEMMA FoldAll ==
  ASSUME view \in View, NEW cs \in Seq(Committed), \A i \in 1..Len(cs) : EntryOK(cs[i]), NEW s,
         s = ApplyAll([view |-> view, final |-> {}, desync |-> {}], cs)
  PROVE  /\ s \in ClientState /\ s.view.closed = view.closed
         /\ NoCopy(s.view) \/ SameCopy(s.view, view)
         /\ cs = <<>> => s.view = view
         /\ \A m \in s.final : Vouched(m)
<1>0. PICK n \in Nat : n = Len(cs)
  BY LenProperties
<1>1. PICK st : st = [view |-> view, final |-> {}, desync |-> {}] /\ n = Len(cs)
  BY <1>0
<1>2. st \in ClientState /\ st.view = view /\ st.final = {}
  BY <1>1, FS_EmptySet DEF ClientState
<1>3. PICK G : /\ ApplyAll(st, cs) = G[n] /\ G[0] = st
               /\ \A k \in 0..n : G[k] \in ClientState
               /\ \A k \in 1..n : G[k] = ApplyCommitted(G[k - 1], cs[k])
  BY <1>1, <1>2, AllRun, SMTT(30)
<1> DEFINE T == {k \in 0..n : /\ G[k] \in ClientState /\ G[k].view.closed = view.closed
                              /\ NoCopy(G[k].view) \/ SameCopy(G[k].view, view)
                              /\ \A m \in G[k].final : Vouched(m)}
<1>4. 0 \in T
  BY <1>2, <1>3 DEF SameCopy
<1>5. ASSUME NEW k \in 0..(n - 1), k \in T PROVE k + 1 \in T
  <2>1. k + 1 \in 1..n /\ (k + 1) - 1 = k /\ k + 1 \in 0..n
    BY <1>5
  <2>2. PICK x, y : x = G[k] /\ y = cs[k + 1]
    OBVIOUS
  <2>3. G[k + 1] = ApplyCommitted(x, y) /\ y \in Committed /\ EntryOK(y)
    BY <1>1, <1>3, <2>1, <2>2, ElementOfSeq
  <2>5. x \in ClientState /\ x.view.closed = view.closed /\ \A m \in x.final : Vouched(m)
    BY <1>5, <2>2
  <2>6. NoCopy(x.view) \/ SameCopy(x.view, view)
    BY <1>5, <2>2
  <2>7. PICK t : t = ApplyCommitted(x, y)
    OBVIOUS
  <2>8. /\ t \in ClientState /\ t.view.closed = x.view.closed
        /\ NoCopy(t.view) \/ SameCopy(t.view, view)
        /\ \A m \in t.final : Vouched(m)
    BY <2>3, <2>5, <2>6, <2>7, OneEntry
  <2> QED BY <2>1, <2>3, <2>5, <2>7, <2>8
<1>6. n \in T
  <2>1. \A k \in 0..n : k \in T
    <3> HIDE DEF T
    <3> QED BY <1>4, <1>5, UpTo
  <2> HIDE DEF T
  <2> QED BY <2>1
<1>7. s = G[n]
  BY <1>1, <1>3
<1>8. cs = <<>> => n = 0
  BY <1>1, EmptyText
<1> QED BY <1>2, <1>3, <1>6, <1>7, <1>8

\* A page: what it leaves of the copy before its live part, and what it closes.
LEMMA FoldPage ==
  ASSUME view \in View, NEW f \in GoodPage, \A i \in 1..Len(f.committed) : EntryOK(f.committed[i])
  PROVE  \E y \in View :
           /\ NoCopy(y) \/ SameCopy(y, view)
           /\ f.committed = <<>> => SameCopy(y, view)
           /\ ApplyPage(view, f).view = ApplyLive(y, f.live)
           /\ \A m \in ApplyPage(view, f).view.closed : m \in view.closed \/ Vouched(m)
<1>1. PICK s \in ClientState, y \in View :
           /\ s = ApplyAll([view |-> view, final |-> {}, desync |-> {}], f.committed)
           /\ y.closed \subseteq s.view.closed \cup s.final /\ SameCopy(y, s.view)
           /\ ApplyPage(view, f).view = ApplyLive(y, f.live)
           /\ ApplyPage(view, f).view.closed = y.closed
  BY ApplyPageIs
<1>2. f.committed \in Seq(Committed)
  BY DEF GoodPage
<1>3. /\ s.view.closed = view.closed
      /\ NoCopy(s.view) \/ SameCopy(s.view, view)
      /\ f.committed = <<>> => s.view = view
      /\ \A m \in s.final : Vouched(m)
  BY <1>1, <1>2, FoldAll
<1>4. (NoCopy(y) \/ SameCopy(y, view)) /\ (f.committed = <<>> => SameCopy(y, view))
  BY <1>1, <1>3 DEF NoCopy, SameCopy
<1>5. \A m \in ApplyPage(view, f).view.closed : m \in view.closed \/ Vouched(m)
  BY <1>1, <1>3
<1> QED BY <1>1, <1>4, <1>5

\* The live part of a page.
LEMMA LiveIs ==
  ASSUME NEW y \in View, NEW f \in GoodLive
  PROVE  /\ f.lt = 0 => ApplyLive(y, f) = y
         /\ f.lt # 0 => \E b \in View :
              /\ ApplyLive(y, f) = [ApplyNodes(b, f.nodes) EXCEPT !.v = f.v] /\ ApplyLive(y, f).lt = f.lt
              /\ ApplyLive(y, f).v = f.v /\ ApplyLive(y, f).order = ApplyNodes(b, f.nodes).order
              /\ ApplyLive(y, f).block = ApplyNodes(b, f.nodes).block /\ ApplyLive(y, f) \in View
              /\ y.lt = f.lt => b = y
              /\ y.lt # f.lt => b.order = <<>> /\ b.block = NoBlocks
<1>1. f.lt \in LTs /\ f.v \in Nat /\ f.nodes \in Seq(NodeDelta)
  BY DEF GoodLive, GoodDeltas
<1>2. CASE f.lt = 0
  BY <1>2 DEF ApplyLive
<1>3. CASE f.lt # 0
  <2>1. PICK x : x = ResetOpen(y)
    OBVIOUS
  <2>2. x \in View /\ x.order = <<>> /\ x.block = NoBlocks
    BY <2>1, ResetOpenType DEF NoCopy
  <2>3. PICK b : b = IF y.lt = f.lt THEN y ELSE [x EXCEPT !.lt = f.lt]
    OBVIOUS
  <2>5. b \in View /\ b.lt = f.lt
    BY <1>1, <2>2, <2>3 DEF View
  <2>6. (y.lt = f.lt => b = y) /\ (y.lt # f.lt => b.order = <<>> /\ b.block = NoBlocks)
    BY <2>2, <2>3 DEF View
  <2>7. PICK a : a = ApplyNodes(b, f.nodes)
    OBVIOUS
  <2>8. a \in View /\ a.lt = f.lt
    BY <1>1, <2>5, <2>7, ApplyNodesType
  <2>9. ApplyLive(y, f) = [a EXCEPT !.v = f.v]
    BY <1>3, <2>1, <2>3, <2>7 DEF ApplyLive
  <2>10. PICK z : z = [a EXCEPT !.v = f.v]
    OBVIOUS
  <2>11. z.lt = f.lt /\ z.v = f.v /\ z.order = a.order /\ z.block = a.block /\ z \in View
    BY <1>1, <2>8, <2>10 DEF View
  <2>12. /\ ApplyLive(y, f) = [ApplyNodes(b, f.nodes) EXCEPT !.v = f.v] /\ ApplyLive(y, f).lt = f.lt
         /\ ApplyLive(y, f).v = f.v /\ ApplyLive(y, f).order = ApplyNodes(b, f.nodes).order
         /\ ApplyLive(y, f).block = ApplyNodes(b, f.nodes).block /\ ApplyLive(y, f) \in View
    BY <2>7, <2>9, <2>10, <2>11
  <2> QED BY <1>3, <2>5, <2>6, <2>12
<1> QED BY <1>2, <1>3

\* A copy with order <<>> has no nodes, one that is exact has those of the unit.
LEMMA ClosingIs ==
  ASSUME NEW w \in View, NEW c, Contents(c),
         c = <<>> => w.order = <<>>,
         c # <<>> => CopyOK(w, c, Len(c)) /\ w.v + 1 = Len(c)
  PROVE  OpenNodes(w) = Closing(c)
<1>1. /\ OpenNodes(w) \in Seq(Seq(Bytes)) /\ Len(OpenNodes(w)) = Len(w.order)
      /\ \A i \in 1..Len(w.order) : OpenNodes(w)[i] = w.block[w.order[i]]
  BY OpenNodesType
<1>2. CASE c = <<>>
  <2>1. Len(OpenNodes(w)) = 0
    BY <1>1, <1>2, EmptyText
  <2>2. OpenNodes(w) = <<>>
    BY <1>1, <2>1, EmptySeq
  <2> QED BY <1>2, <2>2 DEF Closing
<1>3. CASE c # <<>>
  <2>1. PICK n \in Nat : n = Len(c) /\ n # 0
    BY <1>3, EmptySeq DEF Contents
  <2>2. n \in 1..n /\ Old(c, n) = c[n] /\ (IF n < Len(c) THEN n + 1 ELSE n) = n
    BY <2>1 DEF Old
  <2>3. PICK m \in Nat, ns \in Seq(Texts) : ns = c[n] /\ m = Len(ns)
    BY <2>1, <2>2, ContentIs
  <2>4. PICK l \in Nat : l = Len(w.order)
    BY LenProperties DEF View
  <2>5. /\ l <= m /\ (\A i \in 1..l : w.order[i] = i)
        /\ m <= l /\ \A i \in 1..m : w.block[i] = ns[i]
    <3>1. CopyOK(w, c, n) /\ w.v + 1 = n
      BY <1>3, <2>1
    <3>2. NodesOK(w, c, n) /\ Len(Old(c, n)) <= Len(w.order) /\ \A i \in 1..Len(Old(c, n)) : w.block[i] = Old(c, n)[i]
      BY <3>1 DEF CopyOK
    <3>3. Len(w.order) <= Len(c[n]) /\ \A i \in 1..Len(w.order) : w.order[i] = i
      BY <2>2, <3>2 DEF NodesOK
    <3> QED BY <2>2, <2>3, <2>4, <3>2, <3>3
  <2>6. l = m
    BY <2>5
  <2>7. ASSUME NEW i \in 1..m PROVE OpenNodes(w)[i] = ns[i]
    <3>1. w.order[i] = i /\ w.block[i] = ns[i]
      BY <2>5, <2>6, <2>7
    <3>2. OpenNodes(w)[i] = w.block[w.order[i]]
      BY <1>1, <2>4, <2>6, <2>7
    <3> QED BY <3>1, <3>2
  <2>8. ns \in Seq(Seq(Bytes))
    BY TextsAre
  <2>9. OpenNodes(w) = ns
    BY <1>1, <2>3, <2>4, <2>6, <2>7, <2>8, SeqEqual
  <2> QED BY <1>3, <2>1, <2>3, <2>9 DEF Closing
<1> QED BY <1>2, <1>3

\* The entries of an answer may be folded.
LEMMA ToldEntries ==
  ASSUME Types, Copies, NEW cs \in Seq(Committed), Told(cs, published)
  PROVE  \A i \in 1..Len(cs) : EntryOK(cs[i])
<1> TAKE i \in 1..Len(cs)
<1>1. PICK x \in Committed : x = cs[i]
  BY ElementOfSeq
<1>2. PICK m : m = [lt |-> x.lt, nodes |-> x.nodes]
  OBVIOUS
<1>3. m \in published /\ m.lt = x.lt
  BY <1>1, <1>2 DEF Told
<1>4. x.lt # 0 /\ x.lt \in LTs
  BY <1>1, <1>3 DEF Copies, PagesOK, Committed
<1>5. ASSUME ~Full(x), view.lt = x.lt, x.lt \notin broken PROVE [lt |-> x.lt, nodes |-> OpenNodes(view)] \in published
  <2>1. PICK c, e : UnitOK(x.lt, c, e)
    BY <1>4, <1>5 DEF Copies, Explained
  <2>2. x.nodes = <<>>
    BY <1>5 DEF Full
  <2>3. c = <<>> /\ view.order = <<>> /\ Contents(c)
    BY <1>2, <1>3, <1>5, <2>1, <2>2 DEF UnitOK, ServerOK, ViewOK
  <2>4. view \in View
    BY DEF Types, ClientTypes
  <2>5. OpenNodes(view) = Closing(c)
    BY <2>3, <2>4, ClosingIs
  <2>6. OpenNodes(view) = <<>>
    BY <2>3, <2>5 DEF Closing
  <2> QED BY <1>2, <1>3, <2>2, <2>6
<1>6. EntryOK(x)
  BY <1>2, <1>3, <1>4, <1>5 DEF EntryOK
<1> QED BY <1>1, <1>6

\* So may those of a push that is received: the copy has everything when the
\* marker arrives and finds it at the last version.
LEMMA PushEntries ==
  ASSUME Types, Copies, wire # <<>>, Head(wire).reader = {}
  PROVE  \A i \in 1..Len(Head(wire).page.committed) : EntryOK(Head(wire).page.committed[i])
<1>1. wire \in Seq(Item) /\ pending \in Seq(GoodPage) /\ view \in View
  BY DEF Types, ChannelTypes, ClientTypes
<1>2. PICK y, q, t : y = Head(wire) /\ q = Line /\ t = LineOf(Tail(wire), pending)
  OBVIOUS
<1>3. Behind(t, q) /\ q[1] = y /\ 1 \in 1..Len(q)
  BY <1>1, <1>2, LineTail, BehindHead DEF Line, Behind
<1>4. PushOK(y.page, published)
  BY <1>2, <1>3 DEF Copies, PagesOK, PageOK
<1>5. y \in Item
  BY <1>1, <1>2, HeadTailProperties
<1>6. ASSUME NEW i \in 1..Len(y.page.committed) PROVE EntryOK(y.page.committed[i])
  <2>1. y.page.committed \in Seq(Committed)
    BY <1>5 DEF Item, GoodPage
  <2>2. PICK x \in Committed : x = y.page.committed[i]
    BY <1>6, <2>1, ElementOfSeq
  <2>3. x.lt # 0 /\ x.lt \in LTs /\ (Full(x) => [lt |-> x.lt, nodes |-> x.nodes] \in published)
    BY <1>4, <1>6, <2>2 DEF PushOK, Committed
  <2>4. ASSUME ~Full(x), view.lt = x.lt, view.v = x.v, x.lt \notin broken PROVE [lt |-> x.lt, nodes |-> OpenNodes(view)] \in published
    <3>1. PICK c, e : UnitOK(x.lt, c, e)
      BY <2>3, <2>4 DEF Copies, Explained
    <3>2. Marks(y, x.lt)
      BY <1>2, <1>6, <2>2, <2>4 DEF Marks
    <3>3. /\ Contents(c) /\ e \in 0..Len(c) /\ LineOK(q, x.lt, c, e) /\ ServerOK(open, published, q, x.lt, c)
          /\ ViewOK(view, Alive(open, q, x.lt), x.lt, c, e)
      BY <1>2, <3>1 DEF UnitOK
    <3>4. Len(c) \in Nat
      BY <3>3, LenProperties DEF Contents
    <3>5. y.page.committed # <<>>
      <4>1. Len(y.page.committed) # 0
        BY <1>6
      <4> QED BY <4>1, EmptyText
    <3>6. ~Framed(y, x.lt)
      <4>1. y.page.live = NoLive
        BY <1>4, <3>5 DEF PushOK
      <4> QED BY <2>3, <4>1 DEF Framed, NoLive
    <3>7. e = Len(c)
      BY <1>3, <3>2, <3>3, <3>4, <3>6, CaughtUp
    <3>8. Alive(open, q, x.lt)
      BY <1>3, <3>2 DEF Alive
    <3>9. x.v = IF c = <<>> THEN 0 ELSE Len(c) - 1
      BY <1>3, <1>6, <2>2, <3>2, <3>3 DEF LineOK, ItemOK
    <3>10. (c = <<>> => view.order = <<>>) /\ (c # <<>> => CopyOK(view, c, Len(c)) /\ view.v + 1 = Len(c))
      BY <2>4, <3>3, <3>4, <3>7, <3>8, <3>9 DEF ViewOK
    <3>11. OpenNodes(view) = Closing(c)
      BY <1>1, <3>3, <3>10, ClosingIs
    <3>12. [lt |-> x.lt, nodes |-> Closing(c)] \in published
      BY <1>3, <3>2, <3>3 DEF ServerOK
    <3> QED BY <3>11, <3>12
  <2>5. EntryOK(x)
    BY <2>3, <2>4 DEF EntryOK
  <2> QED BY <2>2, <2>5
<1> QED BY <1>2, <1>6

\* A fold frees readers and may start one; the others go on.
LEMMA FoldReads ==
  ASSUME NEW f, NEW isAnswer, NEW from, Fold(f, isAnswer, from), reads \in [Readers -> GoodQuery]
  PROVE  /\ \A r \in Readers : reads'[r] = reads[r] \/ (reads'[r].page = NoPage /\ reads'[r].have = <<>>)
         /\ \A r \in from \cap Readers : reads'[r].page = NoPage /\ reads'[r].have = <<>>
<1>1. PICK freed : freed = [r \in Readers |-> IF r \in from THEN Through(r) ELSE reads[r]]
  OBVIOUS
<1>2. \/ reads' = freed
      \/ \E r \in Healers : \E lt : freed[r] = Idle /\ reads' = [freed EXCEPT ![r] = Ask(lt)]
  BY <1>1 DEF Fold
<1>3. \A r : Through(r).page = NoPage /\ Through(r).have = <<>>
  BY DEF Through, Idle
<1>4. \A lt : Ask(lt).page = NoPage /\ Ask(lt).have = <<>>
  BY DEF Ask, Idle
<1>5. \A r \in Readers : reads'[r] = freed[r] \/ (reads'[r].page = NoPage /\ reads'[r].have = <<>>)
  <2>1. CASE reads' = freed
    BY <2>1
  <2>2. CASE \E r \in Healers : \E lt : freed[r] = Idle /\ reads' = [freed EXCEPT ![r] = Ask(lt)]
    <3>0. PICK a \in Healers : \E lt : reads' = [freed EXCEPT ![a] = Ask(lt)]
      BY <2>2
    <3>1. PICK lt : reads' = [freed EXCEPT ![a] = Ask(lt)]
      BY <3>0
    <3>2. \A r \in Readers : reads'[r] = IF r = a THEN Ask(lt) ELSE freed[r]
      BY <1>1, <3>1
    <3> QED BY <1>4, <3>2
  <2> QED BY <1>2, <2>1, <2>2
<1>6. \A r \in Readers : freed[r] = IF r \in from THEN Through(r) ELSE reads[r]
  BY <1>1
<1> QED BY <1>3, <1>5, <1>6

LEMMA FoldedReads ==
  ASSUME \A r \in Readers : reads'[r] = reads[r] \/ reads'[r].page = NoPage, pending' = pending,
         NEW lt \in LTs \ {0}, NEW c, NEW e \in Nat, NEW d \in Nat, e <= d, ReadsOK(reads, pending, lt, c, e)
  PROVE  ReadsOK(reads', pending', lt, c, d)
<1>2. NoPage.live.lt # lt
  BY DEF NoPage, Frame, NoLive
<1>3. \A r \in Readers : reads'[r].page.live.lt = lt => reads'[r] = reads[r]
  BY <1>2
<1>4. ASSUME NEW r \in Readers, reads[r].page.live.lt = lt, reads[r].stage = "got" PROVE reads[r].page.live.v <= d
  <2>1. reads[r].page.live.v <= e /\ SnapOf(reads[r].page.live, c)
    BY <1>4 DEF ReadsOK
  <2>2. reads[r].page.live.v \in Nat
    BY <2>1 DEF SnapOf
  <2> QED BY <2>1, <2>2
<1> QED BY <1>3, <1>4 DEF ReadsOK

\* A copy without nodes.
LEMMA EmptyCopy ==
  ASSUME NEW w \in View, w.order = <<>>, w.block = NoBlocks
  PROVE  /\ Counted(w, 0) /\ \A i \in 1..MaxNodes : w.block[i] = <<>>
         /\ \A c, e : Contents(c) /\ c # <<>> /\ e \in 0..Len(c) => NodesOK(w, c, e)
<1>1. Len(w.order) = 0 /\ \A i \in 1..MaxNodes : w.block[i] = <<>>
  BY NoBlocksType, EmptyText
<1>2. Counted(w, 0)
  BY <1>1 DEF Counted
<1>3. ASSUME NEW c, NEW e, Contents(c), c # <<>>, e \in 0..Len(c) PROVE NodesOK(w, c, e)
  <2>1. PICK n \in Nat : n = Len(c) /\ n # 0
    BY <1>3, EmptySeq DEF Contents
  <2>2. PICK t \in 1..n : t = IF e < n THEN e + 1 ELSE e
    BY <1>3, <2>1
  <2>3. Len(c[t]) \in Nat
    BY <1>3, <2>1, <2>2, ContentIs
  <2>4. 0 <= Len(c[t]) /\ \A i \in 1..0 : FALSE
    BY <2>3
  <2> QED BY <1>1, <2>1, <2>2, <2>4 DEF NodesOK
<1> QED BY <1>1, <1>2, <1>3

\* A frame that continues the copy makes it exact.
LEMMA FrameCopy ==
  ASSUME NEW b \in View, NEW c, Contents(c), NEW e \in Nat, e < Len(c), NEW ds \in Seq(NodeDelta),
         Makes(ds, Old(c, e), c[e + 1]),
         \/ CopyOK(b, c, e) /\ b.v + 1 = e
         \/ e = 0 /\ b.order = <<>> /\ b.block = NoBlocks
  PROVE  Exact(ApplyNodes(b, ds), c[e + 1])
<1>1. PICK n \in Nat : n = Len(c)
  BY LenProperties DEF Contents
<1>2. e + 1 \in 1..n /\ (e # 0 => e \in 1..n)
  BY <1>1
<1>3. PICK new \in Seq(Texts), m \in Nat : new = c[e + 1] /\ m = Len(new) /\ m <= MaxNodes
  BY <1>1, <1>2, ContentIs
<1>4. PICK old \in Seq(Texts), o \in Nat : old = Old(c, e) /\ o = Len(old) /\ (e = 0 => o = 0)
  <2>1. CASE e = 0
    <3>1. Old(c, e) = <<>> /\ <<>> \in Seq(Texts) /\ Len(<<>>) = 0
      BY <2>1, EmptySeq DEF Old
    <3> QED BY <3>1
  <2>2. CASE e # 0
    <3>1. Old(c, e) \in Seq(Texts) /\ Len(Old(c, e)) \in Nat
      BY <1>1, <1>2, <2>2, ContentIs DEF Old
    <3> QED BY <2>2, <3>1
  <2> QED BY <2>1, <2>2
<1>5. \E l \in Nat : /\ Counted(b, l) /\ o <= l /\ l <= m
                     /\ \A i \in 1..MaxNodes : b.block[i] = IF i <= o THEN old[i] ELSE IF i <= l THEN new[i] ELSE <<>>
  <2>1. CASE CopyOK(b, c, e) /\ b.v + 1 = e
    <3>1. PICK l \in Nat : l = Len(b.order)
      BY LenProperties DEF View
    <3>2. (IF e < Len(c) THEN e + 1 ELSE e) = e + 1
      OBVIOUS
    <3>3. /\ l <= m /\ \A i \in 1..l : b.order[i] = i
          /\ \A i \in 1..MaxNodes : i > l => b.block[i] = <<>>
          /\ \A i \in 1..l : i > o => b.block[i] = new[i]
      BY <1>3, <1>4, <2>1, <3>1, <3>2 DEF CopyOK, NodesOK
    <3>4. o <= l /\ \A i \in 1..o : b.block[i] = old[i]
      BY <1>4, <2>1, <3>1 DEF CopyOK
    <3>5. Counted(b, l)
      BY <3>1, <3>3 DEF Counted
    <3>6. ASSUME NEW i \in 1..MaxNodes PROVE b.block[i] = IF i <= o THEN old[i] ELSE IF i <= l THEN new[i] ELSE <<>>
      <4>1. CASE i <= o
        <5>1. i \in 1..o
          BY <3>6, <4>1
        <5> QED BY <3>4, <4>1, <5>1
      <4>2. CASE ~(i <= o) /\ i <= l
        <5>1. i \in 1..l /\ i > o
          BY <3>6, <4>2
        <5> QED BY <3>3, <4>2, <5>1
      <4>3. CASE ~(i <= o) /\ ~(i <= l)
        <5>1. i > l
          BY <3>6, <4>3
        <5> QED BY <3>3, <3>6, <4>3, <5>1
      <4> QED BY <4>1, <4>2, <4>3
    <3> QED BY <3>3, <3>4, <3>5, <3>6
  <2>2. CASE e = 0 /\ b.order = <<>> /\ b.block = NoBlocks
    <3>1. Counted(b, 0) /\ \A i \in 1..MaxNodes : b.block[i] = <<>>
      BY <2>2, EmptyCopy
    <3>2. \A i \in 1..MaxNodes : ~(i <= o) /\ ~(i <= 0)
      BY <1>4, <2>2
    <3>3. o <= 0 /\ 0 <= m /\ 0 \in Nat
      BY <1>3, <1>4, <2>2
    <3> QED BY <3>1, <3>2, <3>3
  <2> QED BY <2>1, <2>2
<1>6. PICK l \in Nat : /\ Counted(b, l) /\ o <= l /\ l <= m
                       /\ \A i \in 1..MaxNodes : b.block[i] = IF i <= o THEN old[i] ELSE IF i <= l THEN new[i] ELSE <<>>
  BY <1>5
<1>7. Makes(ds, old, new)
  BY <1>3, <1>4
<1>8. Exact(ApplyNodes(b, ds), new)
  BY <1>3, <1>4, <1>6, <1>7, FrameFolds
<1> QED BY <1>3, <1>8

\* No deltas change nothing.
LEMMA NoDeltas ==
  ASSUME NEW b \in View
  PROVE  ApplyNodes(b, <<>>) = b
<1>1. PICK ds \in Seq(NodeDelta) : ds = <<>> /\ Len(ds) = 0
  BY EmptySeq
<1>2. PICK G : ApplyNodes(b, ds) = G[Len(ds)] /\ G[0] = b
  BY NodesRun
<1> QED BY <1>1, <1>2

LEMMA ReceiveFrameUnits ==
  ASSUME Types, Types', Copies, ReceiveFrame, NEW lt \in LTs \ {0}, lt \notin broken', NEW c, NEW e, UnitOK(lt, c, e)
  PROVE  \E d, f : UnitOK(lt, d, f)'
<1>1. PICK x, f, L : x = Head(wire) /\ f = x.page /\ L = f.live
  OBVIOUS
<1>2. /\ wire # <<>> /\ x.reader = {} /\ wire' = Tail(wire) /\ Fold(f, FALSE, {})
      /\ UNCHANGED <<open, published, opened, pending>>
  BY <1>1 DEF ReceiveFrame, server
<1>3. /\ reads \in [Readers -> GoodQuery] /\ wire \in Seq(Item) /\ pending \in Seq(GoodPage) /\ view \in View
      /\ view' \in View
  BY DEF Types, ChannelTypes, ClientTypes
<1>4. x \in Item /\ f \in GoodPage /\ L \in GoodLive /\ L.nodes \in Seq(NodeDelta)
  <2>1. x \in Item
    BY <1>1, <1>2, <1>3, HeadTailProperties
  <2> QED BY <1>1, <2>1 DEF Item, GoodPage, GoodLive, GoodDeltas
<1>5. PICK q, t : q = Line /\ t = Line'
  OBVIOUS
<1>6. Behind(t, q) /\ q[1] = x /\ 1 \in 1..Len(q)
  BY <1>1, <1>2, <1>3, <1>5, LineTail, BehindHead DEF Line, Behind
<1>7. PushOK(f, published)
  BY <1>1, <1>2, <1>5, <1>6 DEF Copies, PagesOK, PageOK
<1>8. /\ lt \notin Range(opened) => c = <<>>
      /\ Contents(c) /\ e \in 0..Len(c) /\ LineOK(q, lt, c, e) /\ ServerOK(open, published, q, lt, c)
      /\ ReadsOK(reads, pending, lt, c, e) /\ ViewOK(view, Alive(open, q, lt), lt, c, e)
  BY <1>5 DEF UnitOK
<1>9. PICK n \in Nat : n = Len(c) /\ e \in Nat /\ e <= n
  BY <1>8, LenProperties DEF Contents
<1>10. PICK y \in View :
         /\ NoCopy(y) \/ SameCopy(y, view)
         /\ f.committed = <<>> => SameCopy(y, view)
         /\ view' = ApplyLive(y, L)
  <2>1. \A i \in 1..Len(f.committed) : EntryOK(f.committed[i])
    BY <1>1, <1>2, PushEntries
  <2>2. view' = ApplyPage(view, f).view
    BY <1>2 DEF Fold
  <2> QED BY <1>1, <1>3, <1>4, <2>1, <2>2, FoldPage
<1>11. \A k \in 1..Len(t) : \E j \in 1..Len(q) : t[k] = q[j] /\ 1 < j
  BY <1>6, BehindHead
<1>12. ServerOK(open', published', t, lt, c)
  <2>1. (\E k \in 1..Len(t) : Marks(t[k], lt)) => \E k \in 1..Len(q) : Marks(q[k], lt)
    BY <1>11
  <2>2. (\E k \in 1..Len(t) : Blank(t[k], lt)) => \E k \in 1..Len(q) : Blank(q[k], lt)
    BY <1>11
  <2> QED BY <1>2, <1>8, <2>1, <2>2 DEF ServerOK
<1>13. Alive(open', t, lt) => Alive(open, q, lt)
  BY <1>2, <1>11 DEF Alive
<1>14. CASE ~Framed(x, lt)
  <2>1. LineOK(t, lt, c, e)
    BY <1>6, <1>8, <1>14, LineBehind
  <2>2. ReadsOK(reads', pending', lt, c, e)
    <3>1. \A r \in Readers : reads'[r] = reads[r] \/ reads'[r].page = NoPage
      BY <1>2, <1>3, FoldReads
    <3>2. e \in Nat /\ e <= e
      BY <1>9
    <3> QED BY <1>2, <1>8, <3>1, <3>2, FoldedReads
  <2>3. ASSUME L.lt = 0 PROVE ViewOK(view', Alive(open', t, lt), lt, c, e)
    <3>1. view' = y
      BY <1>4, <1>10, <2>3, LiveIs
    <3>2. view'.lt = lt => SameCopy(view', view)
      BY <1>10, <3>1 DEF NoCopy
    <3>3. SameCopy(view', view) => (CopyOK(view, c, e) => CopyOK(view', c, e)) /\ view'.lt = view.lt /\ view'.order = view.order /\ view'.block = view.block
      BY DEF SameCopy, CopyOK, NodesOK
    <3> QED BY <1>8, <1>13, <3>2, <3>3 DEF ViewOK
  <2>4. ASSUME L.lt # 0, L.lt # lt PROVE ViewOK(view', Alive(open', t, lt), lt, c, e)
    <3>1. view'.lt = L.lt
      BY <1>4, <1>10, <2>4, LiveIs
    <3> QED BY <2>4, <3>1 DEF ViewOK
  <2>5. ASSUME L.lt = lt PROVE ViewOK(view', Alive(open', t, lt), lt, c, e)
    <3>1. L.nodes = <<>> /\ Blank(x, lt)
      BY <1>1, <1>2, <1>14, <2>5 DEF Framed, Blank
    <3>2. ~Alive(open', t, lt)
      <4>1. open.lt # lt
        BY <1>6, <1>8, <3>1 DEF ServerOK
      <4>2. \A j \in 1..Len(q) : 1 < j => ~Marks(q[j], lt)
        BY <1>6, <1>8, <3>1 DEF LineOK, InOrder
      <4> QED BY <1>2, <1>11, <4>1, <4>2 DEF Alive
    <3>3. PICK b \in View : /\ view'.order = ApplyNodes(b, L.nodes).order /\ view'.block = ApplyNodes(b, L.nodes).block
                            /\ y.lt = L.lt => b = y
                            /\ y.lt # L.lt => b.order = <<>> /\ b.block = NoBlocks
      <4>1. L.lt # 0
        BY <2>5
      <4> QED BY <1>4, <1>10, <4>1, LiveIs
    <3>4. view'.order = b.order /\ view'.block = b.block
      BY <3>1, <3>3, NoDeltas
    <3>5. c = <<>> => view'.order = <<>> /\ view'.block = NoBlocks
      <4>1. CASE y.lt = lt
        <5>1. b = y /\ SameCopy(y, view) /\ view.lt = lt
          BY <1>10, <2>5, <3>3, <4>1 DEF NoCopy, SameCopy
        <5> QED BY <1>8, <3>4, <5>1 DEF ViewOK, SameCopy
      <4>2. CASE y.lt # lt
        BY <2>5, <3>3, <3>4, <4>2
      <4> QED BY <4>1, <4>2
    <3> QED BY <3>2, <3>5 DEF ViewOK
  <2>6. ViewOK(view', Alive(open', t, lt), lt, c, e)
    BY <2>3, <2>4, <2>5
  <2>7. lt \notin Range(opened') => c = <<>>
    BY <1>2, <1>8
  <2>8. UnitOK(lt, c, e)'
    BY <1>5, <1>8, <1>12, <2>1, <2>2, <2>6, <2>7, UnitIs
  <2> QED BY <2>8
<1>15. CASE Framed(x, lt)
  <2>1. L.lt = lt /\ Ver(x) = L.v
    BY <1>1, <1>15 DEF Framed, Ver
  <2>2. Ver(x) = e /\ e < n /\ LineOK(t, lt, c, e + 1)
    BY <1>6, <1>8, <1>9, <1>15, LineHead DEF Behind
  <2>3. ReadsOK(reads', pending', lt, c, e + 1)
    <3>1. \A r \in Readers : reads'[r] = reads[r] \/ reads'[r].page = NoPage
      BY <1>2, <1>3, FoldReads
    <3>2. PICK d \in Nat : d = e + 1 /\ e <= d
      BY <1>9
    <3>3. ReadsOK(reads', pending', lt, c, d)
      BY <1>2, <1>8, <1>9, <3>1, <3>2, FoldedReads
    <3> QED BY <3>2, <3>3
  <2>4. SameCopy(y, view)
    <3>1. L # NoLive
      BY <2>1 DEF NoLive
    <3> QED BY <1>1, <1>7, <1>10, <3>1 DEF PushOK
  <2>5. L.v = IF view.lt = lt THEN view.v + 1 ELSE 0
    <3>1. ~OutOfSequence(L, FALSE)
      BY <1>1, <1>2, <2>1 DEF Fold
    <3> QED BY <2>1, <3>1 DEF OutOfSequence
  <2>6. Makes(L.nodes, Old(c, e), c[e + 1])
    BY <1>1, <1>6, <1>8, <1>15, <2>2 DEF LineOK, ItemOK
  <2>7. c # <<>>
    BY <1>9, <2>2, EmptyText
  <2>8. PICK b \in View : /\ view'.order = ApplyNodes(b, L.nodes).order /\ view'.block = ApplyNodes(b, L.nodes).block
                          /\ y.lt = L.lt => b = y
                          /\ y.lt # L.lt => b.order = <<>> /\ b.block = NoBlocks
    <3>1. L.lt # 0
      BY <2>1
    <3> QED BY <1>4, <1>10, <3>1, LiveIs
  <2>9. ASSUME Alive(open', t, lt) PROVE CopyOK(view', c, e + 1)
    <3>1. \/ CopyOK(b, c, e) /\ b.v + 1 = e
          \/ e = 0 /\ b.order = <<>> /\ b.block = NoBlocks
      <4>1. CASE view.lt = lt
        <5>1. b = y /\ view.v + 1 = e /\ CopyOK(view, c, e)
          BY <1>8, <1>13, <2>1, <2>2, <2>4, <2>5, <2>7, <2>8, <2>9, <4>1 DEF SameCopy, ViewOK
        <5>2. b.v + 1 = e /\ CopyOK(b, c, e)
          BY <2>4, <5>1 DEF SameCopy, CopyOK, NodesOK
        <5> QED BY <5>2
      <4>2. CASE view.lt # lt
        BY <2>1, <2>2, <2>4, <2>5, <2>8, <4>2 DEF SameCopy
      <4> QED BY <4>1, <4>2
    <3>2. Exact(ApplyNodes(b, L.nodes), c[e + 1])
      BY <1>4, <1>8, <1>9, <2>2, <2>6, <3>1, FrameCopy
    <3>3. Exact(view', c[e + 1])
      BY <2>8, <3>2 DEF Exact, Counted
    <3>4. e + 1 \in 1..Len(c)
      BY <1>9, <2>2
    <3> QED BY <1>3, <1>8, <3>3, <3>4, ExactCopy
  <2>10. ViewOK(view', Alive(open', t, lt), lt, c, e + 1)
    BY <2>7, <2>9 DEF ViewOK
  <2>11. (lt \notin Range(opened') => c = <<>>) /\ e + 1 \in 0..Len(c)
    BY <1>2, <1>8, <1>9, <2>2
  <2>12. UnitOK(lt, c, e + 1)'
    BY <1>5, <1>8, <1>12, <2>2, <2>3, <2>10, <2>11, UnitIs
  <2> QED BY <2>12
<1> QED BY <1>14, <1>15

LEMMA ApplyAnswerUnits ==
  ASSUME Types, Types', Copies, NEW a \in Readers, ApplyAnswer(a), NEW lt \in LTs \ {0}, lt \notin broken', NEW c, NEW e, UnitOK(lt, c, e)
  PROVE  \E d, f : UnitOK(lt, d, f)'
<1>1. PICK f, L : f = reads[a].page /\ L = f.live
  OBVIOUS
<1>2. /\ reads[a].stage = "got" /\ Fold(f, TRUE, {a})
      /\ UNCHANGED <<open, published, opened, pending, wire>>
  BY <1>1 DEF ApplyAnswer, server
<1>3. /\ reads \in [Readers -> GoodQuery] /\ view \in View /\ view' \in View
  BY DEF Types, ChannelTypes, ClientTypes
<1>4. f \in GoodPage /\ L \in GoodLive /\ f.committed \in Seq(Committed)
  BY <1>1, <1>3 DEF GoodPage, GoodQuery
<1>5. PICK q : q = Line /\ q = Line'
  BY <1>2 DEF Line
<1>6. /\ lt \notin Range(opened) => c = <<>>
      /\ Contents(c) /\ e \in 0..Len(c) /\ LineOK(q, lt, c, e) /\ ServerOK(open, published, q, lt, c)
      /\ ReadsOK(reads, pending, lt, c, e) /\ ViewOK(view, Alive(open, q, lt), lt, c, e)
  BY <1>5 DEF UnitOK
<1>7. e \in Nat
  BY <1>6
<1>8. PICK y \in View : (NoCopy(y) \/ SameCopy(y, view)) /\ view' = ApplyLive(y, L)
  <2>1. Told(f.committed, published)
    BY <1>1 DEF Copies, PagesOK, QueryOK
  <2>2. \A i \in 1..Len(f.committed) : EntryOK(f.committed[i])
    BY <1>4, <2>1, ToldEntries
  <2>3. view' = ApplyPage(view, f).view
    BY <1>2 DEF Fold
  <2> QED BY <1>1, <1>3, <1>4, <2>2, <2>3, FoldPage
<1>9. ReadsOK(reads', pending', lt, c, e)
  <2>1. \A r \in Readers : reads'[r] = reads[r] \/ reads'[r].page = NoPage
    BY <1>2, <1>3, FoldReads
  <2>2. e <= e
    BY <1>7
  <2> QED BY <1>2, <1>6, <1>7, <2>1, <2>2, FoldedReads
<1>10. ServerOK(open', published', q, lt, c) /\ Alive(open', q, lt) = Alive(open, q, lt)
  BY <1>2, <1>6
<1>11. CASE L.lt = 0
  <2>1. view' = y
    BY <1>4, <1>8, <1>11, LiveIs
  <2>2. view'.lt = lt => SameCopy(view', view)
    BY <1>8, <2>1 DEF NoCopy
  <2>3. SameCopy(view', view) => (CopyOK(view, c, e) => CopyOK(view', c, e)) /\ view'.lt = view.lt /\ view'.order = view.order /\ view'.block = view.block
    BY DEF SameCopy, CopyOK, NodesOK
  <2> QED BY <1>5, <1>2, <1>6, <1>9, <1>10, <2>2, <2>3, UnitIs DEF ViewOK
<1>12. CASE L.lt # 0 /\ L.lt # lt
  <2>1. view'.lt = L.lt
    BY <1>4, <1>8, <1>12, LiveIs
  <2>2. ViewOK(view', Alive(open', q, lt), lt, c, e)
    BY <1>12, <2>1 DEF ViewOK
  <2> QED BY <1>2, <1>5, <1>6, <1>9, <1>10, <2>2, UnitIs
<1>13. CASE L.lt = lt
  <2>1. SnapOf(L, c) /\ L.v <= e
    BY <1>1, <1>2, <1>6, <1>13 DEF ReadsOK
  <2>2. c # <<>>
    BY <2>1, EmptyText DEF SnapOf
  <2>3. PICK b \in View : /\ view' = [ApplyNodes(b, L.nodes) EXCEPT !.v = L.v]
                          /\ y.lt = L.lt => b = y
                          /\ y.lt # L.lt => b.order = <<>> /\ b.block = NoBlocks
    <3>1. L.lt # 0
      BY <1>13
    <3> QED BY <1>4, <1>8, <3>1, LiveIs
  <2>4. view.lt = lt => \A i \in DOMAIN L.nodes : L.nodes[i].op = "keep" => view.block[L.nodes[i].id] = <<>>
    <3>1. ~OutOfSequence(L, TRUE)
      BY <1>1, <1>2, <1>13 DEF Fold
    <3> QED BY <1>13, <3>1 DEF OutOfSequence
  <2>5. ASSUME Alive(open, q, lt) PROVE CopyOK(view', c, e)
    <3>1. CASE y.lt = lt
      <4>1. SameCopy(y, view) /\ b = y /\ view.lt = lt
        BY <1>8, <1>13, <2>3, <3>1 DEF NoCopy, SameCopy
      <4>2. CopyOK(view, c, e)
        BY <1>6, <2>2, <2>5, <4>1 DEF ViewOK
      <4>3. NodesOK(b, c, e)
        BY <4>1, <4>2 DEF SameCopy, CopyOK, NodesOK
      <4>4. \A i \in DOMAIN L.nodes : L.nodes[i].op = "keep" => b.block[L.nodes[i].id] = <<>>
        BY <2>4, <4>1 DEF SameCopy
      <4> QED BY <1>4, <1>6, <2>1, <2>3, <4>3, <4>4, SnapFolds
    <3>2. CASE y.lt # lt
      <4>1. b.order = <<>> /\ b.block = NoBlocks
        BY <1>13, <2>3, <3>2
      <4>2. NodesOK(b, c, e) /\ \A i \in 1..MaxNodes : b.block[i] = <<>>
        BY <1>6, <2>2, <4>1, EmptyCopy
      <4>3. \A i \in DOMAIN L.nodes : L.nodes[i].id \in 1..MaxNodes
        <5>1. L.nodes \in Seq(NodeDelta)
          BY <1>4 DEF GoodLive, GoodDeltas
        <5>2. \A i \in DOMAIN L.nodes : L.nodes[i] \in NodeDelta
          BY <5>1, ElementOfSeq, LenProperties
        <5> QED BY <5>2 DEF NodeDelta
      <4>4. \A i \in DOMAIN L.nodes : L.nodes[i].op = "keep" => b.block[L.nodes[i].id] = <<>>
        BY <4>2, <4>3
      <4> QED BY <1>4, <1>6, <2>1, <2>3, <4>2, <4>4, SnapFolds
    <3> QED BY <3>1, <3>2
  <2>6. ViewOK(view', Alive(open', q, lt), lt, c, e)
    BY <1>10, <2>2, <2>5 DEF ViewOK
  <2> QED BY <1>2, <1>5, <1>6, <1>9, <1>10, <2>6, UnitIs
<1> QED BY <1>11, <1>12, <1>13

-----------------------------------------------------------------------------
(* The rest of the invariant *)

\* x marks and blanks LTs in S only.
Known(x, S) == \A lt \in LTs \ {0} : lt \notin S => ~Marks(x, lt) /\ ~Blank(x, lt)

\* What was published stays published.
LEMMA ToldStays ==
  ASSUME NEW pub, NEW pub2, pub \subseteq pub2
  PROVE  /\ \A cs : Told(cs, pub) => Told(cs, pub2)
         /\ \A x : PageOK(x, pub) => PageOK(x, pub2)
         /\ \A q : QueryOK(q, pub) => QueryOK(q, pub2)
<1>1. \A cs : Told(cs, pub) => Told(cs, pub2)
  BY DEF Told
<1>2. \A p : PushOK(p, pub) => PushOK(p, pub2)
  BY DEF PushOK
<1>3. \A x : PageOK(x, pub) => PageOK(x, pub2)
  BY <1>1, <1>2 DEF PageOK
<1>4. \A q : QueryOK(q, pub) => QueryOK(q, pub2)
  BY <1>1 DEF QueryOK
<1> QED BY <1>1, <1>3, <1>4

\* Nothing but what a step adds needs looking at.
LEMMA Kept ==
  ASSUME InPlay, PagesOK, published \subseteq published', Range(opened) \subseteq Range(opened'),
         NEW q, NEW t, q = Line, t = Line',
         \A k \in 1..Len(t) : (\E j \in 1..Len(q) : t[k] = q[j]) \/ (PageOK(t[k], published') /\ Known(t[k], Range(opened'))),
         \A r \in Readers : reads'[r] = reads[r] \/ QueryOK(reads'[r], published'),
         \A m \in published' : m \in published \/ (m.lt # 0 /\ (m.nodes = <<>> => m.lt \in Range(opened'))),
         \A i \in 1..Len(history') : history'[i] \in published',
         \A k \in 1..Len(pending') : pending'[k].live.nodes # <<>> => Len(pending') = 1,
         1..(unitLT') \subseteq Range(opened'), open'.lt \in {0} \cup Range(opened')
  PROVE  InPlay' /\ PagesOK'
<1>1. /\ \A k \in 1..Len(q) : PageOK(q[k], published)
      /\ \A r \in Readers : QueryOK(reads[r], published)
      /\ \A m \in published : m.lt # 0
  BY DEF PagesOK
<1>2. /\ \A lt \in LTs \ {0} : lt \notin Range(opened) =>
           /\ \A k \in 1..Len(q) : ~Marks(q[k], lt) /\ ~Blank(q[k], lt)
           /\ [lt |-> lt, nodes |-> <<>>] \notin published
  BY DEF InPlay
<1>3. \A k \in 1..Len(t) : PageOK(t[k], published')
  BY <1>1, ToldStays
<1>4. \A r \in Readers : QueryOK(reads'[r], published')
  BY <1>1, ToldStays
<1>5. ASSUME NEW lt \in LTs \ {0}, lt \notin Range(opened') PROVE \A k \in 1..Len(t) : ~Marks(t[k], lt) /\ ~Blank(t[k], lt)
  BY <1>2, <1>5 DEF Known
<1>6. ASSUME NEW lt \in LTs \ {0}, lt \notin Range(opened') PROVE [lt |-> lt, nodes |-> <<>>] \notin published'
  <2>1. PICK m : m = [lt |-> lt, nodes |-> <<>>]
    OBVIOUS
  <2>2. m.lt = lt /\ m.nodes = <<>>
    BY <2>1
  <2>3. m \notin published
    BY <1>2, <1>6, <2>1
  <2>4. m \notin published'
    BY <1>6, <2>2, <2>3
  <2> QED BY <2>1, <2>4
<1>7. \A m \in published' : m.lt # 0
  BY <1>1
<1>8. PagesOK'
  BY <1>3, <1>4, <1>7 DEF PagesOK
<1>9. InPlay'
  BY <1>5, <1>6 DEF InPlay
<1> QED BY <1>8, <1>9

\* The same for a step that leaves the server alone.
LEMMA KeptElsewhere ==
  ASSUME InPlay, PagesOK, UNCHANGED <<history, open, unitLT, published, opened>>,
         NEW q, NEW t, q = Line, t = Line',
         \A k \in 1..Len(t) : (\E j \in 1..Len(q) : t[k] = q[j]) \/ (PageOK(t[k], published') /\ Known(t[k], Range(opened'))),
         \A r \in Readers : reads'[r] = reads[r] \/ QueryOK(reads'[r], published'),
         \A k \in 1..Len(pending') : pending'[k].live.nodes # <<>> => Len(pending') = 1
  PROVE  InPlay' /\ PagesOK'
<1>1. \A i \in 1..Len(history') : history'[i] \in published'
  BY DEF PagesOK
<1>2. 1..(unitLT') \subseteq Range(opened') /\ open'.lt \in {0} \cup Range(opened')
  BY DEF InPlay
<1>3. published \subseteq published' /\ Range(opened) \subseteq Range(opened') /\ \A m \in published' : m \in published
  OBVIOUS
<1> QED BY <1>1, <1>2, <1>3, Kept

\* The copies the client closed stay what they are.
LEMMA FaithfulKept ==
  ASSUME Faithful, published \subseteq published', broken \subseteq broken', UNCHANGED view
  PROVE  Faithful'
BY DEF Faithful

LEMMA OpenKeeps ==
  ASSUME Types, Types', Copies, Open
  PROVE  Faithful' /\ InPlay' /\ PagesOK'
<1>1. /\ UNCHANGED <<history, wire, view, reads, published, pending>>
      /\ unitLT' = unitLT + 1 /\ open' = [NoOpen EXCEPT !.lt = unitLT + 1] /\ opened' = Append(opened, unitLT')
      /\ broken' = IF unitLT' \in Range(opened) THEN broken \cup {unitLT'} ELSE broken
  BY DEF Open
<1>2. unitLT \in Nat /\ unitLT' \in LTs /\ opened \in Seq(LTs)
  BY LTsAre DEF Types, ServerTypes
<1>3. Range(opened') = Range(opened) \cup {unitLT'}
  BY <1>1, <1>2, OpenedGrows
<1>4. Line' = Line
  BY <1>1 DEF Line
<1>5. open'.lt = unitLT'
  BY <1>1 DEF NoOpen
<1>6. 1..(unitLT') \subseteq Range(opened')
  <2>1. 1..unitLT \subseteq Range(opened)
    BY DEF Copies, InPlay
  <2>2. \A i \in 1..(unitLT + 1) : i \in 1..unitLT \/ i = unitLT + 1
    BY <1>2
  <2> QED BY <1>1, <1>3, <2>1, <2>2
<1>7. /\ \A i \in 1..Len(history') : history'[i] \in published'
      /\ \A k \in 1..Len(pending') : pending'[k].live.nodes # <<>> => Len(pending') = 1
  BY <1>1 DEF Copies, PagesOK
<1>8. InPlay' /\ PagesOK'
  <2>1. \A k \in 1..Len(Line') : \E j \in 1..Len(Line) : Line'[k] = Line[j]
    BY <1>4
  <2> QED BY <1>1, <1>3, <1>5, <1>6, <1>7, <2>1, Kept DEF Copies
<1>9. Faithful'
  BY <1>1, FaithfulKept DEF Copies
<1> QED BY <1>8, <1>9

LEMMA UpdateKeeps ==
  ASSUME Types, Types', Copies, NEW news \in NodeLists, Update(news)
  PROVE  Faithful' /\ InPlay' /\ PagesOK'
<1>1. PICK L : L = [lt |-> open.lt, v |-> open.ver, nodes |-> Deltas(open.nodes, news)]
  OBVIOUS
<1>2. /\ pending = <<>> /\ pending' = <<Frame(<<>>, L)>> /\ open'.lt = open.lt
      /\ L.nodes # <<>>
      /\ UNCHANGED <<history, unitLT, wire, view, reads, published, opened, broken>>
  BY <1>1 DEF Update, Types, ServerTypes
<1>3. pending' \in Seq(GoodPage) /\ wire \in Seq(Item)
  BY DEF Types, ChannelTypes
<1>4. Len(pending') = 1 /\ \A k \in 1..1 : pending'[k] = Frame(<<>>, L)
  BY <1>2
<1>5. PICK q, t, x : q = Line /\ t = Line' /\ x = [reader |-> {}, page |-> Frame(<<>>, L)]
  OBVIOUS
<1>6. \A k \in 1..Len(t) : (\E j \in 1..Len(q) : t[k] = q[j]) \/ t[k] = x
  <2>1. /\ Continues(t, q) /\ Len(q) = Len(wire) /\ Len(t) = Len(wire) + 1
        /\ \A k \in (Len(wire) + 1)..(Len(wire) + 1) : k - Len(wire) \in 1..1 /\ t[k] = [reader |-> {}, page |-> pending'[k - Len(wire)]]
    BY <1>2, <1>3, <1>4, <1>5, LineGrows DEF Line
  <2>2. \A k \in 1..Len(t) : k \in 1..Len(q) \/ k \in (Len(wire) + 1)..(Len(wire) + 1)
    BY <2>1 DEF Continues
  <2> QED BY <1>4, <1>5, <2>1, <2>2 DEF Continues
<1>7. PageOK(x, published') /\ Known(x, Range(opened'))
  <2>1. x.reader = {} /\ x.page.committed = <<>> /\ x.page.live = L
    BY <1>5 DEF Frame
  <2>2. PageOK(x, published')
    BY <2>1, EmptyText DEF PageOK, PushOK
  <2>3. Known(x, Range(opened'))
    BY <1>2, <2>1, EmptyText DEF Known, Marks, Blank
  <2> QED BY <2>2, <2>3
<1>8. /\ \A i \in 1..Len(history') : history'[i] \in published'
      /\ 1..(unitLT') \subseteq Range(opened') /\ open'.lt \in {0} \cup Range(opened')
  BY <1>2 DEF Copies, PagesOK, InPlay
<1>9. InPlay' /\ PagesOK'
  BY <1>2, <1>4, <1>5, <1>6, <1>7, <1>8, Kept DEF Copies
<1>10. Faithful'
  BY <1>2, FaithfulKept DEF Copies
<1> QED BY <1>9, <1>10

LEMMA CloseKeeps ==
  ASSUME Types, Types', Copies, Close
  PROVE  Faithful' /\ InPlay' /\ PagesOK'
<1>1. PICK m, K : m = [lt |-> open.lt, nodes |-> open.nodes] /\ K = Marker(open.lt, IF open.ver = 0 THEN 0 ELSE open.ver - 1)
  OBVIOUS
<1>2. /\ pending = <<>> /\ pending' = <<Frame(<<K>>, NoLive)>> /\ open' = NoOpen /\ open.lt # 0
      /\ published' = published \cup {m} /\ history' = Append(history, m)
      /\ UNCHANGED <<unitLT, wire, view, reads, opened, broken>>
  BY <1>1 DEF Close
<1>3. /\ pending' \in Seq(GoodPage) /\ wire \in Seq(Item) /\ history \in Seq(Message)
      /\ history' \in Seq(Message)
  BY DEF Types, ChannelTypes, ServerTypes
<1>4. Len(pending') = 1 /\ \A k \in 1..1 : pending'[k] = Frame(<<K>>, NoLive)
  BY <1>2
<1>5. PICK q, t, x : q = Line /\ t = Line' /\ x = [reader |-> {}, page |-> Frame(<<K>>, NoLive)]
  OBVIOUS
<1>6. \A k \in 1..Len(t) : (\E j \in 1..Len(q) : t[k] = q[j]) \/ t[k] = x
  <2>1. /\ Continues(t, q) /\ Len(q) = Len(wire) /\ Len(t) = Len(wire) + 1
        /\ \A k \in (Len(wire) + 1)..(Len(wire) + 1) : k - Len(wire) \in 1..1 /\ t[k] = [reader |-> {}, page |-> pending'[k - Len(wire)]]
    BY <1>2, <1>3, <1>4, <1>5, LineGrows DEF Line
  <2>2. \A k \in 1..Len(t) : k \in 1..Len(q) \/ k \in (Len(wire) + 1)..(Len(wire) + 1)
    BY <2>1 DEF Continues
  <2> QED BY <1>4, <1>5, <2>1, <2>2 DEF Continues
<1>7. open.lt \in Range(opened')
  BY <1>2 DEF Copies, InPlay
<1>8. PageOK(x, published') /\ Known(x, Range(opened'))
  <2>1. x.reader = {} /\ x.page.committed = <<K>> /\ x.page.live = NoLive /\ K.lt = open.lt /\ ~Full(K)
    BY <1>1, <1>5 DEF Frame, Marker, Full
  <2>2. Len(<<K>>) = 1 /\ \A i \in 1..1 : <<K>>[i] = K
    OBVIOUS
  <2>3. PageOK(x, published')
    BY <1>2, <2>1, <2>2 DEF PageOK, PushOK
  <2>4. Known(x, Range(opened'))
    BY <1>7, <2>1, <2>2 DEF Known, Marks, Blank, NoLive
  <2> QED BY <2>3, <2>4
<1>9. \A i \in 1..Len(history') : history'[i] \in published'
  <2>1. PICK n \in Nat : n = Len(history)
    BY <1>3, LenProperties
  <2>2. m \in Message
    <3>1. open \in [lt : LTs, nodes : Seq(Texts), ver : Nat]
      BY DEF Types, ServerTypes
    <3>2. open.nodes \in Seq(Seq(Bytes))
      BY <3>1, TextsAre
    <3> QED BY <1>1, <3>1, <3>2 DEF Message
  <2>3. Len(history') = n + 1 /\ history'[n + 1] = m /\ \A i \in 1..n : history'[i] = history[i]
    BY <1>2, <1>3, <2>1, <2>2, AppendProperties
  <2>4. \A i \in 1..(n + 1) : i \in 1..n \/ i = n + 1
    BY <2>1
  <2>5. \A i \in 1..n : history[i] \in published
    BY <2>1 DEF Copies, PagesOK
  <2> QED BY <1>2, <2>3, <2>4, <2>5
<1>10. 1..(unitLT') \subseteq Range(opened') /\ open'.lt = 0
  BY <1>2 DEF Copies, InPlay, NoOpen
<1>11. m.lt = open.lt
  BY <1>1
<1>12. \A k \in 1..Len(pending') : pending'[k].live.nodes # <<>> => Len(pending') = 1
  BY <1>4
<1>13. InPlay' /\ PagesOK'
  <2>1. \A z \in published' : z \in published \/ (z.lt # 0 /\ (z.nodes = <<>> => z.lt \in Range(opened')))
    BY <1>2, <1>7, <1>11
  <2>2. published \subseteq published' /\ Range(opened) \subseteq Range(opened') /\ open'.lt \in {0} \cup Range(opened')
    BY <1>2, <1>10
  <2>3. \A r \in Readers : reads'[r] = reads[r]
    BY <1>2
  <2>4. InPlay /\ PagesOK
    BY DEF Copies
  <2>5. \A k \in 1..Len(t) : (\E j \in 1..Len(q) : t[k] = q[j]) \/ (PageOK(t[k], published') /\ Known(t[k], Range(opened')))
    BY <1>6, <1>8
  <2> QED BY <1>5, <1>9, <1>10, <1>12, <2>1, <2>2, <2>3, <2>4, <2>5, Kept
<1>14. Faithful'
  BY <1>2, FaithfulKept DEF Copies
<1> QED BY <1>13, <1>14

LEMMA AbandonKeeps ==
  ASSUME Types, Types', Copies, Abandon
  PROVE  Faithful' /\ InPlay' /\ PagesOK'
<1>1. pending = <<>> /\ open' = NoOpen /\ UNCHANGED <<history, unitLT, pending, wire, view, reads, published, opened, broken>>
  BY DEF Abandon
<1>2. Line' = Line
  BY <1>1 DEF Line
<1>3. open'.lt \in {0} \cup Range(opened') /\ 1..(unitLT') \subseteq Range(opened')
  BY <1>1 DEF NoOpen, Copies, InPlay
<1>4. InPlay'
  BY <1>1, <1>2, <1>3 DEF Copies, InPlay
<1>5. PagesOK'
  BY <1>1, <1>2 DEF Copies, PagesOK
<1> QED BY <1>1, <1>4, <1>5, FaithfulKept DEF Copies

\* What a reconciliation pushes is published; its blank frame has an LT that was
\* opened.
LEMMA ReconcileKeeps ==
  ASSUME Types, Types', Copies, Reconcile
  PROVE  Faithful' /\ InPlay' /\ PagesOK'
<1>1. pending = <<>> /\ UNCHANGED <<wire, view, reads, opened, broken>>
  BY DEF Reconcile
<1>2. PICK new \in Seq(Message), n \in Nat :
           /\ n = Len(new) /\ \A i \in 1..n : new[i].lt = i /\ new[i].nodes # <<>>
           /\ history' = new /\ open' = NoOpen /\ published' = published \cup Range(new)
           /\ unitLT' \in LTs /\ unitLT' <= unitLT
           /\ \E news \in Seq(Message) :
                /\ \A i \in 1..Len(news) : \E j \in 1..n : news[i] = new[j] /\ j > LastLT(history)
                /\ \/ pending' = [i \in 1..Len(news) |-> Frame(<<Snapshot(news[i])>>, NoLive)]
                   \/ /\ pending' = <<Frame(<<>>, [NoLive EXCEPT !.lt = unitLT'])>> /\ unitLT' # 0 /\ open.lt # 0
                      /\ unitLT' = n + 1
  BY ReconcileIs DEF Types
<1>3. Range(new) = {new[i] : i \in 1..n}
  <2>1. DOMAIN new = 1..n
    BY <1>2, LenProperties
  <2> QED BY <2>1 DEF Range
<1>4. unitLT \in Nat /\ unitLT' \in Nat
  BY <1>2, LTsAre DEF Types, ServerTypes
<1>5. 1..(unitLT') \subseteq Range(opened')
  <2>1. 1..unitLT \subseteq Range(opened)
    BY DEF Copies, InPlay
  <2> QED BY <1>1, <1>2, <1>4, <2>1
<1>6. ASSUME NEW k \in 1..Len(pending')
      PROVE  PageOK(Push(pending'[k]), published') /\ Known(Push(pending'[k]), Range(opened')) /\ pending'[k].live.nodes = <<>>
  <2>1. PICK news \in Seq(Message) :
          /\ \A i \in 1..Len(news) : \E j \in 1..n : news[i] = new[j]
          /\ \/ pending' = [i \in 1..Len(news) |-> Frame(<<Snapshot(news[i])>>, NoLive)]
             \/ pending' = <<Frame(<<>>, [NoLive EXCEPT !.lt = unitLT'])>> /\ unitLT' # 0
    BY <1>2
  <2>2. CASE pending' = [i \in 1..Len(news) |-> Frame(<<Snapshot(news[i])>>, NoLive)]
    <3>1. Len(pending') = Len(news)
      BY <2>2, LenProperties
    <3>2. PICK s, m : m = news[k] /\ s = Snapshot(m) /\ pending'[k] = Frame(<<s>>, NoLive)
      BY <1>6, <2>2, <3>1
    <3>3. PICK j \in 1..n : m = new[j]
      BY <1>6, <2>1, <3>1, <3>2
    <3>4. m \in published' /\ m.lt # 0 /\ m.nodes # <<>> /\ m \in Message
      BY <1>2, <1>3, <3>3, ElementOfSeq
    <3>5. s.lt = m.lt /\ s.nodes = m.nodes /\ m = [lt |-> m.lt, nodes |-> m.nodes]
      BY <3>2, <3>4 DEF Snapshot, Message
    <3>6. PICK x : x = Push(pending'[k])
      OBVIOUS
    <3>7. x.reader = {} /\ x.page.committed = <<s>> /\ x.page.live = NoLive /\ Full(s)
      BY <3>2, <3>4, <3>5, <3>6 DEF Push, Frame, Full
    <3>8. Len(<<s>>) = 1 /\ \A i \in 1..1 : <<s>>[i] = s
      OBVIOUS
    <3>9. [lt |-> s.lt, nodes |-> s.nodes] \in published'
      BY <3>4, <3>5
    <3>10. PageOK(x, published')
      BY <3>4, <3>5, <3>7, <3>8, <3>9 DEF PageOK, PushOK
    <3>11. Known(x, Range(opened'))
      BY <3>7, <3>8 DEF Known, Marks, Blank, NoLive
    <3>12. pending'[k].live.nodes = <<>>
      BY <3>2 DEF Frame, NoLive
    <3> QED BY <3>6, <3>10, <3>11, <3>12
  <2>3. CASE pending' = <<Frame(<<>>, [NoLive EXCEPT !.lt = unitLT'])>> /\ unitLT' # 0
    <3>1. pending'[k] = Frame(<<>>, [NoLive EXCEPT !.lt = unitLT'])
      BY <1>6, <2>3
    <3>2. PICK x : x = Push(pending'[k])
      OBVIOUS
    <3>3. x.reader = {} /\ x.page.committed = <<>> /\ x.page.live.nodes = <<>> /\ x.page.live.lt = unitLT'
      BY <3>1, <3>2 DEF Push, Frame, NoLive
    <3>4. PageOK(x, published')
      BY <3>3, EmptyText DEF PageOK, PushOK
    <3>5. unitLT' \in Range(opened')
      BY <1>4, <1>5, <2>3
    <3>6. Known(x, Range(opened'))
      BY <3>3, <3>5, EmptyText DEF Known, Marks, Blank
    <3>7. pending'[k].live.nodes = <<>>
      BY <3>1 DEF Frame, NoLive
    <3> QED BY <3>2, <3>4, <3>6, <3>7
  <2> QED BY <2>1, <2>2, <2>3
<1>7. PICK q, t : q = Line /\ t = Line'
  OBVIOUS
<1>8. \A k \in 1..Len(t) : (\E j \in 1..Len(q) : t[k] = q[j]) \/ (PageOK(t[k], published') /\ Known(t[k], Range(opened')))
  <2>1. wire \in Seq(Item) /\ pending' \in Seq(GoodPage)
    BY DEF Types, ChannelTypes
  <2>2. PICK w \in Nat, l \in Nat : w = Len(wire) /\ l = Len(pending')
    BY <2>1, LenProperties
  <2>3. /\ Continues(t, q) /\ Len(q) = w /\ Len(t) = w + l
        /\ \A k \in (w + 1)..(w + l) : k - w \in 1..l /\ t[k] = Push(pending'[k - w])
    BY <1>1, <1>7, <2>1, <2>2, LineGrows DEF Line, Push
  <2>4. \A k \in 1..(w + l) : k \in 1..w \/ k \in (w + 1)..(w + l)
    BY <2>2
  <2>5. \A k \in 1..w : t[k] = q[k]
    BY <2>3 DEF Continues
  <2>6. \A k \in (w + 1)..(w + l) : PageOK(t[k], published') /\ Known(t[k], Range(opened'))
    BY <1>6, <2>2, <2>3
  <2> QED BY <2>3, <2>4, <2>5, <2>6
<1>9. \A z \in published' : z \in published \/ (z.lt # 0 /\ (z.nodes = <<>> => z.lt \in Range(opened')))
  BY <1>2, <1>3
<1>10. \A i \in 1..Len(history') : history'[i] \in published'
  BY <1>2, <1>3
<1>11. /\ published \subseteq published' /\ Range(opened) \subseteq Range(opened') /\ open'.lt \in {0} \cup Range(opened')
       /\ \A r \in Readers : reads'[r] = reads[r]
  BY <1>1, <1>2 DEF NoOpen
<1>12. InPlay /\ PagesOK /\ \A k \in 1..Len(pending') : pending'[k].live.nodes = <<>>
  BY <1>6 DEF Copies
<1>13. InPlay' /\ PagesOK'
  BY <1>5, <1>7, <1>8, <1>9, <1>10, <1>11, <1>12, Kept
<1>14. Faithful'
  BY <1>1, <1>11, FaithfulKept DEF Copies
<1> QED BY <1>13, <1>14

LEMMA DeliverKeeps ==
  ASSUME Types, Types', Copies, Deliver
  PROVE  Faithful' /\ InPlay' /\ PagesOK'
<1>1. /\ pending # <<>> /\ pending' = Tail(pending) /\ wire' = Append(wire, [reader |-> {}, page |-> Head(pending)])
      /\ UNCHANGED <<history, open, unitLT, published, opened, view, reads, broken>>
  BY DEF Deliver, server
<1>2. wire \in Seq(Item) /\ pending \in Seq(GoodPage)
  BY DEF Types, ChannelTypes
<1>3. Line' = Line
  BY <1>1, <1>2, LineDelivered DEF Line
<1>4. PICK n \in Nat : n = Len(pending) /\ Len(pending') = n - 1 /\ \A k \in 1..(n - 1) : pending'[k] = pending[k + 1]
  BY <1>1, <1>2, HeadTailProperties, LenProperties
<1>5. \A k \in 1..(n - 1) : k + 1 \in 1..n /\ n # 1
  BY <1>4
<1>6. \A k \in 1..n : pending[k].live.nodes # <<>> => n = 1
  BY <1>4 DEF Copies, PagesOK
<1>7. \A k \in 1..Len(pending') : pending'[k].live.nodes # <<>> => Len(pending') = 1
  BY <1>4, <1>5, <1>6
<1>8. InPlay'
  BY <1>1, <1>3 DEF Copies, InPlay
<1>9. PagesOK'
  BY <1>1, <1>3, <1>7 DEF Copies, PagesOK
<1> QED BY <1>1, <1>8, <1>9, FaithfulKept DEF Copies

\* What a read returns of the closed messages was published.
LEMMA SnapshotsTold ==
  ASSUME NEW ms \in Seq(Message), NEW pub, \A i \in 1..Len(ms) : ms[i] \in pub
  PROVE  Told(Snapshots(ms), pub)
<1>1. Len(Snapshots(ms)) = Len(ms) /\ \A i \in 1..Len(ms) : Snapshots(ms)[i] = Snapshot(ms[i])
  BY SnapshotsType
<1>2. ASSUME NEW i \in 1..Len(ms) PROVE [lt |-> Snapshots(ms)[i].lt, nodes |-> Snapshots(ms)[i].nodes] \in pub
  <2>1. PICK m \in Message : m = ms[i]
    BY ElementOfSeq
  <2>2. PICK s : s = Snapshots(ms)[i] /\ s = Snapshot(m)
    BY <1>1, <2>1
  <2>3. s.lt = m.lt /\ s.nodes = m.nodes /\ m = [lt |-> m.lt, nodes |-> m.nodes]
    BY <2>1, <2>2 DEF Snapshot, Message
  <2> QED BY <2>1, <2>2, <2>3
<1> QED BY <1>1, <1>2 DEF Told

LEMMA SinceTold ==
  ASSUME ServerTypes, NEW lt, \A i \in 1..Len(history) : history[i] \in published
  PROVE  Told(ReadSince(lt).committed, published)
<1>1. history \in Seq(Message) /\ DOMAIN history = 1..Len(history)
  BY LenProperties DEF ServerTypes
<1>2. PICK I : I = {i \in DOMAIN history : history[i].lt > lt}
  OBVIOUS
<1>3. I \subseteq DOMAIN history
  BY <1>2
<1>4. PICK p : p = Picked(history, I)
  OBVIOUS
<1>5. p \in Seq(Message) /\ \E h : PartOf(p, history, I, h)
  BY <1>1, <1>3, <1>4, PickedPart
<1>6. PICK h : PartOf(p, history, I, h)
  BY <1>5
<1>7. DOMAIN p = 1..Len(p)
  BY <1>5, LenProperties
<1>8. \A k \in 1..Len(p) : p[k] \in published
  BY <1>1, <1>3, <1>6, <1>7 DEF PartOf
<1>9. Told(Snapshots(p), published)
  BY <1>5, <1>8, SnapshotsTold
<1> QED BY <1>2, <1>4, <1>9 DEF ReadSince, Frame

LEMMA RecentTold ==
  ASSUME ServerTypes, \A i \in 1..Len(history) : history[i] \in published
  PROVE  Told(ReadRecent, published)
<1>1. history \in Seq(Message) /\ PageSize \in Nat
  BY AriaStreamAssumption DEF ServerTypes
<1>2. PICK l \in Nat : l = Len(history)
  BY <1>1, LenProperties
<1>3. PICK k \in Nat : k = AtMost(PageSize, l) /\ k <= l
  BY <1>1, <1>2 DEF AtMost
<1>4. PICK f \in Nat : f = l - k
  BY <1>3, <1>2
<1>5. f + k = l /\ f + k <= l /\ f + 1 = l - k + 1
  BY <1>2, <1>3, <1>4
<1>6. PICK p : p = SubSeq(history, f + 1, f + k)
  OBVIOUS
<1>7. p \in Seq(Message) /\ Len(p) = k /\ \A i \in 1..k : p[i] = history[f + i]
  BY <1>1, <1>2, <1>5, <1>6, Stretch
<1>8. \A i \in 1..k : f + i \in 1..l
  <2>1. f + k = l
    BY <1>5
  <2> QED BY <2>1
<1>9. \A i \in 1..Len(p) : p[i] \in published
  BY <1>2, <1>7, <1>8
<1>10. Told(Snapshots(p), published)
  BY <1>7, <1>9, SnapshotsTold
<1> QED BY <1>2, <1>3, <1>5, <1>6, <1>10 DEF ReadRecent

LEMMA ServeKeeps ==
  ASSUME Types, Types', Copies, NEW a \in Readers, Serve(a)
  PROVE  Faithful' /\ InPlay' /\ PagesOK'
<1>1. PICK P : P = IF reads[a].call = "Read" THEN ReadSince(reads[a].since) ELSE Frame(ReadRecent, NoLive)
  OBVIOUS
<1>2. /\ reads' = [reads EXCEPT ![a].stage = "served", ![a].page = P]
      /\ UNCHANGED <<history, open, unitLT, published, opened, view, wire, pending, broken>>
  BY <1>1 DEF Serve, server
<1>3. reads \in [Readers -> GoodQuery] /\ ServerTypes
  BY DEF Types, ChannelTypes
<1>4. Told(P.committed, published)
  <2>1. \A i \in 1..Len(history) : history[i] \in published
    BY DEF Copies, PagesOK
  <2>2. Told(ReadSince(reads[a].since).committed, published) /\ Told(ReadRecent, published)
    BY <1>3, <2>1, SinceTold, RecentTold
  <2> QED BY <1>1, <2>2 DEF Frame
<1>5. /\ reads'[a].page = P /\ reads'[a].have = reads[a].have
      /\ \A r \in Readers : r # a => reads'[r] = reads[r]
  BY <1>2, <1>3 DEF GoodQuery
<1>6. QueryOK(reads'[a], published')
  BY <1>2, <1>4, <1>5 DEF Copies, PagesOK, QueryOK
<1>7. Line' = Line
  BY <1>2 DEF Line
<1>8. \A k \in 1..Len(pending') : pending'[k].live.nodes # <<>> => Len(pending') = 1
  BY <1>2 DEF Copies, PagesOK
<1>9. \A r \in Readers : reads'[r] = reads[r] \/ QueryOK(reads'[r], published')
  BY <1>5, <1>6
<1>10. InPlay' /\ PagesOK'
  <2>1. \A k \in 1..Len(Line') : \E j \in 1..Len(Line) : Line'[k] = Line[j]
    BY <1>7
  <2>2. InPlay /\ PagesOK /\ UNCHANGED <<history, open, unitLT, published, opened>>
    BY <1>2 DEF Copies
  <2> QED BY <1>8, <1>9, <2>1, <2>2, KeptElsewhere, SMTT(30)
<1> QED BY <1>2, <1>10, FaithfulKept DEF Copies

\* An item put in between is all that is new.
LEMMA WithOnly ==
  ASSUME NEW q, NEW p, NEW n \in Nat, NEW x, With(q, p, n + 1, x)
  PROVE  \A k \in 1..Len(q) : q[k] = x \/ \E j \in 1..Len(p) : q[k] = p[j]
<1> TAKE k \in 1..Len(q)
<1>1. PICK m \in Nat : m = Len(p) /\ Len(q) = m + 1
  BY DEF With
<1>2. CASE k \in 1..n
  <2>1. n <= m /\ k \in 1..((n + 1) - 1)
    BY <1>1, <1>2 DEF With
  <2> QED BY <1>1, <1>2, <2>1 DEF With
<1>3. CASE k = n + 1
  BY <1>3 DEF With
<1>4. CASE k \in (n + 1 + 1)..(m + 1)
  <2>1. k - 1 \in 1..m
    BY <1>1, <1>4
  <2> QED BY <1>1, <1>4, <2>1 DEF With
<1> QED BY <1>1, <1>2, <1>3, <1>4

LEMMA ReplyKeeps ==
  ASSUME Types, Types', Copies, NEW a \in Readers, Reply(a)
  PROVE  Faithful' /\ InPlay' /\ PagesOK'
<1>1. PICK x : x = [reader |-> {a}, page |-> reads[a].page]
  OBVIOUS
<1>2. /\ reads' = [reads EXCEPT ![a].stage = "wired", ![a].page = NoPage]
      /\ wire' = Append(wire, x) /\ UNCHANGED <<history, open, unitLT, published, opened, view, pending, broken>>
  BY <1>1 DEF Reply, server
<1>3. reads \in [Readers -> GoodQuery] /\ wire \in Seq(Item) /\ pending \in Seq(GoodPage)
  BY DEF Types, ChannelTypes
<1>4. x \in Item /\ x.reader = {a} /\ x.page = reads[a].page
  BY <1>1, <1>3 DEF Item, GoodQuery
<1>5. PICK p, q : p = Line /\ q = Line'
  OBVIOUS
<1>6. PICK n \in Nat : n = Len(wire)
  BY <1>3, LenProperties
<1>7. With(q, p, n + 1, x)
  BY <1>2, <1>3, <1>4, <1>5, <1>6, LineReply DEF Line
<1>8. QueryOK(reads[a], published)
  BY DEF Copies, PagesOK
<1>9. PageOK(x, published') /\ Known(x, Range(opened'))
  BY <1>2, <1>4, <1>8 DEF PageOK, QueryOK, Known, Marks, Blank
<1>10. /\ reads'[a].page = NoPage /\ reads'[a].have = reads[a].have
       /\ \A r \in Readers : r # a => reads'[r] = reads[r]
  BY <1>2, <1>3 DEF GoodQuery
<1>11. Told(NoPage.committed, published)
  BY EmptyText DEF NoPage, Frame, Told
<1>12. QueryOK(reads'[a], published')
  BY <1>2, <1>8, <1>10, <1>11 DEF QueryOK
<1>13. \A r \in Readers : reads'[r] = reads[r] \/ QueryOK(reads'[r], published')
  BY <1>10, <1>12
<1>14. \A k \in 1..Len(q) : (\E j \in 1..Len(p) : q[k] = p[j]) \/ (PageOK(q[k], published') /\ Known(q[k], Range(opened')))
  <2>1. \A k \in 1..Len(q) : q[k] = x \/ \E j \in 1..Len(p) : q[k] = p[j]
    BY <1>7, WithOnly
  <2> QED BY <1>9, <2>1
<1>15. \A k \in 1..Len(pending') : pending'[k].live.nodes # <<>> => Len(pending') = 1
  BY <1>2 DEF Copies, PagesOK
<1>16. InPlay' /\ PagesOK'
  BY <1>2, <1>5, <1>13, <1>14, <1>15, KeptElsewhere DEF Copies
<1> QED BY <1>2, <1>16, FaithfulKept DEF Copies

LEMMA ReceiveAnswerKeeps ==
  ASSUME Types, Types', Copies, ReceiveAnswer
  PROVE  Faithful' /\ InPlay' /\ PagesOK'
<1>1. PICK x : x = Head(wire)
  OBVIOUS
<1>2. /\ wire # <<>> /\ x.reader # {} /\ wire' = Tail(wire)
      /\ reads' = [r \in Readers |-> IF r \in x.reader THEN Received(reads[r], x.page) ELSE reads[r]]
      /\ UNCHANGED <<history, open, unitLT, published, opened, view, pending, broken>>
  BY <1>1 DEF ReceiveAnswer, server
<1>3. reads \in [Readers -> GoodQuery] /\ wire \in Seq(Item) /\ pending \in Seq(GoodPage)
  BY DEF Types, ChannelTypes
<1>4. PICK q, t : q = Line /\ t = Line'
  OBVIOUS
<1>5. Behind(t, q) /\ q[1] = x
  BY <1>1, <1>2, <1>3, <1>4, LineTail DEF Line, Behind
<1>6. (\A k \in 1..Len(t) : \E j \in 1..Len(q) : t[k] = q[j]) /\ 1 \in 1..Len(q)
  BY <1>5, BehindHead
<1>7. Told(x.page.committed, published)
  BY <1>2, <1>4, <1>5, <1>6 DEF Copies, PagesOK, PageOK
<1>8. x.page.committed \in Seq(Committed)
  <2>1. x \in Item
    BY <1>1, <1>2, <1>3, HeadTailProperties
  <2> QED BY <2>1 DEF Item, GoodPage
<1>9. ASSUME NEW r \in Readers PROVE QueryOK(Received(reads[r], x.page), published)
  <2>1. reads[r] \in GoodQuery /\ QueryOK(reads[r], published)
    BY <1>3 DEF Copies, PagesOK
  <2>2. CASE reads[r].call = "ReadBefore"
    <3>1. Received(reads[r], x.page).have = x.page.committed /\ Received(reads[r], x.page).page = NoPage
      BY <2>2 DEF Received, Ask, Idle
    <3>2. Told(NoPage.committed, published)
      BY EmptyText DEF NoPage, Frame, Told
    <3> QED BY <1>7, <3>1, <3>2 DEF QueryOK
  <2>3. CASE reads[r].call # "ReadBefore"
    <3>1. PICK h \in Seq(Committed), cs \in Seq(Committed) : h = reads[r].have /\ cs = x.page.committed
      BY <1>8, <2>1 DEF GoodQuery
    <3>2. /\ Received(reads[r], x.page).have = h
          /\ Received(reads[r], x.page).page = Frame(h \o cs, x.page.live)
      BY <2>1, <2>3, <3>1 DEF Received, GoodQuery
    <3>3. Received(reads[r], x.page).page.committed = h \o cs
      BY <3>2 DEF Frame
    <3>4. Told(h, published) /\ Told(cs, published)
      BY <1>7, <2>1, <3>1 DEF QueryOK
    <3>5. Told(h \o cs, published)
      <4>1. PICK m \in Nat, n \in Nat : m = Len(h) /\ n = Len(cs)
        BY LenProperties
      <4>2. PICK z : z = h \o cs
        OBVIOUS
      <4>3. /\ Len(z) = m + n /\ \A i \in 1..m : z[i] = h[i]
            /\ \A i \in 1..n : z[m + i] = cs[i]
        BY <4>1, <4>2, Joined
      <4>4. \A i \in 1..(m + n) : i \in 1..m \/ \E j \in 1..n : i = m + j
        <5> TAKE i \in 1..(m + n)
        <5>1. CASE i <= m
          BY <5>1
        <5>2. CASE i > m
          <6>1. i - m \in 1..n /\ i = m + (i - m)
            BY <4>1, <5>2
          <6> QED BY <6>1
        <5> QED BY <4>1, <5>1, <5>2
      <4>5. ASSUME NEW i \in 1..Len(z) PROVE [lt |-> z[i].lt, nodes |-> z[i].nodes] \in published
        <5>1. CASE i \in 1..m
          BY <3>4, <4>1, <4>3, <5>1 DEF Told
        <5>2. CASE \E j \in 1..n : i = m + j
          <6>1. PICK j \in 1..n : i = m + j
            BY <5>2
          <6>2. z[i] = cs[j]
            BY <4>3, <6>1
          <6> QED BY <3>4, <4>1, <6>2 DEF Told
        <5> QED BY <4>3, <4>4, <4>5, <5>1, <5>2
      <4>6. Told(z, published)
        BY <4>5 DEF Told
      <4> QED BY <4>2, <4>6
    <3> QED BY <3>2, <3>3, <3>4, <3>5 DEF QueryOK
  <2> QED BY <2>2, <2>3
<1>10. \A r \in Readers : reads'[r] = reads[r] \/ QueryOK(reads'[r], published')
  BY <1>2, <1>9
<1>11. \A k \in 1..Len(pending') : pending'[k].live.nodes # <<>> => Len(pending') = 1
  BY <1>2 DEF Copies, PagesOK
<1>12. InPlay' /\ PagesOK'
  BY <1>2, <1>4, <1>6, <1>10, <1>11, KeptElsewhere DEF Copies
<1> QED BY <1>2, <1>12, FaithfulKept DEF Copies

LEMMA EnterTranscriptKeeps ==
  ASSUME Types, Types', Copies, EnterTranscript
  PROVE  Faithful' /\ InPlay' /\ PagesOK'
<1>1. /\ reads' = [reads EXCEPT ![Pager].stage = "asked", ![Pager].call = "ReadBefore"]
      /\ UNCHANGED <<history, open, unitLT, published, opened, view, wire, pending, broken>>
  BY DEF EnterTranscript, server
<1>2. reads \in [Readers -> GoodQuery] /\ Pager \in Readers
  BY DEF Types, ChannelTypes, Readers
<1>3. /\ reads'[Pager].page = reads[Pager].page /\ reads'[Pager].have = reads[Pager].have
      /\ \A r \in Readers : r # Pager => reads'[r] = reads[r]
  BY <1>1, <1>2 DEF GoodQuery
<1>4. QueryOK(reads'[Pager], published')
  BY <1>1, <1>2, <1>3 DEF Copies, PagesOK, QueryOK
<1>5. \A r \in Readers : reads'[r] = reads[r] \/ QueryOK(reads'[r], published')
  BY <1>3, <1>4
<1>6. \A k \in 1..Len(Line') : \E j \in 1..Len(Line) : Line'[k] = Line[j]
  <2>1. Line' = Line
    BY <1>1 DEF Line
  <2> QED BY <2>1
<1>7. \A k \in 1..Len(pending') : pending'[k].live.nodes # <<>> => Len(pending') = 1
  BY <1>1 DEF Copies, PagesOK
<1>8. InPlay' /\ PagesOK'
  <2>1. InPlay /\ PagesOK /\ UNCHANGED <<history, open, unitLT, published, opened>>
    BY <1>1 DEF Copies
  <2> QED BY <1>5, <1>6, <1>7, <2>1, KeptElsewhere
<1> QED BY <1>1, <1>8, FaithfulKept DEF Copies

LEMMA TimeoutKeeps ==
  ASSUME Types, Types', Copies, NEW a \in Readers, Timeout(a)
  PROVE  Faithful' /\ InPlay' /\ PagesOK'
<1>1. PICK I : I = {k \in DOMAIN wire : wire[k].reader # {a}}
  OBVIOUS
<1>2. /\ reads' = [reads EXCEPT ![a] = IF reads[a].since = RecentCursor
                                       THEN [@ EXCEPT !.stage = "got", !.page = Frame(reads[a].have, NoLive)]
                                       ELSE Through(a)]
      /\ wire' = Picked(wire, I) /\ UNCHANGED <<history, open, unitLT, published, opened, view, pending, broken>>
  BY <1>1 DEF Timeout, server
<1>3. reads \in [Readers -> GoodQuery] /\ wire \in Seq(Item) /\ pending \in Seq(GoodPage)
  BY DEF Types, ChannelTypes
<1>4. PICK q, t : q = Line /\ t = Line'
  OBVIOUS
<1>5. PICK g : Within(t, q, g)
  <2>1. I \subseteq DOMAIN wire
    BY <1>1
  <2>2. q = LineOf(wire, pending) /\ t = LineOf(Picked(wire, I), pending)
    BY <1>2, <1>4 DEF Line
  <2>3. \E g : Within(LineOf(Picked(wire, I), pending), LineOf(wire, pending), g)
    BY <1>3, <2>1, LinePicked, Zenon
  <2> QED BY <2>2, <2>3, Zenon
<1>6. \A k \in 1..Len(t) : \E j \in 1..Len(q) : t[k] = q[j]
  BY <1>5 DEF Within
<1>7. QueryOK(reads'[a], published') /\ \A r \in Readers : r # a => reads'[r] = reads[r]
  <2>1. reads[a] \in GoodQuery /\ QueryOK(reads[a], published)
    BY <1>3 DEF Copies, PagesOK
  <2>2. reads'[a] = IF reads[a].since = RecentCursor
                    THEN [reads[a] EXCEPT !.stage = "got", !.page = Frame(reads[a].have, NoLive)] ELSE Through(a)
    BY <1>2, <1>3
  <2>3. ASSUME reads[a].since = RecentCursor PROVE QueryOK(reads'[a], published)
    <3>1. reads'[a].page = Frame(reads[a].have, NoLive) /\ reads'[a].have = reads[a].have
      BY <2>1, <2>2, <2>3 DEF GoodQuery
    <3> QED BY <2>1, <3>1 DEF Frame, QueryOK
  <2>4. ASSUME reads[a].since # RecentCursor PROVE QueryOK(reads'[a], published)
    <3>1. reads'[a].page = NoPage /\ reads'[a].have = <<>>
      BY <2>2, <2>4 DEF Through, Idle
    <3>2. Told(NoPage.committed, published) /\ Told(<<>>, published)
      BY EmptyText DEF NoPage, Frame, Told
    <3> QED BY <3>1, <3>2 DEF QueryOK
  <2> QED BY <1>2, <1>3, <2>3, <2>4
<1>8. \A r \in Readers : reads'[r] = reads[r] \/ QueryOK(reads'[r], published')
  BY <1>7
<1>9. \A k \in 1..Len(pending') : pending'[k].live.nodes # <<>> => Len(pending') = 1
  BY <1>2 DEF Copies, PagesOK
<1>10. InPlay' /\ PagesOK'
  BY <1>2, <1>4, <1>6, <1>8, <1>9, KeptElsewhere DEF Copies
<1> QED BY <1>2, <1>10, FaithfulKept DEF Copies

\* A page whose entries the client may fold adds nothing to its closed messages
\* that the server did not close, unless the LT is broken.
LEMMA FoldKeeps ==
  ASSUME Types, Copies, NEW f \in GoodPage, \A i \in 1..Len(f.committed) : EntryOK(f.committed[i]),
         NEW isAnswer, NEW from, Fold(f, isAnswer, from), UNCHANGED published
  PROVE  /\ Faithful' /\ broken \subseteq broken'
         /\ \A r \in Readers : reads'[r] = reads[r] \/ QueryOK(reads'[r], published')
<1>1. view \in View /\ reads \in [Readers -> GoodQuery]
  BY DEF Types, ChannelTypes, ClientTypes
<1>2. view' = ApplyPage(view, f).view /\ broken \subseteq broken'
  BY DEF Fold
<1>3. \A m \in view'.closed : m \in view.closed \/ Vouched(m)
  BY <1>1, <1>2, FoldPage
<1>4. Faithful'
  BY <1>2, <1>3 DEF Copies, Faithful, Vouched
<1>5. \A r \in Readers : reads'[r] = reads[r] \/ (reads'[r].page = NoPage /\ reads'[r].have = <<>>)
  BY <1>1, FoldReads
<1>6. Told(NoPage.committed, published') /\ Told(<<>>, published')
  BY EmptyText DEF NoPage, Frame, Told
<1>7. \A r \in Readers : reads'[r] = reads[r] \/ QueryOK(reads'[r], published')
  BY <1>5, <1>6 DEF QueryOK
<1> QED BY <1>2, <1>4, <1>7

LEMMA ReceiveFrameKeeps ==
  ASSUME Types, Types', Copies, ReceiveFrame
  PROVE  Faithful' /\ InPlay' /\ PagesOK'
<1>1. /\ wire # <<>> /\ Head(wire).reader = {} /\ wire' = Tail(wire) /\ Fold(Head(wire).page, FALSE, {})
      /\ UNCHANGED <<history, open, unitLT, published, opened, pending>>
  BY DEF ReceiveFrame, server
<1>2. wire \in Seq(Item) /\ pending \in Seq(GoodPage)
  BY DEF Types, ChannelTypes
<1>3. PICK p \in GoodPage : p = Head(wire).page
  <2>1. Head(wire) \in Item
    BY <1>1, <1>2, HeadTailProperties
  <2> QED BY <2>1 DEF Item
<1>4. \A i \in 1..Len(p.committed) : EntryOK(p.committed[i])
  BY <1>1, <1>3, PushEntries
<1>5. Faithful' /\ \A r \in Readers : reads'[r] = reads[r] \/ QueryOK(reads'[r], published')
  BY <1>1, <1>3, <1>4, FoldKeeps
<1>6. PICK q, t : q = Line /\ t = Line'
  OBVIOUS
<1>7. Behind(t, q)
  BY <1>1, <1>2, <1>6, LineTail DEF Line, Behind
<1>8. \A k \in 1..Len(t) : \E j \in 1..Len(q) : t[k] = q[j]
  BY <1>7, BehindHead
<1>9. \A k \in 1..Len(pending') : pending'[k].live.nodes # <<>> => Len(pending') = 1
  BY <1>1 DEF Copies, PagesOK
<1>10. InPlay' /\ PagesOK'
  <2>1. InPlay /\ PagesOK /\ UNCHANGED <<history, open, unitLT, published, opened>>
    BY <1>1 DEF Copies
  <2> QED BY <1>5, <1>6, <1>8, <1>9, <2>1, KeptElsewhere
<1> QED BY <1>5, <1>10

LEMMA ApplyAnswerKeeps ==
  ASSUME Types, Types', Copies, NEW a \in Readers, ApplyAnswer(a)
  PROVE  Faithful' /\ InPlay' /\ PagesOK'
<1>1. /\ Fold(reads[a].page, TRUE, {a})
      /\ UNCHANGED <<history, open, unitLT, published, opened, pending, wire>>
  BY DEF ApplyAnswer, server
<1>2. reads[a] \in GoodQuery
  BY DEF Types, ChannelTypes
<1>3. PICK p \in GoodPage : p = reads[a].page
  BY <1>2 DEF GoodQuery
<1>4. p.committed \in Seq(Committed) /\ Told(p.committed, published)
  BY <1>3 DEF GoodPage, Copies, PagesOK, QueryOK
<1>5. \A i \in 1..Len(p.committed) : EntryOK(p.committed[i])
  BY <1>4, ToldEntries
<1>6. Faithful' /\ \A r \in Readers : reads'[r] = reads[r] \/ QueryOK(reads'[r], published')
  BY <1>1, <1>3, <1>5, FoldKeeps
<1>7. \A k \in 1..Len(Line') : \E j \in 1..Len(Line) : Line'[k] = Line[j]
  <2>1. Line' = Line
    BY <1>1 DEF Line
  <2> QED BY <2>1
<1>8. \A k \in 1..Len(pending') : pending'[k].live.nodes # <<>> => Len(pending') = 1
  BY <1>1 DEF Copies, PagesOK
<1>9. InPlay' /\ PagesOK'
  <2>1. InPlay /\ PagesOK /\ UNCHANGED <<history, open, unitLT, published, opened>>
    BY <1>1 DEF Copies
  <2> QED BY <1>6, <1>7, <1>8, <2>1, KeptElsewhere
<1> QED BY <1>6, <1>9

LEMMA IdleCopies ==
  ASSUME Copies, UNCHANGED vars
  PROVE  Copies'
<1>1. /\ UNCHANGED <<history, open, unitLT, published, opened, pending, wire, view, reads, broken>>
      /\ Line' = Line
  BY DEF vars, server, Line
<1>2. Faithful' /\ InPlay' /\ PagesOK'
  BY <1>1 DEF Copies, Faithful, InPlay, PagesOK
<1>3. \A lt, c, e : UnitOK(lt, c, e) => UnitOK(lt, c, e)'
  BY <1>1 DEF UnitOK
<1>4. Explained'
  BY <1>1, <1>3 DEF Copies, Explained
<1> QED BY <1>2, <1>4 DEF Copies

\* An LT that becomes broken stays broken.
LEMMA BrokenGrows ==
  ASSUME Next
  PROVE  broken \subseteq broken'
<1>1. ASSUME NEW f, NEW isAnswer, NEW from, Fold(f, isAnswer, from) PROVE broken \subseteq broken'
  BY <1>1 DEF Fold
<1>2. CASE Producer
  BY <1>2 DEF Producer, Open, Update, Close, Abandon, Reconcile
<1>3. CASE EnterTranscript \/ Deliver \/ ReceiveAnswer \/ Quiescent
  BY <1>3 DEF EnterTranscript, Deliver, ReceiveAnswer, Quiescent, vars
<1>4. CASE ReceiveFrame
  BY <1>1, <1>4 DEF ReceiveFrame
<1>5. ASSUME NEW r \in Readers, Handler(r) \/ Reader(r) PROVE broken \subseteq broken'
  <2>1. CASE Handler(r) \/ Timeout(r)
    BY <2>1 DEF Handler, Serve, Reply, Timeout
  <2>2. CASE ApplyAnswer(r)
    BY <1>1, <2>2 DEF ApplyAnswer
  <2> QED BY <1>5, <2>1, <2>2 DEF Reader
<1> QED BY <1>2, <1>3, <1>4, <1>5 DEF Next

\* The invariant is inductive.
LEMMA NextCopies ==
  ASSUME Types, Types', Copies, [Next]_vars
  PROVE  Copies'
<1>1. CASE UNCHANGED vars
  BY <1>1, IdleCopies
<1>2. CASE Quiescent
  BY <1>2, IdleCopies DEF Quiescent
<1>3. CASE Next /\ ~Quiescent
  <2>1. Faithful' /\ InPlay' /\ PagesOK'
    <3>1. CASE Producer
      BY <3>1, OpenKeeps, UpdateKeeps, CloseKeeps, AbandonKeeps, ReconcileKeeps DEF Producer
    <3>2. CASE EnterTranscript \/ Deliver \/ ReceiveFrame \/ ReceiveAnswer
      BY <3>2, EnterTranscriptKeeps, DeliverKeeps, ReceiveFrameKeeps, ReceiveAnswerKeeps
    <3>3. CASE \E r \in Readers : Handler(r) \/ Reader(r)
      BY <3>3, ServeKeeps, ReplyKeeps, ApplyAnswerKeeps, TimeoutKeeps DEF Handler, Reader
    <3> QED BY <1>3, <3>1, <3>2, <3>3 DEF Next
  <2>2. ASSUME NEW lt \in LTs \ {0}, lt \notin broken' PROVE \E d, f : UnitOK(lt, d, f)'
    <3>1. PICK c, e : UnitOK(lt, c, e)
      BY <1>3, <2>2, BrokenGrows DEF Copies, Explained
    <3>2. CASE Producer
      BY <2>2, <3>1, <3>2, OpenUnits, UpdateUnits, CloseUnits, AbandonUnits, ReconcileUnits, Zenon DEF Producer
    <3>3. CASE EnterTranscript \/ Deliver \/ ReceiveFrame \/ ReceiveAnswer
      BY <2>2, <3>1, <3>3, EnterTranscriptUnits, DeliverUnits, ReceiveFrameUnits, ReceiveAnswerUnits, Zenon
    <3>4. CASE \E r \in Readers : Handler(r) \/ Reader(r)
      BY <2>2, <3>1, <3>4, ServeUnits, ReplyUnits, ApplyAnswerUnits, TimeoutUnits, Zenon DEF Handler, Reader
    <3> QED BY <1>3, <3>2, <3>3, <3>4, Zenon DEF Next
  <2>3. Explained'
    BY <2>2 DEF Explained
  <2> QED BY <2>1, <2>3 DEF Copies
<1> QED BY <1>1, <1>2, <1>3

\* At the start the line has nothing, or the first frame of the open message.
LEMMA FirstFrame ==
  ASSUME Init, Types
  PROVE  /\ pending = <<>> => Len(Line) = 0
         /\ pending # <<>> => /\ Len(Line) = 1 /\ Len(pending) = 1 /\ open.lt # 0 /\ pending[1].live = ReadOpen
                              /\ Line[1] = [reader |-> {}, page |-> Frame(<<>>, ReadOpen)]
<1>1. wire \in Seq(Item) /\ pending \in Seq(GoodPage) /\ wire = <<>>
  BY DEF Types, ChannelTypes, Init
<1>2. /\ Len(Line) = Len(wire) + Len(pending)
      /\ \A k \in 1..Len(pending) : Line[Len(wire) + k] = [reader |-> {}, page |-> pending[k]]
  BY <1>1, LineIs DEF Line
<1>3. Len(wire) = 0
  BY <1>1, EmptyText
<1>4. CASE pending = <<>>
  BY <1>2, <1>3, <1>4, EmptyText
<1>5. CASE pending # <<>>
  <2>1. pending = <<Frame(<<>>, ReadOpen)>> /\ open.lt # 0
    BY <1>5 DEF Init
  <2>2. Len(pending) = 1 /\ pending[1] = Frame(<<>>, ReadOpen)
    BY <2>1
  <2>3. 1 \in 1..1 /\ 0 + 1 = 1
    OBVIOUS
  <2>4. Len(Line) = 1 /\ Line[1] = [reader |-> {}, page |-> pending[1]]
    BY <1>2, <1>3, <2>2, <2>3
  <2>5. pending[1].live = ReadOpen
    BY <2>2 DEF Frame
  <2> QED BY <1>5, <2>1, <2>2, <2>4, <2>5
<1> QED BY <1>4, <1>5

\* The server has numbered what it has, and nothing of it is empty.
LEMMA FirstUnits ==
  ASSUME Init, Types
  PROVE  /\ Range(opened) = 1..unitLT /\ open.lt \in {0} \cup (1..unitLT)
         /\ open.lt # 0 => open.ver = 1 /\ open.nodes # <<>>
         /\ \A m \in published : m.lt # 0 /\ m.nodes # <<>>
         /\ \A i \in 1..Len(history) : history[i] \in published
<1>1. Before \subseteq {<<CHOOSE x \in Texts : TRUE>>}
  BY DEF Before
<1>2. \A n \in Before : n # <<>>
  BY <1>1, EmptyText
<1>3. history \in Seq(Message) /\ unitLT \in LTs /\ unitLT \in Nat /\ open \in [lt : LTs, nodes : Seq(Texts), ver : Nat]
  BY LTsAre DEF Types, ServerTypes
<1>4. published = {history[i] : i \in 1..Len(history)}
  <2>1. DOMAIN history = 1..Len(history)
    BY <1>3, LenProperties
  <2> QED BY <2>1 DEF Range, Init
<1>5. \A m \in published : m.lt # 0 /\ m.nodes # <<>>
  <2>1. CASE history = <<>>
    BY <1>4, <2>1, EmptyText
  <2>2. CASE history # <<>>
    <3>1. PICK n \in Before : history = <<[lt |-> 1, nodes |-> n]>>
      BY <2>2 DEF Init
    <3>2. PICK m : m = [lt |-> 1, nodes |-> n]
      OBVIOUS
    <3>3. m.lt = 1 /\ m.nodes # <<>>
      BY <1>2, <3>2
    <3>4. Len(history) = 1 /\ \A i \in 1..1 : history[i] = m
      BY <3>1, <3>2
    <3> QED BY <1>4, <3>3, <3>4
  <2> QED BY <2>1, <2>2
<1>6. Range(opened) = 1..unitLT
  <2>1. opened = [i \in 1..unitLT |-> i]
    BY DEF Init
  <2> QED BY <2>1 DEF Range
<1>7. CASE open = NoOpen
  BY <1>4, <1>5, <1>6, <1>7 DEF NoOpen
<1>8. CASE open # NoOpen
  <2>1. PICK n \in Before : open = [lt |-> Len(history) + 1, nodes |-> n, ver |-> 1]
    BY <1>8 DEF Init
  <2>2. open.lt = Len(history) + 1 /\ open.nodes = n /\ open.ver = 1
    BY <2>1
  <2>3. unitLT = Len(history) + 1
    BY <2>2 DEF Init
  <2>4. open.lt \in 1..unitLT
    <3>1. Len(history) \in Nat
      BY <1>3, LenProperties
    <3> QED BY <2>2, <2>3, <3>1
  <2> QED BY <1>2, <1>4, <1>5, <1>6, <2>2, <2>4
<1> QED BY <1>7, <1>8

\* The open message, in its first version.
LEMMA FirstContents ==
  ASSUME Init, Types, open.lt # 0, NEW c, c = <<open.nodes>>
  PROVE  /\ Contents(c) /\ Len(c) = 1 /\ c[1] = open.nodes /\ c # <<>> /\ Closing(c) = open.nodes
         /\ ReadOpen.lt = open.lt /\ ReadOpen.v = 0 /\ ReadOpen.nodes # <<>> /\ Makes(ReadOpen.nodes, Old(c, 0), c[1])
<1>1. open.ver = 1 /\ open.nodes # <<>>
  BY FirstUnits
<1>2. PICK u \in Seq(Texts) : u = open.nodes /\ u # <<>> /\ Len(u) <= MaxNodes
  BY <1>1 DEF Types, ServerTypes
<1>3. c \in Seq(Seq(Texts)) /\ Len(c) = 1 /\ c[1] = u
  BY <1>2, OneOf
<1>4. c # <<>>
  BY <1>3, EmptyText
<1>5. Closing(c) = u
  BY <1>3, <1>4 DEF Closing
<1>6. Contents(c)
  <2>1. \A i \in 1..1 : i = 1
    OBVIOUS
  <2>2. Len(u) \in Nat
    BY <1>2, LenProperties
  <2> QED BY <1>2, <1>3, <2>1, <2>2 DEF Contents
<1>7. PICK n \in Nat : n = Len(u) /\ DOMAIN u = 1..n /\ n # 0
  BY <1>2, LenProperties, EmptySeq
<1>8. PICK ds : ds = [i \in 1..n |-> FullSet(i, u[i])]
  OBVIOUS
<1>9. ReadOpen.lt = open.lt /\ ReadOpen.v = 0 /\ ReadOpen.nodes = ds
  BY <1>1, <1>2, <1>7, <1>8 DEF ReadOpen
<1>10. Len(ds) = n /\ \A i \in 1..n : ds[i] = FullSet(i, u[i]) /\ ds[i].id = i
  <2>1. Len(ds) = n /\ \A i \in 1..n : ds[i] = FullSet(i, u[i])
    BY <1>8
  <2>2. \A i : FullSet(i, u[i]).id = i
    BY DEF FullSet
  <2> QED BY <2>1, <2>2
<1>11. ds # <<>>
  BY <1>7, <1>10, EmptyText
<1>12. Old(c, 0) = <<>> /\ Len(Old(c, 0)) = 0
  BY EmptyText DEF Old
<1>13. Makes(ds, Old(c, 0), u)
  BY <1>7, <1>10, <1>12 DEF Makes
<1> QED BY <1>2, <1>3, <1>4, <1>5, <1>6, <1>9, <1>11, <1>13

LEMMA InitCopies ==
  ASSUME Init, Types
  PROVE  Copies
<1>1. /\ Range(opened) = 1..unitLT /\ open.lt \in {0} \cup (1..unitLT)
      /\ \A m \in published : m.lt # 0 /\ m.nodes # <<>>
      /\ \A i \in 1..Len(history) : history[i] \in published
  BY FirstUnits
<1>2. Faithful
  BY DEF Faithful, Init, NewView
<1>3. PICK q : q = Line
  OBVIOUS
<1>4. PICK x : x = [reader |-> {}, page |-> Frame(<<>>, ReadOpen)]
  OBVIOUS
<1>5. x.reader = {} /\ x.page.committed = <<>> /\ x.page.live = ReadOpen
  BY <1>4 DEF Frame
<1>6. /\ pending = <<>> => Len(q) = 0
      /\ pending # <<>> => Len(q) = 1 /\ q[1] = x /\ open.lt # 0 /\ Len(pending) = 1
  BY <1>3, <1>4, FirstFrame
<1>7. \A k \in 1..Len(q) : k = 1 /\ q[k] = x /\ open.lt # 0
  <2>1. CASE pending = <<>>
    BY <1>6, <2>1
  <2>2. CASE pending # <<>>
    <3>1. \A k \in 1..1 : k = 1
      OBVIOUS
    <3> QED BY <1>6, <2>2, <3>1
  <2> QED BY <2>1, <2>2
<1>8. \A m \in published : m.nodes # <<>>
  BY <1>1
<1>9. \A lt : [lt |-> lt, nodes |-> <<>>] \notin published
  <2> TAKE lt
  <2>1. PICK m : m = [lt |-> lt, nodes |-> <<>>]
    OBVIOUS
  <2>2. m.nodes = <<>>
    BY <2>1
  <2> QED BY <1>8, <2>1, <2>2
<1>10. \A lt : ~Marks(x, lt)
  BY <1>5, EmptyText DEF Marks
<1>11. open.lt # 0 => ReadOpen.lt = open.lt /\ ReadOpen.nodes # <<>> /\ ReadOpen.v = 0
  BY FirstContents
<1>12. \A lt : open.lt # 0 => ~Blank(x, lt)
  BY <1>5, <1>11 DEF Blank
<1>13. \A r \in Readers : reads[r].page = NoPage /\ reads[r].have = <<>>
  BY DEF Init, Idle
<1>14. InPlay
  BY <1>1, <1>3, <1>7, <1>9, <1>10, <1>12 DEF InPlay
<1>15. PagesOK
  <2>1. \A k \in 1..Len(q) : PageOK(q[k], published)
    BY <1>5, <1>7, EmptyText DEF PageOK, PushOK
  <2>2. Told(NoPage.committed, published) /\ Told(<<>>, published)
    BY EmptyText DEF NoPage, Frame, Told
  <2>3. \A r \in Readers : QueryOK(reads[r], published)
    BY <1>13, <2>2 DEF QueryOK
  <2>4. \A k \in 1..Len(pending) : pending[k].live.nodes # <<>> => Len(pending) = 1
    BY <1>6, EmptyText
  <2> QED BY <1>1, <1>3, <2>1, <2>3, <2>4 DEF PagesOK
<1>16. ASSUME NEW lt \in LTs \ {0} PROVE \E c, e : UnitOK(lt, c, e)
  <2>1. NoPage.live.lt # lt
    BY DEF NoPage, Frame, NoLive
  <2>2. \A c, e : ReadsOK(reads, pending, lt, c, e)
    BY <1>13, <2>1 DEF ReadsOK
  <2>3. \A c, e : ViewOK(view, Alive(open, q, lt), lt, c, e)
    BY DEF Init, NewView, ViewOK
  <2>4. \A k \in 1..Len(q) : ~Marks(q[k], lt) /\ ~Blank(q[k], lt)
    BY <1>7, <1>10, <1>12
  <2>5. CASE open.lt = lt
    <3>1. PICK c : c = <<open.nodes>>
      OBVIOUS
    <3>2. /\ Contents(c) /\ Len(c) = 1 /\ c[1] = open.nodes /\ Closing(c) = open.nodes /\ c # <<>>
          /\ Makes(ReadOpen.nodes, Old(c, 0), c[1]) /\ open.ver = 1
      BY <2>5, <3>1, FirstContents, FirstUnits
    <3>3. PICK e \in 0..1 : e = IF pending = <<>> THEN 1 ELSE 0
      OBVIOUS
    <3>4. ServerOK(open, published, q, lt, c)
      BY <1>9, <2>4, <3>2 DEF ServerOK
    <3>5. Framed(x, lt) /\ Ver(x) = 0 /\ ~Answers(x, lt)
      BY <1>5, <1>11, <2>5 DEF Framed, Ver, Answers
    <3>6. LineOK(q, lt, c, e)
      <4>1. CASE pending = <<>>
        <5>1. Len(q) = 0 /\ e = 1
          BY <1>6, <3>3, <4>1
        <5> QED BY <3>2, <5>1 DEF LineOK
      <4>2. CASE pending # <<>>
        <5>1. Len(q) = 1 /\ e = 0 /\ q[1] = x
          BY <1>6, <3>3, <4>2
        <5>2. ItemOK(x, lt, c, 0)
          BY <1>5, <1>10, <3>2, <3>5 DEF ItemOK
        <5> QED BY <3>2, <3>5, <5>1, <5>2 DEF LineOK
      <4> QED BY <4>1, <4>2
    <3>7. lt \in Range(opened) /\ e \in 0..Len(c)
      BY <1>1, <2>5, <3>2
    <3>8. UnitOK(lt, c, e)
      BY <1>3, <2>2, <2>3, <3>2, <3>4, <3>6, <3>7 DEF UnitOK
    <3> QED BY <3>8
  <2>6. CASE open.lt # lt
    <3>1. PICK c : c = <<>>
      OBVIOUS
    <3>2. Contents(c) /\ Len(c) = 0
      <4>1. Len(c) = 0 /\ c \in Seq(Seq(Texts))
        BY <3>1, EmptyText, EmptySeq
      <4> QED BY <4>1 DEF Contents
    <3>3. ServerOK(open, published, q, lt, c)
      BY <1>9, <2>4, <2>6 DEF ServerOK
    <3>4. \A k \in 1..Len(q) : ~Framed(q[k], lt) /\ ~Answers(q[k], lt)
      BY <1>5, <1>7, <1>11, <2>6 DEF Framed, Answers
    <3>5. LineOK(q, lt, c, 0)
      BY <2>4, <3>2, <3>4 DEF LineOK, ItemOK, InOrder
    <3>6. UnitOK(lt, c, 0)
      BY <1>3, <2>2, <2>3, <3>1, <3>2, <3>3, <3>5 DEF UnitOK
    <3> QED BY <3>6
  <2> QED BY <2>5, <2>6
<1> QED BY <1>2, <1>14, <1>15, <1>16 DEF Copies, Explained

\* Faithful: what the client closed is what the server closed, to the byte, for
\* every text, number of nodes, frames and units, and whatever the order in which
\* frames, answers and folds happen, unless the LT is broken (Client.Apply).
THEOREM StreamFaithful == Spec => []Faithful
<1>1. Init /\ Types => Copies
  BY InitCopies
<1>2. Types /\ Types' /\ Copies /\ [Next]_vars => Copies'
  BY NextCopies
<1>3. Copies => Faithful
  BY DEF Copies
<1> QED BY <1>1, <1>2, <1>3, TypesInvariant, PTL DEF Spec
=============================================================================
