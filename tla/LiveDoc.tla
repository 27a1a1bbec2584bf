------------------------------ MODULE LiveDoc -------------------------------
(***************************************************************************)
(* internal/livedoc: a streamed text is a string of bytes that changes by  *)
(* single-region splices.  Diff makes the splice, Apply folds it; both     *)
(* ends of the stream share them.  Bytes are model values; a rune is a     *)
(* plain byte, or a lead byte and one continuation byte.                   *)
(***************************************************************************)
EXTENDS Naturals, Sequences

CONSTANTS
  Plain,         \* the bytes that are runes of their own
  Lead,          \* the bytes that start a longer rune
  Continuation   \* the bytes that end one

Bytes == Plain \cup Lead \cup Continuation

ASSUME LiveDocAssumption ==
  Plain \cap Lead = {} /\ Plain \cap Continuation = {} /\ Lead \cap Continuation = {}

RuneStart(b) == b \notin Continuation

\* A valid UTF-8 string.
Valid(t) ==
  \A i \in 1..Len(t) :
    /\ t[i] \in Lead => i < Len(t) /\ t[i + 1] \in Continuation
    /\ t[i] \in Continuation => i > 1 /\ t[i - 1] \in Lead

\* Delta: replace the del bytes after the first at by ins.
Splice == [at : Nat, del : Nat, ins : Seq(Bytes)]

AtMost(n, m) == IF n <= m THEN n ELSE m

\* Apply: offsets beyond the end are clamped.
Apply(blob, d) ==
  LET at  == AtMost(d.at, Len(blob))
      end == AtMost(at + d.del, Len(blob))
  IN SubSeq(blob, 1, at) \o d.ins \o SubSeq(blob, end + 1, Len(blob))

LargestUpTo(n, P(_)) == CHOOSE k \in 0..n : P(k) /\ \A j \in (k + 1)..n : ~P(j)

CommonPrefix(old, new) ==
  LET Same(k) == SubSeq(old, 1, k) = SubSeq(new, 1, k)
  IN LargestUpTo(AtMost(Len(old), Len(new)), Same)

\* The common suffix of what the first a bytes leave.
CommonSuffix(old, new, a) ==
  LET Same(k) == SubSeq(old, Len(old) - k + 1, Len(old)) = SubSeq(new, Len(new) - k + 1, Len(new))
  IN LargestUpTo(AtMost(Len(old), Len(new)) - a, Same)

\* Mutant: the boundaries are not backed off to a rune start.
DiffBytes(old, new) ==
  LET a == CommonPrefix(old, new)
      z == CommonSuffix(old, new, a)
  IN [at |-> a, del |-> Len(old) - a - z, ins |-> SubSeq(new, a + 1, Len(new) - z)]

\* Diff: both boundaries of the differing middle are moved outwards to the
\* nearest rune start.
Diff(old, new) ==
  LET a        == CommonPrefix(old, new)
      z        == CommonSuffix(old, new, a)
      Fore(k)  == k = 0 \/ k = Len(old) \/ RuneStart(old[k + 1])
      Foot(k)  == k = 0 \/ RuneStart(old[Len(old) - k + 1])
      from     == LargestUpTo(a, Fore)
      kept     == LargestUpTo(z, Foot)
  IN [at |-> from, del |-> Len(old) - from - kept, ins |-> SubSeq(new, from + 1, Len(new) - kept)]
=============================================================================
