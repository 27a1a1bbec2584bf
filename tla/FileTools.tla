----------------------------- MODULE FileTools -----------------------------
(***************************************************************************)
(* The file tools: write and edit, several at a time on the same paths     *)
(* under a mutex per path, the matching and replacing of an edit, and the  *)
(* pages of the read tool.                                                 *)
(*                                                                         *)
(* A text is a sequence of characters of a small alphabet: "q" stands for  *)
(* a plain and "Q" for a typographic quote, "s" for a space, "r" and "n"   *)
(* for CR and LF, "Z" for a byte order mark.  A line that is only paged is *)
(* its length.                                                             *)
(***************************************************************************)
EXTENDS Naturals, Sequences, FiniteSets, SequencesExt

CONSTANTS Paths,     \* names of files
          Calls,     \* tool calls
          Texts,     \* what files hold at first (bound)
          News,      \* what is written (bound)
          EditLists(_), \* the edits a call may ask for (bound)
          Limits,    \* line limits a read may ask for, 0 for none (bound)
          MaxLines, MaxBytes, \* MaxOutputLines, MaxOutputBytes
          LineSizes, MaxBook, \* the files that are paged (bound)
          Kinds,     \* what this instance does
          None

ASSUME FileToolsAssumption ==
  /\ IsFiniteSet(Calls) /\ None \notin Calls
  /\ Limits \subseteq Nat
  /\ MaxLines \in Nat /\ MaxLines > 0 /\ MaxBytes \in Nat /\ MaxBytes > 0
  /\ LineSizes \subseteq Nat /\ MaxBook \in Nat

VARIABLES
  file,    \* the content of each path
  locks,   \* fileLocks: the mutexes in use, each with its refCount and holder
  call,    \* a tool call and the step it is at
  book,    \* the line lengths of the file that is paged
  reader   \* a client that follows the read tool's offsets

vars == <<file, locks, call, book, reader>>

NoCall == [pc |-> "idle", path |-> None, kind |-> None, edits |-> <<>>, raw |-> <<>>, out |-> <<>>]

Init ==
  /\ locks = [p \in {} |-> 0]
  /\ call = [c \in Calls |-> NoCall]
  /\ reader = [next |-> 1, shown |-> 0, named |-> 0, done |-> FALSE]
  /\ \/ /\ "edit" \in Kinds
        /\ \E t \in Texts : file = [p \in Paths |-> t]
        /\ book = <<>>
     \/ /\ "page" \in Kinds
        /\ file = [p \in Paths |-> <<>>]
        /\ \E n \in 1..MaxBook : book \in [1..n -> LineSizes]

---------------------------------------------------------------------------
(* Line endings. *)

\* DetectLineEnding: CRLF when the first break is one.
DetectLineEnding(t) ==
  LET lf == {i \in DOMAIN t : t[i] = "n"}
      crlf == {i \in lf : i > 1 /\ t[i - 1] = "r"}
  IN IF crlf # {} /\ \A i \in lf : \E j \in crlf : j - 1 < i THEN "crlf" ELSE "lf"

\* NormalizeToLF: CRLF, then a lone CR.
NormalizeToLF(t) ==
  FlattenSeq([i \in DOMAIN t |->
    IF t[i] # "r" THEN <<t[i]>> ELSE IF i < Len(t) /\ t[i + 1] = "n" THEN <<>> ELSE <<"n">>])

\* StripBOM, the mark and the rest.
BOM(t) == IF t # <<>> /\ Head(t) = "Z" THEN <<"Z">> ELSE <<>>
StripBOM(t) == SubSeq(t, Len(BOM(t)) + 1, Len(t))

RestoreLineEndings(t, e) ==
  IF e = "crlf" THEN FlattenSeq([i \in DOMAIN t |-> IF t[i] = "n" THEN <<"r", "n">> ELSE <<t[i]>>])
  ELSE t

---------------------------------------------------------------------------
(* Matching and replacing. *)

\* NormalizeForFuzzyMatch: the spaces that end a line are dropped, characters
\* that print alike are made plain.
Fuzzy(t) ==
  LET trailing(i) == \E j \in i + 1..Len(t) + 1 :
        (j > Len(t) \/ t[j] = "n") /\ \A k \in i..j - 1 : t[k] = "s"
  IN FlattenSeq([i \in DOMAIN t |->
       IF trailing(i) THEN <<>> ELSE IF t[i] = "Q" THEN <<"q">> ELSE <<t[i]>>])

Occurs(t, s) ==
  {i \in 1..Len(t) + 1 : i + Len(s) - 1 <= Len(t) /\ SubSeq(t, i, i + Len(s) - 1) = s}

First(S) == CHOOSE i \in S : \A j \in S : i <= j

\* FuzzyFind: the first exact match, or the first one of the normalized texts.
FuzzyFind(t, s) ==
  IF Occurs(t, s) # {}
  THEN [found |-> TRUE, at |-> First(Occurs(t, s)), len |-> Len(s), fuzzy |-> FALSE]
  ELSE IF Occurs(Fuzzy(t), Fuzzy(s)) # {}
       THEN [found |-> TRUE, at |-> First(Occurs(Fuzzy(t), Fuzzy(s))), len |-> Len(Fuzzy(s)), fuzzy |-> TRUE]
       ELSE [found |-> FALSE, at |-> 1, len |-> 0, fuzzy |-> FALSE]

\* CountFuzzyOccurrences: strings.Count, from left to right, never overlapping;
\* an empty text occurs around every character.
Count(t, s) ==
  LET occ == Occurs(t, s)
      n[i \in 1..Len(t) + Len(s)] ==
        IF i > Len(t) THEN 0 ELSE IF i \in occ THEN 1 + n[i + Len(s)] ELSE n[i + 1]
  IN IF s = <<>> THEN Len(t) + 1 ELSE n[1]

Splice(t, m, new) == SubSeq(t, 1, m.at - 1) \o new \o SubSeq(t, m.at + m.len, Len(t))

\* The matches replaced from the last to the first, so that positions hold.
Spliced(t, edits, found) ==
  LET order == SetToSortSeq(DOMAIN edits, LAMBDA x, y : found[x].at > found[y].at)
  IN FoldLeft(LAMBDA acc, k : Splice(acc, found[k], edits[k].new), t, order)

\* Mutant: only matches that begin together are seen to overlap.
DisjointStarts(found) == \A k, l \in DOMAIN found : k # l => found[k].at # found[l].at

\* No match begins before the one before it has ended.
Disjoint(found) ==
  \A k, l \in DOMAIN found :
    k # l /\ found[k].at <= found[l].at => found[k].at + found[k].len <= found[l].at

Refused == [ok |-> FALSE, out |-> <<>>]

\* applyEditsToNormalized: one fuzzy match normalizes the whole text; each old
\* text must be found, once, the matches must not overlap, something must change.
ApplyEdits(t, edits) ==
  LET base == IF \E k \in DOMAIN edits : FuzzyFind(t, edits[k].old).fuzzy THEN Fuzzy(t) ELSE t
      found == [k \in DOMAIN edits |-> FuzzyFind(base, edits[k].old)]
      out == Spliced(base, edits, found)
  IN
  IF /\ \A k \in DOMAIN edits :
          found[k].found /\ Count(Fuzzy(base), Fuzzy(edits[k].old)) <= 1
     /\ Disjoint(found)
     /\ out # base
  THEN [ok |-> TRUE, out |-> out]
  ELSE Refused

---------------------------------------------------------------------------
(* A call under the mutex of its path. *)

Begin(c, k, p, es, t) ==
  /\ k \in Kinds /\ book = <<>> /\ call[c] = NoCall
  /\ call' = [call EXCEPT ![c] = [NoCall EXCEPT !.pc = "acquire", !.kind = k, !.path = p,
                                                !.edits = es, !.out = t]]
  /\ UNCHANGED <<file, locks, book, reader>>

\* acquireFileMutex, under fileLocksMu: the mutex of the path, made if there is
\* none; then its lock.
Acquire(c) ==
  LET p == call[c].path
  IN
  /\ call[c].pc = "acquire"
  /\ locks' = IF p \in DOMAIN locks THEN [locks EXCEPT ![p].refs = @ + 1]
              ELSE [q \in DOMAIN locks \cup {p} |->
                      IF q = p THEN [refs |-> 1, by |-> None] ELSE locks[q]]
  /\ call' = [call EXCEPT ![c].pc = "lock"]
  /\ UNCHANGED <<file, book, reader>>

\* Mutant: the mutex is counted, and not locked.
LockAnyway(c) ==
  /\ call[c].pc = "lock"
  /\ locks' = [locks EXCEPT ![call[c].path].by = c]
  /\ call' = [call EXCEPT ![c].pc = IF call[c].kind = "edit" THEN "read" ELSE "truncate"]
  /\ UNCHANGED <<file, book, reader>>

Lock(c) ==
  /\ call[c].pc = "lock" /\ locks[call[c].path].by = None
  /\ locks' = [locks EXCEPT ![call[c].path].by = c]
  /\ call' = [call EXCEPT ![c].pc = IF call[c].kind = "edit" THEN "read" ELSE "truncate"]
  /\ UNCHANGED <<file, book, reader>>

\* Edit, up to its write.
ReadAndApply(c) ==
  LET raw == file[call[c].path]
      text == StripBOM(raw)
      r == ApplyEdits(NormalizeToLF(text), call[c].edits)
  IN
  /\ call[c].pc = "read"
  /\ call' = [call EXCEPT ![c].raw = raw,
                          ![c].out = IF r.ok THEN BOM(raw) \o RestoreLineEndings(r.out, DetectLineEnding(text)) ELSE <<>>,
                          ![c].pc = IF r.ok THEN "truncate" ELSE "unlock"]
  /\ UNCHANGED <<file, locks, book, reader>>

\* os.WriteFile: the file is emptied, then written.
Truncate(c) ==
  /\ call[c].pc = "truncate"
  /\ file' = [file EXCEPT ![call[c].path] = <<>>]
  /\ call' = [call EXCEPT ![c].pc = "write"]
  /\ UNCHANGED <<locks, book, reader>>

WriteFile(c) ==
  /\ call[c].pc = "write"
  /\ file' = [file EXCEPT ![call[c].path] = call[c].out]
  /\ call' = [call EXCEPT ![c].pc = "unlock"]
  /\ UNCHANGED <<locks, book, reader>>

Unlock(c) ==
  /\ call[c].pc = "unlock"
  /\ locks' = [locks EXCEPT ![call[c].path].by = None]
  /\ call' = [call EXCEPT ![c].pc = "release"]
  /\ UNCHANGED <<file, book, reader>>

Without(p) == [q \in DOMAIN locks \ {p} |-> locks[q]]

\* releaseFileMutex, under fileLocksMu: the last user drops the mutex.
Release(c) ==
  LET p == call[c].path
  IN
  /\ call[c].pc = "release"
  /\ locks' = IF locks[p].refs = 1 THEN Without(p) ELSE [locks EXCEPT ![p].refs = @ - 1]
  /\ call' = [call EXCEPT ![c] = [NoCall EXCEPT !.pc = "done"]]
  /\ UNCHANGED <<file, book, reader>>

---------------------------------------------------------------------------
(* Pages. *)

\* Bytes of some lines joined: those of each line, and a newline between two.
Size(b) == IF b = <<>> THEN 0
           ELSE Cardinality(UNION {{i} \X (1..b[i]) : i \in DOMAIN b}) + Len(b) - 1

\* TruncateHead: how many lines from the front are kept; the loop stops at the
\* first line that does not fit.
TruncateHead(b) ==
  LET stop == {i \in 0..Len(b) : i = Len(b) \/ i >= MaxLines \/ Size(SubSeq(b, 1, i + 1)) > MaxBytes}
  IN IF Len(b) <= MaxLines /\ Size(b) <= MaxBytes THEN Len(b) ELSE First(stop)

\* TruncateTail: how many lines from the end are kept whole.
TruncateTail(b) ==
  LET stop == {i \in 0..Len(b) :
                 i = Len(b) \/ i = MaxLines \/ Size(SubSeq(b, Len(b) - i, Len(b))) > MaxBytes}
  IN IF Len(b) <= MaxLines /\ Size(b) <= MaxBytes THEN Len(b) ELSE First(stop)

\* Mutant: the next page begins with the last line of this one.
NextOffsetRepeats(start, shown, end) == start + shown - 1

\* The offset a page tells the client to go on with.
NextOffset(start, shown, end) == start + shown

\* Read: limit 0 is none.  A first line that does not fit is named, not shown;
\* the client goes on behind it.
ReadPage(limit) ==
  LET start == reader.next
      end == IF limit > 0 /\ start + limit - 1 < Len(book) THEN start + limit - 1 ELSE Len(book)
      selected == SubSeq(book, start, end)
      shown == TruncateHead(selected)
  IN
  /\ "page" \in Kinds /\ book # <<>> /\ ~ reader.done /\ start <= Len(book)
  /\ IF shown = 0 THEN reader' = [reader EXCEPT !.next = start + 1, !.named = @ + 1]
     ELSE IF shown < Len(selected) \/ end < Len(book)
          THEN reader' = [reader EXCEPT !.next = NextOffset(start, shown, end), !.shown = @ + shown]
          ELSE reader' = [reader EXCEPT !.next = end + 1, !.shown = @ + shown, !.done = TRUE]
  /\ UNCHANGED <<file, locks, call, book>>

---------------------------------------------------------------------------
Next ==
  \/ \E c \in Calls :
       \/ \E p \in Paths : \/ \E es \in EditLists(c) : Begin(c, "edit", p, es, <<>>)
                           \/ \E t \in News : Begin(c, "write", p, <<>>, t)
       \/ Acquire(c) \/ Lock(c) \/ ReadAndApply(c) \/ Truncate(c) \/ WriteFile(c)
       \/ Unlock(c) \/ Release(c)
  \/ \E limit \in Limits : ReadPage(limit)

Spec == Init /\ [][Next]_vars

---------------------------------------------------------------------------
(* Properties. *)

\* Calls that hold a reference to the mutex of a path.
Users(p) ==
  {c \in Calls : call[c].path = p /\
     call[c].pc \in {"lock", "read", "truncate", "write", "unlock", "release"}}

\* The type of every variable, and a mutex for exactly the paths in use, counting
\* its users.
TypeOK ==
  /\ \A p \in Paths : file[p] \in Seq({"a", "b", "q", "Q", "s", "r", "n", "Z"})
  /\ \A c \in Calls : call[c].pc \in {"idle", "acquire", "lock", "read", "truncate", "write",
                                      "unlock", "release", "done"}
  /\ DOMAIN locks \subseteq Paths
  /\ \A p \in Paths : IF p \in DOMAIN locks THEN locks[p].refs = Cardinality(Users(p))
                       ELSE Users(p) = {}

\* No update is lost and no file is torn by another tool: an edit overwrites the
\* content it has read, although the mutex is found, shared and dropped in steps.
Serialized ==
  \A c, d \in Calls :
    /\ call[c].pc = "truncate" /\ call[c].kind = "edit" => file[call[c].path] = call[c].raw
    /\ c # d /\ call[c].path = call[d].path =>
         ~ ({call[c].pc, call[d].pc} \subseteq {"read", "truncate", "write", "unlock"})

\* A text with some of its regions replaced, character by character.
Replaced(t, needles, edits, at) ==
  FlattenSeq([i \in 1..Len(t) + 1 |->
    (IF \E k \in DOMAIN edits : at[k] = i THEN edits[CHOOSE k \in DOMAIN edits : at[k] = i].new ELSE <<>>)
    \o (IF i > Len(t) \/ \E k \in DOMAIN edits : at[k] <= i /\ i < at[k] + Len(needles[k])
        THEN <<>> ELSE <<t[i]>>)])

\* An accepted edit does what the tool promises: each old text is replaced where
\* it occurs, all edits are matched against the original, whatever their order
\* and however they shift each other, and the rest of the text, its line endings
\* and byte order mark included, is what it was; only one fuzzy match makes the
\* whole text plain.
EditExact ==
  \A c \in Calls : call[c].pc = "write" /\ call[c].kind = "edit" =>
    LET text == StripBOM(call[c].raw)
        t == NormalizeToLF(text)
        out == StripBOM(call[c].out)
        es == call[c].edits
        base == IF \A k \in DOMAIN es : Occurs(t, es[k].old) # {} THEN t ELSE Fuzzy(t)
        needles == [k \in DOMAIN es |-> IF Occurs(base, es[k].old) # {} THEN es[k].old ELSE Fuzzy(es[k].old)]
    IN
    /\ \E at \in [DOMAIN es -> 1..Len(base) + 1] :
         /\ \A k \in DOMAIN es : at[k] \in Occurs(base, needles[k])
         /\ NormalizeToLF(out) = Replaced(base, needles, es, at)
    /\ BOM(call[c].out) = BOM(call[c].raw)
    /\ Contains(text, "r") =>
         \A i \in DOMAIN out : out[i] = "n" => i > 1 /\ out[i - 1] = "r"

\* A client that follows the offsets has every line of the file shown or named,
\* once and in order, whatever limits it asks for; and what TruncateTail keeps of
\* a command's output is as much of its end as fits.
PagesCover ==
  /\ reader.next = reader.shown + reader.named + 1
  /\ reader.done => reader.shown + reader.named = Len(book)
  /\ LET k == TruncateTail(book)
         tail(n) == SubSeq(book, Len(book) - n + 1, Len(book))
     IN /\ k <= MaxLines /\ Size(tail(k)) <= MaxBytes
        /\ k < Len(book) /\ k < MaxLines => Size(tail(k + 1)) > MaxBytes
=============================================================================
