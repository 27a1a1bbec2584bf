------------------------- MODULE ExecSessionProofs -------------------------
(* Proofs about ExecSession, for every value of its constants. *)
EXTENDS ExecSession, TLAPS, SequenceTheorems

-----------------------------------------------------------------------------
(* The last m of k chunks, and what a pipe and a buffer do with them *)

Window(k, m) == [i \in 1..m |-> (k - m) + i]
Retained(k) == IF k < BufferCap THEN k ELSE BufferCap

LEMMA WindowType ==
  ASSUME NEW k \in Nat, NEW m \in 0..k
  PROVE  /\ Window(k, m) \in Seq(Nat) /\ Len(Window(k, m)) = m
         /\ DOMAIN Window(k, m) = 1..m
         /\ \A i \in 1..m : Window(k, m)[i] = (k - m) + i
<1>1. \A i \in 1..m : (k - m) + i \in Nat
  OBVIOUS
<1>2. Window(k, m) \in [1..m -> Nat]
  BY <1>1 DEF Window
<1>3. Window(k, m) \in Seq(Nat)
  BY <1>2, SeqDef
<1>4. Len(Window(k, m)) = m
  BY <1>2, <1>3, LenProperties
<1> QED BY <1>3, <1>4 DEF Window

\* A sequence is a window when it has its length and its elements.
LEMMA IsWindow ==
  ASSUME NEW k \in Nat, NEW m \in 0..k, NEW s \in Seq(Nat), Len(s) = m,
         \A i \in 1..m : s[i] = (k - m) + i
  PROVE  s = Window(k, m)
<1>1. Window(k, m) \in Seq(Nat) /\ Len(Window(k, m)) = m /\ \A i \in 1..m : Window(k, m)[i] = (k - m) + i
  BY WindowType
<1> QED BY <1>1, SeqEqual

LEMMA SuffixIsWindow ==
  ASSUME NEW k \in Nat
  PROVE  Suffix(k) = Window(k, Retained(k)) /\ Retained(k) \in 0..k
<1>1. BufferCap \in Nat
  BY ExecSessionAssumption
<1>2. CASE k < BufferCap
  <2>1. \A i \in 1..k : 0 + i = (k - k) + i
    OBVIOUS
  <2> QED BY <1>1, <1>2, <2>1 DEF Suffix, Window, Retained
<1>3. CASE ~ (k < BufferCap)
  BY <1>1, <1>3 DEF Suffix, Window, Retained
<1> QED BY <1>2, <1>3

\* The process writes its next chunk.
LEMMA WindowAppend ==
  ASSUME NEW k \in Nat, NEW m \in 0..k
  PROVE  Append(Window(k, m), k + 1) = Window(k + 1, m + 1)
<1>1. Window(k, m) \in Seq(Nat) /\ Len(Window(k, m)) = m /\ \A i \in 1..m : Window(k, m)[i] = (k - m) + i
  BY WindowType
<1>2. /\ Append(Window(k, m), k + 1) \in Seq(Nat) /\ Len(Append(Window(k, m), k + 1)) = m + 1
      /\ \A i \in 1..m : Append(Window(k, m), k + 1)[i] = Window(k, m)[i]
      /\ Append(Window(k, m), k + 1)[m + 1] = k + 1
  BY <1>1, AppendProperties
<1>3. ASSUME NEW i \in 1..m + 1 PROVE Append(Window(k, m), k + 1)[i] = ((k + 1) - (m + 1)) + i
  BY <1>1, <1>2, <1>3
<1>4. m + 1 \in 0..k + 1 /\ k + 1 \in Nat
  OBVIOUS
<1> QED BY <1>2, <1>3, <1>4, IsWindow

\* The copier takes the oldest chunk of the pipe.
LEMMA WindowTail ==
  ASSUME NEW k \in Nat, NEW m \in 1..k
  PROVE  Window(k, m) # <<>> /\ Head(Window(k, m)) = (k - m) + 1 /\ Tail(Window(k, m)) = Window(k, m - 1)
<1>1. Window(k, m) \in Seq(Nat) /\ Len(Window(k, m)) = m /\ \A i \in 1..m : Window(k, m)[i] = (k - m) + i
  BY WindowType
<1>2. Window(k, m) # <<>> /\ Head(Window(k, m)) = Window(k, m)[1]
  BY <1>1, EmptySeq
<1>3. /\ Tail(Window(k, m)) \in Seq(Nat) /\ Len(Tail(Window(k, m))) = m - 1
      /\ \A i \in 1..m - 1 : Tail(Window(k, m))[i] = Window(k, m)[i + 1]
  BY <1>1, <1>2, HeadTailProperties
<1>4. ASSUME NEW i \in 1..m - 1 PROVE Tail(Window(k, m))[i] = (k - (m - 1)) + i
  BY <1>1, <1>3, <1>4
<1>5. m - 1 \in 0..k
  OBVIOUS
<1>6. Tail(Window(k, m)) = Window(k, m - 1)
  BY <1>3, <1>4, <1>5, IsWindow
<1>7. 1 \in 1..m
  OBVIOUS
<1> QED BY <1>1, <1>2, <1>6, <1>7

\* capBuffer.Write keeps the last chunks it was given, as many as fit.
LEMMA WindowCap ==
  ASSUME NEW k \in Nat, NEW m \in 0..Retained(k)
  PROVE  \E n \in 0..Retained(k + 1) :
           /\ CapWrite(Window(k, m), k + 1) = Window(k + 1, n)
           /\ m = Retained(k) => n = Retained(k + 1)
<1>1. BufferCap \in Nat /\ BufferCap > 0 /\ m \in 0..k /\ m <= BufferCap
  BY ExecSessionAssumption DEF Retained
<1>2. Append(Window(k, m), k + 1) = Window(k + 1, m + 1)
  BY <1>1, WindowAppend
<1>3. /\ Window(k + 1, m + 1) \in Seq(Nat) /\ Len(Window(k + 1, m + 1)) = m + 1
      /\ \A i \in 1..m + 1 : Window(k + 1, m + 1)[i] = ((k + 1) - (m + 1)) + i
  BY <1>1, WindowType
<1>4. CASE m + 1 > BufferCap
  <2>1. m = BufferCap
    BY <1>1, <1>4
  <2>2. CapWrite(Window(k, m), k + 1) = SubSeq(Window(k + 1, m + 1), 2, m + 1)
    <3>1. PICK all : all = Append(Window(k, m), k + 1)
      OBVIOUS
    <3>2. Len(all) = m + 1 /\ Len(all) > BufferCap
      BY <1>2, <1>3, <1>4, <3>1
    <3>3. CapWrite(Window(k, m), k + 1) = SubSeq(all, Len(all) - BufferCap + 1, Len(all))
      BY <3>1, <3>2 DEF CapWrite
    <3>4. (m + 1) - BufferCap + 1 = 2
      BY <1>1, <2>1
    <3> QED BY <1>2, <3>1, <3>2, <3>3, <3>4
  <2>3. \A i \in 2..m + 1 : Window(k + 1, m + 1)[i] \in Nat
    <3>1. ASSUME NEW i \in 2..m + 1 PROVE i \in 1..m + 1
      BY <1>1, <3>1
    <3> QED BY <1>3, <3>1, ElementOfSeq
  <2>4. /\ SubSeq(Window(k + 1, m + 1), 2, m + 1) \in Seq(Nat)
        /\ Len(SubSeq(Window(k + 1, m + 1), 2, m + 1)) = m
        /\ \A i \in 1..m : SubSeq(Window(k + 1, m + 1), 2, m + 1)[i] = Window(k + 1, m + 1)[2 + i - 1]
    <3>1. 2 \in Int /\ m + 1 \in Int /\ (m + 1) - 2 + 1 = m /\ 2 <= m + 1
      BY <1>1, <2>1
    <3> QED BY <2>3, <3>1, SubSeqProperties
  <2>5. ASSUME NEW i \in 1..m PROVE SubSeq(Window(k + 1, m + 1), 2, m + 1)[i] = ((k + 1) - m) + i
    BY <1>1, <1>3, <2>4, <2>5
  <2>6. SubSeq(Window(k + 1, m + 1), 2, m + 1) = Window(k + 1, m)
    <3>1. k + 1 \in Nat /\ m \in 0..k + 1
      BY <1>1
    <3> QED BY <2>4, <2>5, <3>1, IsWindow
  <2>7. m \in 0..Retained(k + 1) /\ m = Retained(k + 1)
    BY <1>1, <2>1 DEF Retained
  <2> QED BY <2>2, <2>6, <2>7
<1>5. CASE ~ (m + 1 > BufferCap)
  <2>1. CapWrite(Window(k, m), k + 1) = Window(k + 1, m + 1)
    BY <1>1, <1>2, <1>3, <1>5 DEF CapWrite
  <2>2. m + 1 \in 0..Retained(k + 1) /\ (m = Retained(k) => m + 1 = Retained(k + 1))
    BY <1>1, <1>5 DEF Retained
  <2> QED BY <2>1, <2>2
<1> QED BY <1>4, <1>5

\* A shorter window of the same chunks is a suffix of a longer one.
LEMMA WindowSuffix ==
  ASSUME NEW k \in Nat, NEW n \in 0..k, NEW m \in 0..n
  PROVE  IsSuffix(Window(k, m), Window(k, n))
<1>1. ASSUME NEW j \in 0..k
      PROVE  /\ Len(Window(k, j)) = j
             /\ Reverse(Window(k, j)) = [i \in 1..j |-> (k + 1) - i]
  <2>1. Len(Window(k, j)) = j /\ \A i \in 1..j : Window(k, j)[i] = (k - j) + i
    BY WindowType
  <2>2. \A i \in 1..j : Window(k, j)[(j - i) + 1] = (k + 1) - i
    <3> SUFFICES ASSUME NEW i \in 1..j PROVE Window(k, j)[(j - i) + 1] = (k + 1) - i
      OBVIOUS
    <3>1. (j - i) + 1 \in 1..j /\ (k - j) + ((j - i) + 1) = (k + 1) - i
      OBVIOUS
    <3> QED BY <2>1, <3>1
  <2> QED BY <2>1, <2>2 DEF Reverse
<1>2. m \in 0..k /\ n \in 0..k
  OBVIOUS
<1> DEFINE r == [i \in 1..m |-> (k + 1) - i]
           t == [i \in 1..n |-> (k + 1) - i]
<1>3. /\ r \in Seq(Nat) /\ Len(r) = m /\ \A i \in 1..m : r[i] = (k + 1) - i
  <2>1. r \in [1..m -> Nat]
    BY <1>2
  <2>2. r \in Seq(Nat)
    BY <2>1, SeqDef
  <2> QED BY <2>1, <2>2, LenProperties
<1>4. /\ t \in Seq(Nat) /\ Len(t) = n /\ \A i \in 1..n : t[i] = (k + 1) - i
  <2>1. t \in [1..n -> Nat]
    BY <1>2
  <2>2. t \in Seq(Nat)
    BY <2>1, SeqDef
  <2> QED BY <2>1, <2>2, LenProperties
<1> HIDE DEF r, t
<1>5. SubSeq(r, 1, m) = SubSeq(t, 1, m)
  <2>1. \A i \in 1..m : r[i] \in Nat /\ t[i] \in Nat /\ r[i] = t[i]
    BY <1>3, <1>4
  <2>2. 1 \in Int /\ m \in Int
    OBVIOUS
  <2>3. SubSeq(r, 1, m) \in Seq(Nat) /\ Len(SubSeq(r, 1, m)) = (IF 1 <= m THEN m - 1 + 1 ELSE 0)
        /\ \A i \in 1..m - 1 + 1 : SubSeq(r, 1, m)[i] = r[1 + i - 1]
    BY <2>1, <2>2, SubSeqProperties
  <2>4. SubSeq(t, 1, m) \in Seq(Nat) /\ Len(SubSeq(t, 1, m)) = (IF 1 <= m THEN m - 1 + 1 ELSE 0)
        /\ \A i \in 1..m - 1 + 1 : SubSeq(t, 1, m)[i] = t[1 + i - 1]
    BY <2>1, <2>2, SubSeqProperties
  <2>5. Len(SubSeq(r, 1, m)) = m /\ Len(SubSeq(t, 1, m)) = m
    BY <2>3, <2>4
  <2>6. ASSUME NEW i \in 1..m PROVE SubSeq(r, 1, m)[i] = SubSeq(t, 1, m)[i]
    BY <2>1, <2>3, <2>4
  <2> QED BY <2>3, <2>4, <2>5, <2>6, SeqEqual
<1>6. Reverse(Window(k, m)) = r /\ Reverse(Window(k, n)) = t
  BY <1>1, <1>2 DEF r, t
<1> QED BY <1>3, <1>4, <1>5, <1>6 DEF IsSuffix, IsPrefix

-----------------------------------------------------------------------------
(* What is known of each call, its session, its process and its output *)

Modes == {"fg", "bg", "pty"}
Ended == {"exit", "timeout", "aborted"}
Results == Ended \cup {"failed", "background"}
Steps == {"idle", "created", "started", "waiting", "aborting", "blocking", "closing", "returned"}

CallRec == [mode : Modes \cup {None}, round : Nat, pc : Steps, result : Results \cup {None},
            out : Seq(Nat)]
SessRec == [state : {"running", "exited", "killed", "timed_out"}, proc : BOOLEAN,
            killing : BOOLEAN, timedOut : BOOLEAN]

TypeInv ==
  /\ cur \in Nat
  /\ call \in [Calls -> CallRec]
  /\ sess \in [Calls -> SessRec]
  /\ agg \in [Calls -> Seq(Nat)] /\ unread \in [Calls -> Seq(Nat)] /\ pipe \in [Calls -> Seq(Nat)]
  /\ wrote \in [Calls -> Nat]
  /\ sup \in [Calls -> {"none", "watch", "kill", "done"}]
  /\ os \in [Calls -> {"none", "run", "dead"}]
  /\ waited \in [Calls -> BOOLEAN]

\* The life of a call: its process starts once, a session that has ended has a
\* supervisor that waited for the process, and only such a session ages.
LifeOK(c) ==
  /\ call[c].pc = "idle" => call[c].result = None
  /\ call[c].pc \in {"idle", "created"} =>
       os[c] = "none" /\ wrote[c] = 0 /\ pipe[c] = <<>> /\ agg[c] = <<>> /\ unread[c] = <<>>
  /\ call[c].pc \in {"idle", "created", "started"} => sup[c] = "none" /\ ~ sess[c].proc
  /\ call[c].pc \in {"started", "waiting", "aborting"} => call[c].mode # "pty"
  /\ call[c].pc \in {"blocking", "closing"} => call[c].mode = "pty"
  /\ waited[c] => os[c] = "dead"
  /\ sup[c] = "done" => waited[c]
  /\ sess[c].state # "running" => sup[c] = "done"
  /\ c \in aged => sess[c].state # "running"

\* Who can reach the process.
ReachOK(c) ==
  /\ c \notin early /\ os[c] = "run" =>
       \/ call[c].mode # "pty" /\ c \in listed
       \/ call[c].mode = "pty" /\ call[c].pc = "blocking"
  /\ call[c].pc = "created" /\ call[c].mode # "pty" => c \in listed \/ c \in early

\* Where the chunks are: the newest in the pipe, the ones before it in the
\* buffers, as many as they retain.
CopyOK(c) ==
  call[c].mode # "pty" =>
    \E w, k \in Nat : \E u \in 0..Retained(k) :
      /\ wrote[c] = w /\ k <= w /\ pipe[c] = Window(w, w - k)
      /\ agg[c] = Window(k, Retained(k)) /\ unread[c] = Window(k, u)

\* The end is told with all of the output.
WholeOK(c) ==
  call[c].mode # "pty" /\ c \notin cut =>
    /\ waited[c] => pipe[c] = <<>>
    /\ call[c].result \in Ended => sup[c] = "done" /\ call[c].out = Suffix(wrote[c])

CallOK(c) == LifeOK(c) /\ ReachOK(c) /\ CopyOK(c) /\ WholeOK(c)

PollOK ==
  /\ ptool.pc = "poll" => ptool.s \in Calls /\ (ptool.status # "running" => sup[ptool.s] = "done")

ExecInv == TypeInv /\ PollOK /\ \A c \in Calls : CallOK(c)

\* An empty pipe: the buffers have what they retain of everything.
LEMMA CopiedAll ==
  ASSUME NEW c \in Calls, CopyOK(c), call[c].mode # "pty", pipe[c] = <<>>, wrote[c] \in Nat
  PROVE  agg[c] = Suffix(wrote[c]) /\ IsSuffix(unread[c], Suffix(wrote[c]))
<1>1. PICK w \in Nat, k \in Nat : \E u \in 0..Retained(k) :
        /\ wrote[c] = w /\ k <= w /\ pipe[c] = Window(w, w - k)
        /\ agg[c] = Window(k, Retained(k)) /\ unread[c] = Window(k, u)
  BY DEF CopyOK
<1>2. PICK u \in 0..Retained(k) :
        /\ wrote[c] = w /\ k <= w /\ pipe[c] = Window(w, w - k)
        /\ agg[c] = Window(k, Retained(k)) /\ unread[c] = Window(k, u)
  BY <1>1
<1>3. w - k = 0
  <2>1. w - k \in 0..w
    BY <1>2
  <2>2. Len(Window(w, w - k)) = w - k
    BY <2>1, WindowType
  <2>3. Len(Window(w, w - k)) = 0
    BY <1>2, EmptySeq
  <2> QED BY <2>2, <2>3
<1>4. k = w
  BY <1>2, <1>3
<1>5. Suffix(w) = Window(w, Retained(w)) /\ Retained(w) \in 0..w
  BY SuffixIsWindow
<1>6. IsSuffix(Window(w, u), Window(w, Retained(w)))
  BY <1>2, <1>4, <1>5, WindowSuffix
<1> QED BY <1>2, <1>4, <1>5, <1>6

\* The invariant says what the runs check.
LEMMA ExecInvWhole ==
  ASSUME ExecInv PROVE OutputWhole /\ NoStray
<1>1. NoStray
  BY DEF ExecInv, CallOK, ReachOK, NoStray
<1>2. OutputWhole
  <2> SUFFICES ASSUME NEW c \in Calls, c \notin cut, call[c].mode # "pty"
               PROVE  /\ call[c].result \in Ended => call[c].out = Suffix(wrote[c])
                      /\ ptool.pc = "poll" /\ ptool.s = c /\ ptool.status # "running" =>
                           agg[c] = Suffix(wrote[c])
                      /\ sess[c].state # "running" => IsSuffix(unread[c], Suffix(wrote[c]))
    BY DEF OutputWhole, Ended
  <2>1. CallOK(c) /\ wrote[c] \in Nat
    BY DEF ExecInv, TypeInv
  <2>2. sup[c] = "done" => agg[c] = Suffix(wrote[c]) /\ IsSuffix(unread[c], Suffix(wrote[c]))
    BY <2>1, CopiedAll DEF CallOK, LifeOK, WholeOK
  <2> QED BY <2>1, <2>2 DEF CallOK, LifeOK, WholeOK, ExecInv, PollOK
<1> QED BY <1>1, <1>2

-----------------------------------------------------------------------------
(* What a step leaves alone *)

Same(b) ==
  /\ call'[b] = call[b] /\ sess'[b] = sess[b] /\ sup'[b] = sup[b] /\ os'[b] = os[b]
  /\ agg'[b] = agg[b] /\ unread'[b] = unread[b] /\ pipe'[b] = pipe[b] /\ wrote'[b] = wrote[b]
  /\ waited'[b] = waited[b]
  /\ (b \in aged' <=> b \in aged) /\ (b \in cut' <=> b \in cut) /\ (b \in early' <=> b \in early)
  /\ b \in listed \ aged => b \in listed'

LEMMA SameOK ==
  ASSUME NEW b \in Calls, CallOK(b), Same(b) PROVE CallOK(b)'
<1>1. LifeOK(b)'
  BY DEF CallOK, LifeOK, Same
<1>2. os[b] = "run" \/ call[b].pc = "created" => b \notin aged
  BY DEF CallOK, LifeOK
<1>3. ReachOK(b)'
  BY <1>2 DEF CallOK, ReachOK, Same
<1>4. CopyOK(b)'
  BY DEF CallOK, CopyOK, Same
<1>5. WholeOK(b)'
  BY DEF CallOK, WholeOK, Same
<1> QED BY <1>1, <1>3, <1>4, <1>5 DEF CallOK

\* A step of one call.
LEMMA OneCall ==
  ASSUME ExecInv, TypeInv', NEW c \in Calls, \A b \in Calls : b # c => Same(b), CallOK(c)',
         UNCHANGED ptool, sup[c] = "done" => sup'[c] = "done"
  PROVE  ExecInv'
<1>1. \A b \in Calls : CallOK(b)'
  BY SameOK DEF ExecInv
<1>2. PollOK'
  BY DEF ExecInv, PollOK, Same
<1> QED BY <1>1, <1>2 DEF ExecInv

\* A step of no call.
LEMMA NoCallMoves ==
  ASSUME ExecInv, UNCHANGED <<call, sess, sup, os, agg, unread, pipe, wrote, waited, aged, cut, early>>,
         cur' \in Nat, Reaped(listed) \subseteq listed', PollOK'
  PROVE  ExecInv'
<1>1. \A b \in Calls : Same(b)
  BY DEF Same, Reaped
<1>2. TypeInv'
  BY DEF ExecInv, TypeInv
<1> QED BY <1>1, <1>2, SameOK DEF ExecInv

\* Records of calls: a step, and a return.
LEMMA MoveEffect ==
  ASSUME TypeInv, NEW c \in Calls, NEW w \in Steps, call' = [call EXCEPT ![c].pc = w]
  PROVE  /\ call' \in [Calls -> CallRec]
         /\ \A b \in Calls : b # c => call'[b] = call[b]
         /\ call'[c].pc = w /\ call'[c].mode = call[c].mode
         /\ call'[c].result = call[c].result /\ call'[c].out = call[c].out
<1>1. PICK r \in CallRec : r = call[c]
  BY DEF TypeInv
<1>2. PICK q : q = [r EXCEPT !.pc = w]
  OBVIOUS
<1>3. q = [mode |-> r.mode, round |-> r.round, pc |-> w, result |-> r.result, out |-> r.out]
  BY <1>2 DEF CallRec
<1>4. q \in CallRec
  BY <1>3 DEF CallRec
<1>5. q.pc = w /\ q.mode = r.mode /\ q.result = r.result /\ q.out = r.out
  BY <1>3
<1>6. call \in [Calls -> CallRec]
  BY DEF TypeInv
<1>7. call' = [call EXCEPT ![c] = q]
  BY <1>1, <1>2, <1>6
<1>8. call' \in [Calls -> CallRec] /\ call'[c] = q /\ \A b \in Calls : b # c => call'[b] = call[b]
  BY <1>4, <1>6, <1>7
<1> QED BY <1>1, <1>5, <1>8

LEMMA ReturnEffect ==
  ASSUME TypeInv, NEW c \in Calls, NEW r \in Results, NEW o \in Seq(Nat), Return(c, r, o)
  PROVE  /\ call' \in [Calls -> CallRec]
         /\ \A b \in Calls : b # c => call'[b] = call[b]
         /\ call'[c].pc = "returned" /\ call'[c].mode = call[c].mode
         /\ call'[c].result = r /\ call'[c].out = o
<1>1. PICK r0 \in CallRec : r0 = call[c]
  BY DEF TypeInv
<1>2. PICK r1 : r1 = [r0 EXCEPT !.pc = "returned"]
  OBVIOUS
<1>3. r1 = [mode |-> r0.mode, round |-> r0.round, pc |-> "returned", result |-> r0.result, out |-> r0.out]
  BY <1>2 DEF CallRec
<1>4. r1 \in CallRec
  BY <1>3 DEF CallRec, Steps
<1>5. r1.mode = r0.mode /\ r1.round = r0.round /\ r1.pc = "returned"
  BY <1>3
<1>6. PICK r2 : r2 = [r1 EXCEPT !.result = r]
  OBVIOUS
<1>7. r2 = [mode |-> r1.mode, round |-> r1.round, pc |-> r1.pc, result |-> r, out |-> r1.out]
  BY <1>4, <1>6 DEF CallRec
<1>8. r2 \in CallRec
  BY <1>4, <1>7 DEF CallRec
<1>9. r2.mode = r1.mode /\ r2.round = r1.round /\ r2.pc = r1.pc /\ r2.result = r
  BY <1>7
<1>10. PICK r3 : r3 = [r2 EXCEPT !.out = o]
  OBVIOUS
<1>11. r3 = [mode |-> r2.mode, round |-> r2.round, pc |-> r2.pc, result |-> r2.result, out |-> o]
  BY <1>8, <1>10 DEF CallRec
<1>12. r3 \in CallRec
  BY <1>8, <1>11 DEF CallRec
<1>13. r3.mode = r2.mode /\ r3.pc = r2.pc /\ r3.result = r2.result /\ r3.out = o
  BY <1>11
<1>14. call' = [call EXCEPT ![c] = r3]
  BY <1>1, <1>2, <1>6, <1>10 DEF Return, TypeInv
<1>15. call' \in [Calls -> CallRec] /\ call'[c] = r3 /\ \A b \in Calls : b # c => call'[b] = call[b]
  BY <1>12, <1>14 DEF TypeInv
<1> QED BY <1>1, <1>5, <1>9, <1>13, <1>15

LEMMA BeginEffect ==
  ASSUME TypeInv, NEW c \in Calls, NEW mode \in Modes,
         call' = [call EXCEPT ![c] = [NoCall EXCEPT !.mode = mode, !.round = cur, !.pc = "created"]]
  PROVE  /\ call' \in [Calls -> CallRec]
         /\ \A b \in Calls : b # c => call'[b] = call[b]
         /\ call'[c].pc = "created" /\ call'[c].mode = mode /\ call'[c].result = None
<1>1. PICK n \in Nat : n = cur
  BY DEF TypeInv
<1>2. PICK e : e = <<>>
  OBVIOUS
<1>3. e \in Seq(Nat)
  BY <1>2, EmptySeq
<1>4. PICK q : q = [NoCall EXCEPT !.mode = mode, !.round = cur, !.pc = "created"]
  OBVIOUS
<1>5. q = [mode |-> mode, round |-> n, pc |-> "created", result |-> None, out |-> e]
  BY <1>1, <1>2, <1>4 DEF NoCall
<1>6. q \in CallRec
  BY <1>3, <1>5 DEF CallRec, Steps
<1>7. q.mode = mode /\ q.pc = "created" /\ q.result = None
  BY <1>5
<1> QED BY <1>4, <1>6, <1>7 DEF TypeInv

\* Records of sessions: one field.
LEMMA AttachEffect ==
  ASSUME TypeInv, NEW c \in Calls, sess' = [sess EXCEPT ![c].proc = TRUE]
  PROVE  /\ sess' \in [Calls -> SessRec] /\ \A b \in Calls : b # c => sess'[b] = sess[b]
         /\ sess'[c].state = sess[c].state /\ sess'[c].proc
<1>1. PICK r \in SessRec : r = sess[c]
  BY DEF TypeInv
<1>2. PICK q : q = [r EXCEPT !.proc = TRUE]
  OBVIOUS
<1>3. q = [state |-> r.state, proc |-> TRUE, killing |-> r.killing, timedOut |-> r.timedOut]
  BY <1>2 DEF SessRec
<1>4. q \in SessRec /\ q.state = r.state /\ q.proc
  BY <1>3 DEF SessRec
<1>5. sess \in [Calls -> SessRec]
  BY DEF TypeInv
<1>6. sess' = [sess EXCEPT ![c] = q]
  BY <1>1, <1>2, <1>5
<1>7. sess' \in [Calls -> SessRec] /\ sess'[c] = q /\ \A b \in Calls : b # c => sess'[b] = sess[b]
  BY <1>4, <1>5, <1>6
<1> QED BY <1>1, <1>4, <1>7

LEMMA KillingEffect ==
  ASSUME TypeInv, NEW c \in Calls, sess' = [sess EXCEPT ![c].killing = TRUE]
  PROVE  /\ sess' \in [Calls -> SessRec] /\ \A b \in Calls : b # c => sess'[b] = sess[b]
         /\ sess'[c].state = sess[c].state /\ sess'[c].proc = sess[c].proc
<1>1. PICK r \in SessRec : r = sess[c]
  BY DEF TypeInv
<1>2. PICK q : q = [r EXCEPT !.killing = TRUE]
  OBVIOUS
<1>3. q = [state |-> r.state, proc |-> r.proc, killing |-> TRUE, timedOut |-> r.timedOut]
  BY <1>2 DEF SessRec
<1>4. q \in SessRec /\ q.state = r.state /\ q.proc = r.proc
  BY <1>3 DEF SessRec
<1>5. sess \in [Calls -> SessRec]
  BY DEF TypeInv
<1>6. sess' = [sess EXCEPT ![c] = q]
  BY <1>1, <1>2, <1>5
<1>7. sess' \in [Calls -> SessRec] /\ sess'[c] = q /\ \A b \in Calls : b # c => sess'[b] = sess[b]
  BY <1>4, <1>5, <1>6
<1> QED BY <1>1, <1>4, <1>7

LEMMA TimedOutEffect ==
  ASSUME TypeInv, NEW c \in Calls, sess' = [sess EXCEPT ![c].timedOut = TRUE]
  PROVE  /\ sess' \in [Calls -> SessRec] /\ \A b \in Calls : b # c => sess'[b] = sess[b]
         /\ sess'[c].state = sess[c].state /\ sess'[c].proc = sess[c].proc
<1>1. PICK r \in SessRec : r = sess[c]
  BY DEF TypeInv
<1>2. PICK q : q = [r EXCEPT !.timedOut = TRUE]
  OBVIOUS
<1>3. q = [state |-> r.state, proc |-> r.proc, killing |-> r.killing, timedOut |-> TRUE]
  BY <1>2 DEF SessRec
<1>4. q \in SessRec /\ q.state = r.state /\ q.proc = r.proc
  BY <1>3 DEF SessRec
<1>5. sess \in [Calls -> SessRec]
  BY DEF TypeInv
<1>6. sess' = [sess EXCEPT ![c] = q]
  BY <1>1, <1>2, <1>5
<1>7. sess' \in [Calls -> SessRec] /\ sess'[c] = q /\ \A b \in Calls : b # c => sess'[b] = sess[b]
  BY <1>4, <1>5, <1>6
<1> QED BY <1>1, <1>4, <1>7

LEMMA FinishEffect ==
  ASSUME TypeInv, NEW c \in Calls, Finish(c)
  PROVE  /\ sess' \in [Calls -> SessRec] /\ \A b \in Calls : b # c => sess'[b] = sess[b]
         /\ sess'[c].state # "running" /\ sess'[c].proc = sess[c].proc
         /\ sup' = [sup EXCEPT ![c] = "done"]
<1>1. PICK r \in SessRec : r = sess[c]
  BY DEF TypeInv
<1>2. PICK w : w = IF r.timedOut THEN "timed_out" ELSE IF r.killing THEN "killed" ELSE "exited"
  OBVIOUS
<1>3. w \in {"exited", "killed", "timed_out"}
  BY <1>2
<1>4. PICK q : q = [r EXCEPT !.state = w]
  OBVIOUS
<1>5. q = [state |-> w, proc |-> r.proc, killing |-> r.killing, timedOut |-> r.timedOut]
  BY <1>4 DEF SessRec
<1>6. q \in SessRec /\ q.state = w /\ q.proc = r.proc
  BY <1>3, <1>5 DEF SessRec
<1>7. sess' = [sess EXCEPT ![c] = q]
  BY <1>1, <1>2, <1>4 DEF TypeInv, Finish
<1>8. sup' = [sup EXCEPT ![c] = "done"]
  BY DEF Finish
<1> QED BY <1>1, <1>3, <1>6, <1>7, <1>8 DEF TypeInv

\* SIGKILL, and Kill.
LEMMA SignalEffect ==
  ASSUME TypeInv, NEW c \in Calls, Signal(c)
  PROVE  /\ os' \in [Calls -> {"none", "run", "dead"}] /\ \A b \in Calls : b # c => os'[b] = os[b]
         /\ os'[c] # "run" /\ (os[c] = "dead" => os'[c] = "dead")
BY DEF TypeInv, Signal

LEMMA KillEffect ==
  ASSUME TypeInv, NEW c \in Calls, Kill(c)
  PROVE  /\ os' \in [Calls -> {"none", "run", "dead"}] /\ \A b \in Calls : b # c => os'[b] = os[b]
         /\ sess' \in [Calls -> SessRec] /\ \A b \in Calls : b # c => sess'[b] = sess[b]
         /\ sess'[c].state = sess[c].state /\ sess'[c].proc = sess[c].proc
         /\ os'[c] = os[c] \/ os'[c] = "dead"
         /\ Killable(c) => os'[c] # "run"
<1>1. CASE Killable(c)
  BY <1>1, KillingEffect, SignalEffect DEF Kill, TypeInv, Signal
<1>2. CASE ~ Killable(c)
  BY <1>2 DEF Kill, TypeInv
<1> QED BY <1>1, <1>2

-----------------------------------------------------------------------------
(* The bash tool *)

LEMMA BeginInv ==
  ASSUME ExecInv, NEW c \in Calls, NEW mode \in Modes, Begin(c, mode) PROVE ExecInv'
<1>1. /\ call' \in [Calls -> CallRec] /\ \A b \in Calls : b # c => call'[b] = call[b]
      /\ call'[c].pc = "created" /\ call'[c].mode = mode /\ call'[c].result = None
  BY BeginEffect DEF ExecInv, Begin
<1>2. call[c].pc = "idle" /\ call[c].mode = None
  BY DEF Begin, NoCall
<1>3. CallOK(c) /\ TypeInv
  BY DEF ExecInv
<1>4. UNCHANGED <<cur, sess, agg, unread, sup, os, pipe, wrote, waited, aged, cut, early, ptool>>
  BY DEF Begin, turn, buffers, proc, history
<1>5. /\ mode # "pty" => c \in listed'
      /\ \A b \in Calls : b \in listed \ aged => b \in listed'
  BY DEF Begin, Reaped
<1>6. TypeInv'
  BY <1>1, <1>3, <1>4 DEF TypeInv
<1>7. ASSUME NEW b \in Calls, b # c PROVE Same(b)
  BY <1>1, <1>4, <1>5, <1>7 DEF Same
<1>8. CallOK(c)'
  <2>1. LifeOK(c)'
    BY <1>1, <1>2, <1>3, <1>4 DEF CallOK, LifeOK
  <2>2. ReachOK(c)'
    BY <1>1, <1>2, <1>3, <1>4, <1>5 DEF CallOK, LifeOK, ReachOK
  <2>3. CopyOK(c)'
    <3>1. call[c].mode # "pty"
      BY <1>2, ExecSessionAssumption
    <3> QED BY <1>3, <1>4, <3>1 DEF CallOK, CopyOK
  <2>4. WholeOK(c)'
    <3>1. call[c].mode # "pty" /\ None \notin Ended
      BY <1>2, ExecSessionAssumption DEF Ended
    <3> QED BY <1>1, <1>3, <1>4, <3>1 DEF CallOK, WholeOK
  <2> QED BY <2>1, <2>2, <2>3, <2>4 DEF CallOK
<1> QED BY <1>4, <1>6, <1>7, <1>8, OneCall

LEMMA StartProcessInv ==
  ASSUME ExecInv, NEW c \in Calls, StartProcess(c) PROVE ExecInv'
<1>1. PICK w : w = IF call[c].mode = "pty" THEN "blocking" ELSE "started"
  OBVIOUS
<1>2. w \in Steps
  BY <1>1 DEF Steps
<1>3. call' = [call EXCEPT ![c].pc = w]
  BY <1>1 DEF StartProcess
<1>4. /\ call' \in [Calls -> CallRec] /\ \A b \in Calls : b # c => call'[b] = call[b]
      /\ call'[c].pc = w /\ call'[c].mode = call[c].mode /\ call'[c].result = call[c].result
      /\ call'[c].out = call[c].out
  BY <1>2, <1>3, MoveEffect DEF ExecInv
<1>5. CallOK(c) /\ TypeInv /\ call[c].pc = "created"
  BY DEF ExecInv, StartProcess
<1>6. UNCHANGED <<cur, sess, agg, unread, sup, pipe, wrote, waited, aged, cut, early, ptool, listed>>
  BY DEF StartProcess, turn, buffers, history
<1>7. os' = [os EXCEPT ![c] = "run"]
  BY DEF StartProcess
<1>8. TypeInv'
  BY <1>4, <1>5, <1>6, <1>7 DEF TypeInv
<1>9. ASSUME NEW b \in Calls, b # c PROVE Same(b)
  BY <1>4, <1>5, <1>6, <1>7, <1>9 DEF Same, TypeInv
<1>10. os'[c] = "run"
  BY <1>5, <1>7 DEF TypeInv
<1>11. CallOK(c)'
  <2>1. LifeOK(c)'
    BY <1>1, <1>4, <1>5, <1>6, <1>10 DEF CallOK, LifeOK
  <2>2. ReachOK(c)'
    BY <1>1, <1>4, <1>5, <1>6, <1>10 DEF CallOK, ReachOK
  <2>3. CopyOK(c)'
    BY <1>4, <1>5, <1>6 DEF CallOK, CopyOK
  <2>4. WholeOK(c)'
    BY <1>4, <1>5, <1>6 DEF CallOK, WholeOK
  <2> QED BY <2>1, <2>2, <2>3, <2>4 DEF CallOK
<1> QED BY <1>6, <1>8, <1>9, <1>11, OneCall

LEMMA StartFailsInv ==
  ASSUME ExecInv, NEW c \in Calls, StartFails(c) PROVE ExecInv'
<1>1. <<>> \in Seq(Nat) /\ "failed" \in Results /\ "failed" \notin Ended
  BY EmptySeq DEF Results, Ended
<1>2. /\ call' \in [Calls -> CallRec] /\ \A b \in Calls : b # c => call'[b] = call[b]
      /\ call'[c].pc = "returned" /\ call'[c].mode = call[c].mode /\ call'[c].result = "failed"
  BY <1>1, ReturnEffect DEF ExecInv, StartFails
<1>3. CallOK(c) /\ TypeInv /\ call[c].pc = "created"
  BY DEF ExecInv, StartFails
<1>4. UNCHANGED <<cur, sess, agg, unread, sup, os, pipe, wrote, waited, aged, cut, early, ptool>>
  BY DEF StartFails, turn, buffers, proc, history
<1>5. \A b \in Calls : b # c /\ b \in listed => b \in listed'
  BY DEF StartFails
<1>6. TypeInv'
  BY <1>2, <1>3, <1>4 DEF TypeInv
<1>7. ASSUME NEW b \in Calls, b # c PROVE Same(b)
  BY <1>2, <1>4, <1>5, <1>7 DEF Same
<1>8. CallOK(c)'
  <2>1. LifeOK(c)'
    BY <1>2, <1>3, <1>4 DEF CallOK, LifeOK
  <2>2. ReachOK(c)'
    BY <1>2, <1>3, <1>4 DEF CallOK, LifeOK, ReachOK
  <2>3. CopyOK(c)'
    BY <1>2, <1>3, <1>4 DEF CallOK, CopyOK
  <2>4. WholeOK(c)'
    BY <1>1, <1>2, <1>3, <1>4 DEF CallOK, WholeOK
  <2> QED BY <2>1, <2>2, <2>3, <2>4 DEF CallOK
<1> QED BY <1>4, <1>6, <1>7, <1>8, OneCall

LEMMA SuperviseInv ==
  ASSUME ExecInv, NEW c \in Calls, Supervise(c) PROVE ExecInv'
<1>1. CallOK(c) /\ TypeInv /\ call[c].pc = "started"
  BY DEF ExecInv, Supervise
<1>2. UNCHANGED <<cur, agg, unread, os, pipe, wrote, waited, aged, cut, early, ptool, listed>>
  BY DEF Supervise, turn, buffers, proc, history
<1>3. /\ sess' \in [Calls -> SessRec] /\ \A b \in Calls : b # c => sess'[b] = sess[b]
      /\ sess'[c].state = sess[c].state /\ sess'[c].proc
  BY AttachEffect DEF ExecInv, Supervise
<1>4. /\ sup' \in [Calls -> {"none", "watch", "kill", "done"}] /\ sup'[c] = "watch" /\ sup[c] = "none"
      /\ \A b \in Calls : b # c => sup'[b] = sup[b]
  BY <1>1 DEF TypeInv, Supervise, CallOK, LifeOK
<1>5. /\ call' \in [Calls -> CallRec] /\ \A b \in Calls : b # c => call'[b] = call[b]
      /\ call'[c].pc \in {"waiting", "returned"} /\ call'[c].mode = call[c].mode
      /\ call'[c].result = call[c].result \/ call'[c].result = "background"
      /\ call'[c].result = call[c].result => call'[c].out = call[c].out \/ call'[c].result = "background"
  <2>1. CASE call[c].mode = "bg"
    <3>1. agg[c] \in Seq(Nat) /\ "background" \in Results
      BY <1>1 DEF TypeInv, Results
    <3>2. Return(c, "background", agg[c])
      BY <2>1 DEF Supervise
    <3> QED BY <1>1, <3>1, <3>2, ReturnEffect
  <2>2. CASE call[c].mode # "bg"
    <3>1. call' = [call EXCEPT ![c].pc = "waiting"] /\ "waiting" \in Steps
      BY <2>2 DEF Supervise, Steps
    <3> QED BY <1>1, <3>1, MoveEffect
  <2> QED BY <2>1, <2>2
<1>6. TypeInv'
  BY <1>1, <1>2, <1>3, <1>4, <1>5 DEF TypeInv
<1>7. ASSUME NEW b \in Calls, b # c PROVE Same(b)
  BY <1>2, <1>3, <1>4, <1>5, <1>7 DEF Same
<1>8. CallOK(c)'
  <2>1. LifeOK(c)'
    BY <1>1, <1>2, <1>3, <1>4, <1>5 DEF CallOK, LifeOK
  <2>2. ReachOK(c)'
    BY <1>1, <1>2, <1>5 DEF CallOK, LifeOK, ReachOK
  <2>3. CopyOK(c)'
    BY <1>1, <1>2, <1>5 DEF CallOK, CopyOK
  <2>4. WholeOK(c)'
    <3>1. "background" \notin Ended
      BY DEF Ended
    <3> QED BY <1>1, <1>2, <1>4, <1>5, <3>1 DEF CallOK, WholeOK
  <2> QED BY <2>1, <2>2, <2>3, <2>4 DEF CallOK
<1> QED BY <1>2, <1>4, <1>6, <1>7, <1>8, OneCall

\* A call with a session answers with what is in its buffer: at the end, and out
\* of the registry, or before it.
LEMMA AnswerInv ==
  ASSUME ExecInv, NEW c \in Calls, NEW r \in Results, Return(c, r, agg[c]),
         UNCHANGED <<cur, sess, agg, unread, sup, os, pipe, wrote, waited, aged, cut, early, ptool>>,
         call[c].pc \in {"waiting", "aborting"}, listed \ {c} \subseteq listed',
         sup[c] = "done" \/ (r \notin Ended /\ listed' = listed)
  PROVE  ExecInv'
<1>1. CallOK(c) /\ TypeInv
  BY DEF ExecInv
<1>2. agg[c] \in Seq(Nat)
  BY <1>1 DEF TypeInv
<1>3. /\ call' \in [Calls -> CallRec] /\ \A b \in Calls : b # c => call'[b] = call[b]
      /\ call'[c].pc = "returned" /\ call'[c].mode = call[c].mode
      /\ call'[c].result = r /\ call'[c].out = agg[c]
  BY <1>1, <1>2, ReturnEffect
<1>4. TypeInv'
  BY <1>1, <1>3 DEF TypeInv
<1>5. ASSUME NEW b \in Calls, b # c PROVE Same(b)
  BY <1>3, <1>5 DEF Same
<1>6. call[c].mode # "pty"
  BY <1>1 DEF CallOK, LifeOK
<1>7. CallOK(c)'
  <2>1. LifeOK(c)'
    BY <1>1, <1>3 DEF CallOK, LifeOK
  <2>2. ReachOK(c)'
    <3>1. sup[c] = "done" => os[c] = "dead"
      BY <1>1 DEF CallOK, LifeOK
    <3> QED BY <1>1, <1>3, <3>1 DEF CallOK, ReachOK
  <2>3. CopyOK(c)'
    BY <1>1, <1>3 DEF CallOK, CopyOK
  <2>4. WholeOK(c)'
    <3>1. wrote[c] \in Nat
      BY <1>1 DEF TypeInv
    <3>2. sup[c] = "done" /\ c \notin cut => agg[c] = Suffix(wrote[c])
      BY <1>1, <1>6, <3>1, CopiedAll DEF CallOK, LifeOK, WholeOK
    <3>3. c \notin cut /\ waited[c] => pipe[c] = <<>>
      BY <1>1, <1>6 DEF CallOK, WholeOK
    <3> QED BY <1>3, <3>2, <3>3 DEF WholeOK
  <2> QED BY <2>1, <2>2, <2>3, <2>4 DEF CallOK
<1> QED BY <1>4, <1>5, <1>7, OneCall

LEMMA AwaitInv ==
  ASSUME ExecInv, NEW c \in Calls, AwaitDone(c) \/ AwaitYield(c) \/ AbortDone(c) PROVE ExecInv'
<1>1. UNCHANGED <<cur, sess, agg, unread, sup, os, pipe, wrote, waited, aged, cut, early, ptool>>
  BY DEF AwaitDone, AwaitYield, AbortDone, turn, buffers, proc, history
<1>2. listed \ {c} \subseteq listed' /\ call[c].pc \in {"waiting", "aborting"}
  BY DEF AwaitDone, AwaitYield, AbortDone
<1>3. CASE AwaitDone(c)
  <2>1. PICK r \in {"timeout", "exit"} : Return(c, r, agg[c])
    BY <1>3 DEF AwaitDone
  <2>2. r \in Results /\ sup[c] = "done"
    BY <1>3 DEF Results, Ended, AwaitDone
  <2> QED BY <1>1, <1>2, <2>1, <2>2, AnswerInv
<1>4. CASE AwaitYield(c)
  <2>1. "background" \in Results /\ "background" \notin Ended
    BY DEF Results, Ended
  <2>2. Return(c, "background", agg[c]) /\ listed' = listed
    BY <1>4 DEF AwaitYield
  <2> QED BY <1>1, <1>2, <2>1, <2>2, AnswerInv
<1>5. CASE AbortDone(c)
  <2>1. "aborted" \in Results /\ Return(c, "aborted", agg[c]) /\ sup[c] = "done"
    BY <1>5 DEF Results, Ended, AbortDone
  <2> QED BY <1>1, <1>2, <2>1, AnswerInv
<1> QED BY <1>3, <1>4, <1>5

LEMMA AwaitAbortInv ==
  ASSUME ExecInv, NEW c \in Calls, AwaitAbort(c) PROVE ExecInv'
<1>1. CallOK(c) /\ TypeInv /\ call[c].pc = "waiting"
  BY DEF ExecInv, AwaitAbort
<1>2. UNCHANGED <<cur, agg, unread, sup, pipe, wrote, waited, aged, cut, early, ptool, listed>>
  BY DEF AwaitAbort, turn, buffers, history
<1>3. /\ os' \in [Calls -> {"none", "run", "dead"}] /\ \A b \in Calls : b # c => os'[b] = os[b]
      /\ sess' \in [Calls -> SessRec] /\ \A b \in Calls : b # c => sess'[b] = sess[b]
      /\ sess'[c].state = sess[c].state /\ sess'[c].proc = sess[c].proc
      /\ os'[c] = os[c] \/ os'[c] = "dead"
  BY <1>1, KillEffect DEF AwaitAbort
<1>4. "aborting" \in Steps /\ call' = [call EXCEPT ![c].pc = "aborting"]
  BY DEF AwaitAbort, Steps
<1>5. /\ call' \in [Calls -> CallRec] /\ \A b \in Calls : b # c => call'[b] = call[b]
      /\ call'[c].pc = "aborting" /\ call'[c].mode = call[c].mode /\ call'[c].result = call[c].result
      /\ call'[c].out = call[c].out
  BY <1>1, <1>4, MoveEffect
<1>6. TypeInv'
  BY <1>1, <1>2, <1>3, <1>5 DEF TypeInv
<1>7. ASSUME NEW b \in Calls, b # c PROVE Same(b)
  BY <1>2, <1>3, <1>5, <1>7 DEF Same
<1>8. CallOK(c)'
  <2>1. LifeOK(c)'
    BY <1>1, <1>2, <1>3, <1>5 DEF CallOK, LifeOK
  <2>2. ReachOK(c)'
    BY <1>1, <1>2, <1>3, <1>5 DEF CallOK, LifeOK, ReachOK
  <2>3. CopyOK(c)'
    BY <1>1, <1>2, <1>5 DEF CallOK, CopyOK
  <2>4. WholeOK(c)'
    BY <1>1, <1>2, <1>5 DEF CallOK, WholeOK
  <2> QED BY <2>1, <2>2, <2>3, <2>4 DEF CallOK
<1> QED BY <1>2, <1>6, <1>7, <1>8, OneCall

\* The terminal is closed: its process is gone and its call is not of a session.
LEMMA TerminalCloseInv ==
  ASSUME ExecInv, NEW c \in Calls, TerminalExit(c) \/ TerminalTimeout(c) PROVE ExecInv'
<1>1. CallOK(c) /\ TypeInv /\ call[c].pc = "blocking" /\ call[c].mode = "pty"
  BY DEF ExecInv, TerminalExit, TerminalTimeout, CallOK, LifeOK
<1>2. UNCHANGED <<cur, sess, agg, unread, sup, wrote, waited, aged, cut, early, ptool, listed>>
  BY DEF TerminalExit, TerminalTimeout, turn, buffers, history
<1>3. /\ os' \in [Calls -> {"none", "run", "dead"}] /\ \A b \in Calls : b # c => os'[b] = os[b]
      /\ os'[c] # "run" /\ (os[c] = "dead" => os'[c] = "dead")
  BY <1>1, SignalEffect DEF TerminalExit, TerminalTimeout
<1>4. "closing" \in Steps /\ call' = [call EXCEPT ![c].pc = "closing"]
  BY DEF TerminalExit, TerminalTimeout, Steps
<1>5. /\ call' \in [Calls -> CallRec] /\ \A b \in Calls : b # c => call'[b] = call[b]
      /\ call'[c].pc = "closing" /\ call'[c].mode = "pty"
  BY <1>1, <1>4, MoveEffect
<1>6. pipe' \in [Calls -> Seq(Nat)] /\ \A b \in Calls : b # c => pipe'[b] = pipe[b]
  <2>1. PICK e : e = <<>>
    OBVIOUS
  <2>2. e \in Seq(Nat)
    BY <2>1, EmptySeq
  <2>3. pipe' = [pipe EXCEPT ![c] = e]
    BY <2>1 DEF TerminalExit, TerminalTimeout
  <2> QED BY <1>1, <2>2, <2>3 DEF TypeInv
<1>7. TypeInv'
  BY <1>1, <1>2, <1>3, <1>5, <1>6 DEF TypeInv
<1>8. ASSUME NEW b \in Calls, b # c PROVE Same(b)
  BY <1>2, <1>3, <1>5, <1>6, <1>8 DEF Same
<1>9. CallOK(c)'
  <2>1. LifeOK(c)'
    BY <1>1, <1>2, <1>3, <1>5 DEF CallOK, LifeOK
  <2>2. ReachOK(c)'
    BY <1>3, <1>5 DEF ReachOK
  <2> QED BY <1>5, <2>1, <2>2 DEF CallOK, CopyOK, WholeOK
<1> QED BY <1>2, <1>7, <1>8, <1>9, OneCall

LEMMA TerminalDoneInv ==
  ASSUME ExecInv, NEW c \in Calls, TerminalDone(c) PROVE ExecInv'
<1>1. CallOK(c) /\ TypeInv /\ call[c].pc = "closing" /\ call[c].mode = "pty" /\ agg[c] \in Seq(Nat)
  BY DEF ExecInv, TerminalDone, CallOK, LifeOK, TypeInv
<1>2. UNCHANGED <<cur, sess, agg, unread, sup, os, pipe, wrote, waited, aged, cut, early, ptool, listed>>
  BY DEF TerminalDone, turn, buffers, proc, history
<1>3. "exit" \in Results /\ Return(c, "exit", agg[c])
  BY DEF TerminalDone, Results, Ended
<1>4. /\ call' \in [Calls -> CallRec] /\ \A b \in Calls : b # c => call'[b] = call[b]
      /\ call'[c].pc = "returned" /\ call'[c].mode = "pty"
  BY <1>1, <1>3, ReturnEffect
<1>5. TypeInv'
  BY <1>1, <1>2, <1>4 DEF TypeInv
<1>6. ASSUME NEW b \in Calls, b # c PROVE Same(b)
  BY <1>2, <1>4, <1>6 DEF Same
<1>7. CallOK(c)'
  <2>1. LifeOK(c)'
    BY <1>1, <1>2, <1>4 DEF CallOK, LifeOK
  <2>2. ReachOK(c)'
    BY <1>1, <1>2, <1>4 DEF CallOK, ReachOK
  <2> QED BY <1>4, <2>1, <2>2 DEF CallOK, CopyOK, WholeOK
<1> QED BY <1>2, <1>5, <1>6, <1>7, OneCall

-----------------------------------------------------------------------------
(* The supervisor, the process, its pipe and the copier *)

LEMMA SuperviseExitInv ==
  ASSUME ExecInv, NEW c \in Calls, SuperviseExit(c) PROVE ExecInv'
<1>1. CallOK(c) /\ TypeInv /\ sup[c] \in {"watch", "kill"} /\ waited[c]
  BY DEF ExecInv, SuperviseExit
<1>2. UNCHANGED <<cur, call, agg, unread, os, pipe, wrote, waited, aged, cut, early, ptool, listed>>
  BY DEF SuperviseExit, turn, buffers, proc, history
<1>3. /\ sess' \in [Calls -> SessRec] /\ \A b \in Calls : b # c => sess'[b] = sess[b]
      /\ sess'[c].state # "running" /\ sess'[c].proc = sess[c].proc
      /\ sup' = [sup EXCEPT ![c] = "done"]
  BY <1>1, FinishEffect DEF SuperviseExit
<1>4. /\ sup' \in [Calls -> {"none", "watch", "kill", "done"}] /\ sup'[c] = "done"
      /\ \A b \in Calls : b # c => sup'[b] = sup[b]
  BY <1>1, <1>3 DEF TypeInv
<1>5. TypeInv'
  BY <1>1, <1>2, <1>3, <1>4 DEF TypeInv
<1>6. ASSUME NEW b \in Calls, b # c PROVE Same(b)
  BY <1>2, <1>3, <1>4, <1>6 DEF Same
<1>7. CallOK(c)'
  <2>1. LifeOK(c)'
    BY <1>1, <1>2, <1>3, <1>4 DEF CallOK, LifeOK
  <2>2. ReachOK(c)'
    BY <1>1, <1>2 DEF CallOK, ReachOK
  <2>3. CopyOK(c)'
    BY <1>1, <1>2 DEF CallOK, CopyOK
  <2>4. WholeOK(c)'
    BY <1>1, <1>2, <1>4 DEF CallOK, WholeOK
  <2> QED BY <2>1, <2>2, <2>3, <2>4 DEF CallOK
<1> QED BY <1>2, <1>4, <1>5, <1>6, <1>7, OneCall

LEMMA SuperviseTimeoutInv ==
  ASSUME ExecInv, NEW c \in Calls, SuperviseTimeout(c) PROVE ExecInv'
<1>1. CallOK(c) /\ TypeInv /\ sup[c] = "watch"
  BY DEF ExecInv, SuperviseTimeout
<1>2. UNCHANGED <<cur, call, agg, unread, pipe, wrote, waited, aged, cut, early, ptool, listed>>
  BY DEF SuperviseTimeout, turn, buffers, history
<1>3. /\ sess' \in [Calls -> SessRec] /\ \A b \in Calls : b # c => sess'[b] = sess[b]
      /\ sess'[c].state = sess[c].state /\ sess'[c].proc = sess[c].proc
  BY <1>1, TimedOutEffect DEF SuperviseTimeout
<1>4. /\ sup' \in [Calls -> {"none", "watch", "kill", "done"}] /\ sup'[c] = "kill"
      /\ \A b \in Calls : b # c => sup'[b] = sup[b]
  BY <1>1 DEF TypeInv, SuperviseTimeout
<1>5. /\ os' \in [Calls -> {"none", "run", "dead"}] /\ \A b \in Calls : b # c => os'[b] = os[b]
      /\ os'[c] # "run" /\ (os[c] = "dead" => os'[c] = "dead")
  BY <1>1, SignalEffect DEF SuperviseTimeout
<1>6. TypeInv'
  BY <1>1, <1>2, <1>3, <1>4, <1>5 DEF TypeInv
<1>7. ASSUME NEW b \in Calls, b # c PROVE Same(b)
  BY <1>2, <1>3, <1>4, <1>5, <1>7 DEF Same
<1>8. CallOK(c)'
  <2>1. LifeOK(c)'
    BY <1>1, <1>2, <1>3, <1>4, <1>5 DEF CallOK, LifeOK
  <2>2. ReachOK(c)'
    BY <1>1, <1>2, <1>5 DEF CallOK, ReachOK
  <2>3. CopyOK(c)'
    BY <1>1, <1>2 DEF CallOK, CopyOK
  <2>4. WholeOK(c)'
    BY <1>1, <1>2, <1>4 DEF CallOK, WholeOK
  <2> QED BY <2>1, <2>2, <2>3, <2>4 DEF CallOK
<1> QED BY <1>1, <1>2, <1>6, <1>7, <1>8, OneCall

LEMMA EmitInv ==
  ASSUME ExecInv, NEW c \in Calls, Emit(c) PROVE ExecInv'
<1>1. CallOK(c) /\ TypeInv /\ os[c] = "run"
  BY DEF ExecInv, Emit
<1>2. UNCHANGED <<cur, call, sess, sup, agg, unread, os, waited, aged, cut, early, ptool, listed>>
  BY DEF Emit, turn, buffers, history
<1>3. wrote[c] \in Nat /\ pipe[c] \in Seq(Nat)
  BY <1>1 DEF TypeInv
<1>4. PICK n \in Nat : n = wrote[c] + 1
  BY <1>3
<1>5. PICK p : p = Append(pipe[c], n)
  OBVIOUS
<1>6. p \in Seq(Nat)
  BY <1>3, <1>4, <1>5, AppendProperties
<1>7. pipe' = [pipe EXCEPT ![c] = p] /\ wrote' = [wrote EXCEPT ![c] = n]
  BY <1>4, <1>5 DEF Emit
<1>8. /\ pipe' \in [Calls -> Seq(Nat)] /\ pipe'[c] = p /\ \A b \in Calls : b # c => pipe'[b] = pipe[b]
      /\ wrote' \in [Calls -> Nat] /\ wrote'[c] = n /\ \A b \in Calls : b # c => wrote'[b] = wrote[b]
  BY <1>1, <1>4, <1>6, <1>7 DEF TypeInv
<1>9. TypeInv'
  BY <1>1, <1>2, <1>8 DEF TypeInv
<1>10. ASSUME NEW b \in Calls, b # c PROVE Same(b)
  BY <1>2, <1>8, <1>10 DEF Same
<1>11. CallOK(c)'
  <2>1. LifeOK(c)'
    BY <1>1, <1>2 DEF CallOK, LifeOK
  <2>2. ReachOK(c)'
    BY <1>1, <1>2 DEF CallOK, ReachOK
  <2>3. CopyOK(c)'
    <3> SUFFICES ASSUME call[c].mode # "pty"
                 PROVE  \E w, k \in Nat : \E u \in 0..Retained(k) :
                          /\ wrote'[c] = w /\ k <= w /\ pipe'[c] = Window(w, w - k)
                          /\ agg'[c] = Window(k, Retained(k)) /\ unread'[c] = Window(k, u)
      BY <1>2 DEF CopyOK
    <3>1. PICK w \in Nat, k \in Nat : \E u \in 0..Retained(k) :
            /\ wrote[c] = w /\ k <= w /\ pipe[c] = Window(w, w - k)
            /\ agg[c] = Window(k, Retained(k)) /\ unread[c] = Window(k, u)
      BY <1>1 DEF CallOK, CopyOK
    <3>2. w - k \in 0..w
      BY <3>1
    <3>3. p = Window(w + 1, (w - k) + 1)
      BY <1>4, <1>5, <3>1, <3>2, WindowAppend
    <3>4. w + 1 \in Nat /\ k <= w + 1 /\ (w + 1) - k = (w - k) + 1 /\ n = w + 1
      BY <1>4, <3>1
    <3>5. p = Window(w + 1, (w + 1) - k)
      BY <3>3, <3>4
    <3> QED BY <1>2, <1>8, <3>1, <3>4, <3>5
  <2>4. WholeOK(c)'
    <3>1. ~ waited[c] /\ sup[c] # "done"
      BY <1>1 DEF CallOK, LifeOK
    <3> QED BY <1>1, <1>2, <3>1 DEF CallOK, WholeOK
  <2> QED BY <2>1, <2>2, <2>3, <2>4 DEF CallOK
<1> QED BY <1>2, <1>9, <1>10, <1>11, OneCall

LEMMA ExitsInv ==
  ASSUME ExecInv, NEW c \in Calls, Exits(c) PROVE ExecInv'
<1>1. CallOK(c) /\ TypeInv /\ os[c] = "run"
  BY DEF ExecInv, Exits
<1>2. UNCHANGED <<cur, call, sess, sup, agg, unread, pipe, wrote, waited, aged, cut, early, ptool, listed>>
  BY DEF Exits, turn, buffers, history
<1>3. /\ os' \in [Calls -> {"none", "run", "dead"}] /\ os'[c] = "dead"
      /\ \A b \in Calls : b # c => os'[b] = os[b]
  BY <1>1 DEF Exits, TypeInv
<1>4. TypeInv'
  BY <1>1, <1>2, <1>3 DEF TypeInv
<1>5. ASSUME NEW b \in Calls, b # c PROVE Same(b)
  BY <1>2, <1>3, <1>5 DEF Same
<1>6. CallOK(c)'
  <2>1. LifeOK(c)'
    BY <1>1, <1>2, <1>3 DEF CallOK, LifeOK
  <2>2. ReachOK(c)'
    BY <1>1, <1>2, <1>3 DEF CallOK, ReachOK
  <2>3. CopyOK(c)'
    BY <1>1, <1>2 DEF CallOK, CopyOK
  <2>4. WholeOK(c)'
    BY <1>1, <1>2 DEF CallOK, WholeOK
  <2> QED BY <2>1, <2>2, <2>3, <2>4 DEF CallOK
<1> QED BY <1>2, <1>4, <1>5, <1>6, OneCall

LEMMA WaitInv ==
  ASSUME ExecInv, NEW c \in Calls, Wait(c) PROVE ExecInv'
<1>1. CallOK(c) /\ TypeInv /\ os[c] = "dead" /\ (Drained(c) => pipe[c] = <<>>)
  BY DEF ExecInv, Wait, Drained
<1>2. UNCHANGED <<cur, call, sess, sup, os, agg, unread, pipe, wrote, aged, early, ptool, listed>>
  BY DEF Wait, turn, buffers, proc
<1>3. /\ waited' \in [Calls -> BOOLEAN] /\ waited'[c]
      /\ \A b \in Calls : b # c => waited'[b] = waited[b]
  BY <1>1 DEF Wait, TypeInv
<1>4. cut' = IF Drained(c) THEN cut ELSE cut \cup {c}
  BY DEF Wait
<1>5. TypeInv'
  BY <1>1, <1>2, <1>3 DEF TypeInv
<1>6. ASSUME NEW b \in Calls, b # c PROVE Same(b)
  <2>1. b \in cut' <=> b \in cut
    BY <1>4, <1>6
  <2> QED BY <1>2, <1>3, <1>6, <2>1 DEF Same
<1>7. CallOK(c)'
  <2>1. LifeOK(c)'
    BY <1>1, <1>2, <1>3 DEF CallOK, LifeOK
  <2>2. ReachOK(c)'
    BY <1>1, <1>2 DEF CallOK, ReachOK
  <2>3. CopyOK(c)'
    BY <1>1, <1>2 DEF CallOK, CopyOK
  <2>4. WholeOK(c)'
    BY <1>1, <1>2, <1>4 DEF CallOK, WholeOK
  <2> QED BY <2>1, <2>2, <2>3, <2>4 DEF CallOK
<1> QED BY <1>2, <1>5, <1>6, <1>7, OneCall

LEMMA AgeInv ==
  ASSUME ExecInv, NEW c \in Calls, Age(c) PROVE ExecInv'
<1>1. CallOK(c) /\ TypeInv /\ sess[c].state # "running"
  BY DEF ExecInv, Age
<1>2. UNCHANGED <<cur, call, sess, sup, os, agg, unread, pipe, wrote, waited, cut, early, ptool, listed>>
  BY DEF Age, turn, buffers, proc, history
<1>3. aged' = aged \cup {c}
  BY DEF Age
<1>4. TypeInv'
  BY <1>1, <1>2 DEF TypeInv
<1>5. ASSUME NEW b \in Calls, b # c PROVE Same(b)
  BY <1>2, <1>3, <1>5 DEF Same
<1>6. CallOK(c)'
  <2>1. LifeOK(c)'
    BY <1>1, <1>2 DEF CallOK, LifeOK
  <2>2. ReachOK(c)'
    BY <1>1, <1>2 DEF CallOK, ReachOK
  <2>3. CopyOK(c)'
    BY <1>1, <1>2 DEF CallOK, CopyOK
  <2>4. WholeOK(c)'
    BY <1>1, <1>2 DEF CallOK, WholeOK
  <2> QED BY <2>1, <2>2, <2>3, <2>4 DEF CallOK
<1> QED BY <1>2, <1>4, <1>5, <1>6, OneCall

LEMMA CapWriteType ==
  ASSUME NEW b \in Seq(Nat), NEW x \in Nat PROVE CapWrite(b, x) \in Seq(Nat)
<1>1. PICK all : all = Append(b, x)
  OBVIOUS
<1>2. all \in Seq(Nat) /\ Len(all) \in Nat /\ BufferCap \in Nat /\ BufferCap > 0
  BY <1>1, AppendProperties, LenProperties, ExecSessionAssumption
<1>3. CASE Len(all) > BufferCap
  <2>1. PICK m \in Nat : m = Len(all) - BufferCap + 1
    <3>1. PICK n \in Nat : n = Len(all)
      BY <1>2
    <3>2. n - BufferCap + 1 \in Nat
      BY <1>2, <1>3, <3>1
    <3> QED BY <3>1, <3>2
  <2>2. \A i \in m..Len(all) : all[i] \in Nat
    <3>1. m >= 1
      BY <1>2, <1>3, <2>1
    <3> QED BY <1>2, <3>1, ElementOfSeq
  <2>3. SubSeq(all, m, Len(all)) \in Seq(Nat)
    BY <1>2, <2>2, SubSeqProperties
  <2> QED BY <1>1, <1>3, <2>1, <2>3 DEF CapWrite
<1>4. CASE ~ (Len(all) > BufferCap)
  BY <1>1, <1>2, <1>4 DEF CapWrite
<1> QED BY <1>3, <1>4

LEMMA CopyInv ==
  ASSUME ExecInv, NEW c \in Calls, Copy(c) PROVE ExecInv'
<1>1. CallOK(c) /\ TypeInv /\ pipe[c] # <<>>
  BY DEF ExecInv, Copy
<1>2. UNCHANGED <<cur, call, sess, sup, os, wrote, waited, aged, cut, early, ptool, listed>>
  BY DEF Copy, turn, history
<1>3. pipe[c] \in Seq(Nat) /\ agg[c] \in Seq(Nat) /\ unread[c] \in Seq(Nat)
  BY <1>1 DEF TypeInv
<1>4. PICK x \in Nat : x = Head(pipe[c])
  BY <1>1, <1>3, HeadTailProperties
<1>5. PICK p \in Seq(Nat) : p = Tail(pipe[c])
  BY <1>1, <1>3, HeadTailProperties
<1>6. PICK a \in Seq(Nat) : a = CapWrite(agg[c], x)
  BY <1>3, <1>4, CapWriteType
<1>7. PICK v \in Seq(Nat) : v = CapWrite(unread[c], x)
  BY <1>3, <1>4, CapWriteType
<1>8. /\ pipe' = [pipe EXCEPT ![c] = p] /\ agg' = [agg EXCEPT ![c] = a]
      /\ unread' = [unread EXCEPT ![c] = v]
  BY <1>4, <1>5, <1>6, <1>7 DEF Copy
<1>9. /\ pipe' \in [Calls -> Seq(Nat)] /\ pipe'[c] = p /\ \A b \in Calls : b # c => pipe'[b] = pipe[b]
      /\ agg' \in [Calls -> Seq(Nat)] /\ agg'[c] = a /\ \A b \in Calls : b # c => agg'[b] = agg[b]
      /\ unread' \in [Calls -> Seq(Nat)] /\ unread'[c] = v
      /\ \A b \in Calls : b # c => unread'[b] = unread[b]
  BY <1>1, <1>8 DEF TypeInv
<1>10. TypeInv'
  BY <1>1, <1>2, <1>9 DEF TypeInv
<1>11. ASSUME NEW b \in Calls, b # c PROVE Same(b)
  BY <1>2, <1>9, <1>11 DEF Same
<1>12. CallOK(c)'
  <2>1. LifeOK(c)'
    BY <1>1, <1>2 DEF CallOK, LifeOK
  <2>2. ReachOK(c)'
    BY <1>1, <1>2 DEF CallOK, ReachOK
  <2>3. CopyOK(c)'
    <3> SUFFICES ASSUME call[c].mode # "pty"
                 PROVE  \E w, k \in Nat : \E u \in 0..Retained(k) :
                          /\ wrote'[c] = w /\ k <= w /\ pipe'[c] = Window(w, w - k)
                          /\ agg'[c] = Window(k, Retained(k)) /\ unread'[c] = Window(k, u)
      BY <1>2 DEF CopyOK
    <3>1. PICK w \in Nat, k \in Nat : \E u \in 0..Retained(k) :
            /\ wrote[c] = w /\ k <= w /\ pipe[c] = Window(w, w - k)
            /\ agg[c] = Window(k, Retained(k)) /\ unread[c] = Window(k, u)
      BY <1>1 DEF CallOK, CopyOK
    <3>2. PICK u \in 0..Retained(k) :
            /\ wrote[c] = w /\ k <= w /\ pipe[c] = Window(w, w - k)
            /\ agg[c] = Window(k, Retained(k)) /\ unread[c] = Window(k, u)
      BY <3>1
    <3>3. w - k # 0
      <4>1. ASSUME w - k = 0 PROVE FALSE
        <5>1. 0 \in 0..w
          OBVIOUS
        <5>2. Window(w, 0) \in Seq(Nat) /\ Len(Window(w, 0)) = 0
          BY <5>1, WindowType
        <5>3. Window(w, 0) = <<>>
          BY <5>2, EmptySeq
        <5> QED BY <1>1, <3>2, <4>1, <5>3
      <4> QED BY <4>1
    <3>4. w - k \in 1..w /\ (w - k) - 1 = w - (k + 1) /\ (w - (w - k)) + 1 = k + 1 /\ k + 1 <= w /\ k + 1 \in Nat
      BY <3>2, <3>3
    <3>5. x = k + 1 /\ p = Window(w, w - (k + 1))
      <4>1. Head(Window(w, w - k)) = (w - (w - k)) + 1 /\ Tail(Window(w, w - k)) = Window(w, (w - k) - 1)
        BY <3>4, WindowTail
      <4> QED BY <1>4, <1>5, <3>2, <3>4, <4>1
    <3>6. Retained(k) \in Nat
      BY SuffixIsWindow
    <3>7. PICK n \in 0..Retained(k + 1) :
            /\ CapWrite(Window(k, Retained(k)), k + 1) = Window(k + 1, n) /\ n = Retained(k + 1)
      <4>1. Retained(k) \in 0..Retained(k)
        BY <3>6
      <4> QED BY <4>1, WindowCap
    <3>8. PICK m \in 0..Retained(k + 1) : CapWrite(Window(k, u), k + 1) = Window(k + 1, m)
      BY <3>2, WindowCap
    <3>9. a = Window(k + 1, Retained(k + 1)) /\ v = Window(k + 1, m)
      BY <1>6, <1>7, <3>2, <3>5, <3>7, <3>8
    <3>10. /\ wrote'[c] = w /\ k + 1 <= w /\ pipe'[c] = Window(w, w - (k + 1))
           /\ agg'[c] = Window(k + 1, Retained(k + 1)) /\ unread'[c] = Window(k + 1, m)
      BY <1>2, <1>9, <3>2, <3>4, <3>5, <3>9
    <3>11. PICK j \in Nat : j = k + 1
      BY <3>4
    <3>12. m \in 0..Retained(j)
      BY <3>8, <3>11
    <3> QED BY <3>10, <3>11, <3>12
  <2>4. WholeOK(c)'
    <3>1. call[c].mode # "pty" /\ c \notin cut => ~ waited[c] /\ sup[c] # "done"
      BY <1>1 DEF CallOK, LifeOK, WholeOK
    <3> QED BY <1>1, <1>2, <3>1 DEF CallOK, WholeOK
  <2> QED BY <2>1, <2>2, <2>3, <2>4 DEF CallOK
<1> QED BY <1>2, <1>10, <1>11, <1>12, OneCall

-----------------------------------------------------------------------------
(* The process tool, and the rounds *)

LEMMA PollOutputInv ==
  ASSUME ExecInv, PollOutput PROVE ExecInv'
<1>1. PICK c \in Calls : c = ptool.s
  BY DEF ExecInv, PollOK, PollOutput
<1>2. CallOK(c) /\ TypeInv
  BY DEF ExecInv
<1>3. UNCHANGED <<cur, call, sess, sup, os, agg, pipe, wrote, waited, aged, cut, early, listed>>
  BY DEF PollOutput, turn, proc, history
<1>4. PICK e : e = <<>>
  OBVIOUS
<1>5. e \in Seq(Nat)
  BY <1>4, EmptySeq
<1>6. unread' = [unread EXCEPT ![c] = e]
  BY <1>1, <1>4 DEF PollOutput
<1>7. /\ unread' \in [Calls -> Seq(Nat)] /\ unread'[c] = e
      /\ \A b \in Calls : b # c => unread'[b] = unread[b]
  BY <1>2, <1>5, <1>6 DEF TypeInv
<1>8. TypeInv'
  BY <1>2, <1>3, <1>7 DEF TypeInv
<1>9. ASSUME NEW b \in Calls, b # c PROVE CallOK(b)'
  <2>1. Same(b)
    BY <1>3, <1>7, <1>9 DEF Same
  <2> QED BY <2>1, SameOK DEF ExecInv
<1>10. CallOK(c)'
  <2>1. LifeOK(c)'
    BY <1>2, <1>3, <1>4, <1>7 DEF CallOK, LifeOK
  <2>2. ReachOK(c)'
    BY <1>2, <1>3 DEF CallOK, ReachOK
  <2>3. CopyOK(c)'
    <3> SUFFICES ASSUME call[c].mode # "pty"
                 PROVE  \E w, k \in Nat : \E u \in 0..Retained(k) :
                          /\ wrote'[c] = w /\ k <= w /\ pipe'[c] = Window(w, w - k)
                          /\ agg'[c] = Window(k, Retained(k)) /\ unread'[c] = Window(k, u)
      BY <1>3 DEF CopyOK
    <3>1. PICK w \in Nat, k \in Nat : \E u \in 0..Retained(k) :
            /\ wrote[c] = w /\ k <= w /\ pipe[c] = Window(w, w - k)
            /\ agg[c] = Window(k, Retained(k)) /\ unread[c] = Window(k, u)
      BY <1>2 DEF CallOK, CopyOK
    <3>2. Retained(k) \in Nat
      BY SuffixIsWindow
    <3>3. 0 \in 0..k /\ 0 \in 0..Retained(k)
      BY <3>2
    <3>4. Window(k, 0) \in Seq(Nat) /\ Len(Window(k, 0)) = 0
      BY <3>3, WindowType
    <3>5. e = Window(k, 0)
      BY <1>4, <3>4, EmptySeq
    <3> QED BY <1>3, <1>7, <3>1, <3>3, <3>5
  <2>4. WholeOK(c)'
    BY <1>2, <1>3 DEF CallOK, WholeOK
  <2> QED BY <2>1, <2>2, <2>3, <2>4 DEF CallOK
<1>11. PollOK'
  BY DEF PollOutput, PollOK, NoTool
<1> QED BY <1>8, <1>9, <1>10, <1>11 DEF ExecInv

\* A session is killed: by kill, or by remove, out of the registry.
LEMMA KilledInv ==
  ASSUME ExecInv, NEW c \in Calls, Kill(c), PollOK',
         UNCHANGED <<cur, call, agg, unread, sup, pipe, wrote, waited, aged, cut>>,
         \A b \in Calls : b # c => (b \in early' <=> b \in early) /\ (b \in listed \ aged => b \in listed'),
         \/ UNCHANGED early /\ (c \in listed \ aged => c \in listed')
         \/ early' = (IF sess[c].proc THEN early ELSE early \cup {c})
  PROVE  ExecInv'
<1>1. CallOK(c) /\ TypeInv
  BY DEF ExecInv
<1>2. /\ os' \in [Calls -> {"none", "run", "dead"}] /\ \A b \in Calls : b # c => os'[b] = os[b]
      /\ sess' \in [Calls -> SessRec] /\ \A b \in Calls : b # c => sess'[b] = sess[b]
      /\ sess'[c].state = sess[c].state /\ sess'[c].proc = sess[c].proc
      /\ os'[c] = os[c] \/ os'[c] = "dead"
      /\ Killable(c) => os'[c] # "run"
  BY <1>1, KillEffect
<1>3. TypeInv'
  BY <1>1, <1>2 DEF TypeInv
<1>4. ASSUME NEW b \in Calls, b # c PROVE CallOK(b)'
  <2>1. Same(b)
    BY <1>2, <1>4 DEF Same
  <2> QED BY <2>1, SameOK DEF ExecInv
<1>5. CallOK(c)'
  <2>1. LifeOK(c)'
    <3>1. ~ sess[c].proc => UNCHANGED os
      BY DEF Kill, Killable
    <3> QED BY <1>1, <1>2, <3>1 DEF CallOK, LifeOK
  <2>2. ReachOK(c)'
    <3>1. CASE UNCHANGED early /\ (c \in listed \ aged => c \in listed')
      <4>1. os[c] = "run" \/ call[c].pc = "created" => c \notin aged
        BY <1>1 DEF CallOK, LifeOK
      <4> QED BY <1>1, <1>2, <3>1, <4>1 DEF CallOK, ReachOK
    <3>2. CASE early' = (IF sess[c].proc THEN early ELSE early \cup {c})
      <4>1. CASE sess[c].proc
        <5>1. sess[c].state # "running" => os[c] = "dead"
          BY <1>1 DEF CallOK, LifeOK
        <5>2. os'[c] # "run"
          BY <1>2, <4>1, <5>1 DEF Killable
        <5>3. call[c].pc # "created"
          BY <1>1, <4>1 DEF CallOK, LifeOK
        <5> QED BY <5>2, <5>3 DEF ReachOK
      <4>2. CASE ~ sess[c].proc
        BY <3>2, <4>2 DEF ReachOK
      <4> QED BY <4>1, <4>2
    <3> QED BY <3>1, <3>2
  <2>3. CopyOK(c)'
    BY <1>1 DEF CallOK, CopyOK
  <2>4. WholeOK(c)'
    BY <1>1 DEF CallOK, WholeOK
  <2> QED BY <2>1, <2>2, <2>3, <2>4 DEF CallOK
<1> QED BY <1>3, <1>4, <1>5 DEF ExecInv

LEMMA ToolKillInv ==
  ASSUME ExecInv, NEW c \in Calls, ToolKill(c) PROVE ExecInv'
<1>1. UNCHANGED <<cur, call, agg, unread, sup, pipe, wrote, waited, aged, cut, early>> /\ Kill(c)
  BY DEF ToolKill, turn, buffers, history
<1>2. \A b \in Calls : b \in listed \ aged => b \in listed'
  BY DEF ToolKill, ToolCall, Reaped
<1>3. PollOK'
  BY DEF ToolKill, ToolCall, ExecInv, PollOK, NoTool
<1> QED BY <1>1, <1>2, <1>3, KilledInv

LEMMA ToolRemoveInv ==
  ASSUME ExecInv, NEW c \in Calls, ToolRemove(c) PROVE ExecInv'
<1>1. UNCHANGED <<cur, call, agg, unread, sup, pipe, wrote, waited, aged, cut>> /\ Kill(c)
  BY DEF ToolRemove, turn, buffers
<1>2. early' = (IF sess[c].proc THEN early ELSE early \cup {c})
  BY DEF ToolRemove
<1>3. \A b \in Calls : b # c => (b \in early' <=> b \in early) /\ (b \in listed \ aged => b \in listed')
  BY <1>2 DEF ToolRemove
<1>4. PollOK'
  BY <1>1 DEF ToolRemove, ExecInv, PollOK
<1> QED BY <1>1, <1>2, <1>3, <1>4, KilledInv

LEMMA PollStatusInv ==
  ASSUME ExecInv, NEW c \in Calls, PollStatus(c) PROVE ExecInv'
<1>1. UNCHANGED <<call, sess, sup, os, agg, unread, pipe, wrote, waited, aged, cut, early>> /\ cur' \in Nat
  BY DEF PollStatus, turn, buffers, proc, history, ExecInv, TypeInv
<1>2. Reaped(listed) \subseteq listed'
  BY DEF PollStatus, ToolCall
<1>3. PollOK'
  BY <1>1 DEF PollStatus, ExecInv, PollOK, CallOK, LifeOK
<1> QED BY <1>1, <1>2, <1>3, NoCallMoves

\* The steps of no call.
LEMMA QuietInv ==
  ASSUME ExecInv,
         \/ Interrupt \/ Drain \/ EndRound \/ NextRound \/ KillDone
         \/ \E c \in Calls : Escapes(c) \/ Hand(c) \/ ToolLook(c)
  PROVE  ExecInv'
<1>1. UNCHANGED <<call, sess, sup, os, agg, unread, pipe, wrote, waited, aged, cut, early>>
  BY DEF Interrupt, Drain, EndRound, NextRound, KillDone, Escapes, Hand, ToolLook, turn, buffers, proc, history
<1>2. cur' \in Nat
  BY DEF Interrupt, Drain, EndRound, NextRound, KillDone, Escapes, Hand, ToolLook, turn, ExecInv, TypeInv
<1>3. Reaped(listed) \subseteq listed'
  BY DEF Interrupt, Drain, EndRound, NextRound, KillDone, Escapes, Hand, ToolLook, ToolCall, Reaped
<1>4. PollOK'
  <2>1. ptool' = NoTool \/ ptool' = ptool
    BY DEF Interrupt, Drain, EndRound, NextRound, KillDone, Escapes, Hand, ToolLook
  <2> QED BY <1>1, <2>1 DEF ExecInv, PollOK, NoTool
<1> QED BY <1>1, <1>2, <1>3, <1>4, NoCallMoves

-----------------------------------------------------------------------------
(* The theorems *)

LEMMA ExecInvInit == Init => ExecInv
<1> SUFFICES ASSUME Init PROVE ExecInv
  OBVIOUS
<1>1. PICK e : e = <<>>
  OBVIOUS
<1>2. e \in Seq(Nat)
  BY <1>1, EmptySeq
<1>3. PICK n : n = NoCall
  OBVIOUS
<1>4. n = [mode |-> None, round |-> 0, pc |-> "idle", result |-> None, out |-> e]
  BY <1>1, <1>3 DEF NoCall
<1>5. n \in CallRec /\ n.pc = "idle" /\ n.result = None /\ n.mode = None
  BY <1>2, <1>4 DEF CallRec, Steps
<1>6. PICK s : s = NewSession
  OBVIOUS
<1>7. s \in SessRec /\ s.state = "running" /\ ~ s.proc
  BY <1>6 DEF NewSession, SessRec
<1>8. /\ call = [c \in Calls |-> n] /\ sess = [c \in Calls |-> s] /\ agg = [c \in Calls |-> e]
      /\ unread = [c \in Calls |-> e] /\ pipe = [c \in Calls |-> e]
      /\ sup = [c \in Calls |-> "none"] /\ os = [c \in Calls |-> "none"] /\ wrote = [c \in Calls |-> 0]
      /\ waited = [c \in Calls |-> FALSE] /\ cur = 1 /\ aged = {}
  BY <1>1, <1>3, <1>6 DEF Init
<1>9. TypeInv
  BY <1>2, <1>5, <1>7, <1>8 DEF TypeInv
<1>10. PollOK
  BY DEF Init, PollOK, NoTool
<1>11. ASSUME NEW c \in Calls PROVE CallOK(c)
  <2>1. LifeOK(c)
    BY <1>1, <1>5, <1>7, <1>8 DEF LifeOK
  <2>2. ReachOK(c)
    BY <1>5, <1>8 DEF ReachOK
  <2>3. CopyOK(c)
    <3>1. Retained(0) \in 0..0
      BY SuffixIsWindow
    <3>2. Retained(0) = 0 /\ 0 \in 0..Retained(0) /\ 0 \in 0..0
      BY <3>1
    <3>3. Window(0, 0) \in Seq(Nat) /\ Len(Window(0, 0)) = 0
      BY <3>2, WindowType
    <3>4. e = Window(0, 0)
      BY <1>1, <3>3, EmptySeq
    <3>5. 0 - 0 = 0 /\ 0 <= 0 /\ 0 \in Nat
      OBVIOUS
    <3>6. wrote[c] = 0 /\ pipe[c] = e /\ agg[c] = e /\ unread[c] = e
      BY <1>8
    <3> QED BY <3>2, <3>4, <3>5, <3>6 DEF CopyOK
  <2>4. WholeOK(c)
    <3>1. None \notin Ended
      BY ExecSessionAssumption DEF Ended
    <3> QED BY <1>5, <1>8, <3>1 DEF WholeOK
  <2> QED BY <2>1, <2>2, <2>3, <2>4 DEF CallOK
<1> QED BY <1>9, <1>10, <1>11 DEF ExecInv

LEMMA ExecInvStep == ExecInv /\ [Next]_vars => ExecInv'
<1> SUFFICES ASSUME ExecInv, [Next]_vars PROVE ExecInv'
  OBVIOUS
<1>1. CASE UNCHANGED vars
  <2>1. UNCHANGED <<call, sess, sup, os, agg, unread, pipe, wrote, waited, aged, cut, early, ptool, listed, cur>>
    BY <1>1 DEF vars, turn, buffers, proc, history
  <2>2. cur' \in Nat /\ Reaped(listed) \subseteq listed' /\ PollOK'
    BY <2>1 DEF ExecInv, TypeInv, PollOK, Reaped
  <2> QED BY <2>1, <2>2, NoCallMoves
<1>2. CASE System
  <2>1. CASE Drain \/ EndRound \/ KillDone
    BY <2>1, QuietInv
  <2>2. CASE PollOutput
    BY <2>2, PollOutputInv
  <2>3. ASSUME NEW c \in Calls, SuperviseExit(c) \/ SuperviseTimeout(c) \/ Copy(c) \/ Hand(c) \/ Wait(c)
        PROVE  ExecInv'
    BY <2>3, SuperviseExitInv, SuperviseTimeoutInv, CopyInv, QuietInv, WaitInv
  <2>4. ASSUME NEW c \in Calls, StartProcess(c) \/ StartFails(c) \/ Supervise(c)
        PROVE  ExecInv'
    BY <2>4, StartProcessInv, StartFailsInv, SuperviseInv
  <2>5. ASSUME NEW c \in Calls, AwaitDone(c) \/ AwaitYield(c) \/ AwaitAbort(c) \/ AbortDone(c)
        PROVE  ExecInv'
    BY <2>5, AwaitInv, AwaitAbortInv
  <2>6. ASSUME NEW c \in Calls, TerminalExit(c) \/ TerminalTimeout(c) \/ TerminalDone(c)
        PROVE  ExecInv'
    BY <2>6, TerminalCloseInv, TerminalDoneInv
  <2> QED BY <1>2, <2>1, <2>2, <2>3, <2>4, <2>5, <2>6 DEF System
<1>3. CASE Environment
  <2>1. CASE Interrupt \/ NextRound
    BY <2>1, QuietInv
  <2>2. ASSUME NEW c \in Calls, Age(c) \/ Emit(c) \/ Exits(c) \/ Escapes(c)
        PROVE  ExecInv'
    BY <2>2, AgeInv, EmitInv, ExitsInv, QuietInv
  <2>3. ASSUME NEW c \in Calls, NEW mode \in {"fg", "bg", "pty"}, Begin(c, mode)
        PROVE  ExecInv'
    BY <2>3, BeginInv DEF Modes
  <2>4. ASSUME NEW c \in Calls, ToolLook(c) \/ PollStatus(c) \/ ToolKill(c) \/ ToolRemove(c)
        PROVE  ExecInv'
    BY <2>4, QuietInv, PollStatusInv, ToolKillInv, ToolRemoveInv
  <2> QED BY <1>3, <2>1, <2>2, <2>3, <2>4 DEF Environment
<1> QED BY <1>1, <1>2, <1>3 DEF Next

LEMMA ExecInvCorrect == Spec => []ExecInv
BY ExecInvInit, ExecInvStep, PTL DEF Spec

\* The end of a command is told only with all of its output, by the bash tool and
\* by poll (runSession, supervise, LocalExecutor.Start), whatever the interleaving
\* of process, copier, supervisor, deadline, kill, removal and interrupt.
THEOREM OutputWholeCorrect == Spec => []OutputWhole
<1>1. ExecInv => OutputWhole
  BY ExecInvWhole
<1> QED BY <1>1, ExecInvCorrect, PTL

\* No command runs where nobody can reach it: the registry has its session or its
\* call still waits for it (SessionRegistry, runSession, the process tool's remove).
THEOREM NoStrayCorrect == Spec => []NoStray
<1>1. ExecInv => NoStray
  BY ExecInvWhole
<1> QED BY <1>1, ExecInvCorrect, PTL
=============================================================================
