------------------------- MODULE FigaroTurnClients -------------------------
(***************************************************************************)
(* What clients send to the turn loop and what they see of it, for every   *)
(* value of the constants: every accepted event is in one place, in the    *)
(* order in which it was accepted; where forks run and what results say;   *)
(* the committed units never show a message twice, and between turns they  *)
(* show all of the log unless something went wrong.                        *)
(***************************************************************************)
EXTENDS FigaroTurnProofs, WellFoundedInduction

-----------------------------------------------------------------------------
(* The line: the log, then what the drain loop holds, then the queue *)

Before(a, x, y) == \E m, n \in DOMAIN a : m < n /\ a[m] = x /\ a[n] = y
Known(a, x)     == \E m \in DOMAIN a : a[m] = x

\* The line l, c, q is in the order of a.
LineOK(a, l, c, q) ==
  /\ \A i \in DOMAIN l : l[i].event # NoEvent =>
       /\ Known(a, l[i].event)
       /\ \A j \in DOMAIN l : i < j /\ l[j].event # NoEvent => Before(a, l[i].event, l[j].event)
       /\ \A j \in DOMAIN c : Before(a, l[i].event, c[j])
       /\ \A j \in DOMAIN q : Before(a, l[i].event, q[j])
  /\ \A i \in DOMAIN c :
       /\ Known(a, c[i])
       /\ \A j \in DOMAIN c : i < j => Before(a, c[i], c[j])
       /\ \A j \in DOMAIN q : Before(a, c[i], q[j])
  /\ \A i \in DOMAIN q :
       /\ Known(a, q[i])
       /\ \A j \in DOMAIN q : i < j => Before(a, q[i], q[j])

\* A prompt is in the line.
Holds(l, c, q, p) ==
  \/ \E i \in DOMAIN l : l[i].kind = "prompt" /\ l[i].event = p
  \/ \E i \in DOMAIN c : c[i] = p
  \/ \E i \in DOMAIN q : q[i] = p

\* The log m is l with messages of the agent's own behind it.
Grown(l, m) ==
  /\ Len(l) <= Len(m)
  /\ \A i \in 1..Len(l) : m[i] = l[i]
  /\ \A i \in Len(l) + 1..Len(m) : m[i].event = NoEvent

LEMMA GrownSame ==
  ASSUME NEW l \in Seq(Entry) PROVE Grown(l, l)
<1>1. Len(l) \in Nat
  OBVIOUS
<1> QED BY <1>1 DEF Grown

LEMMA GrownAppend ==
  ASSUME NEW l \in Seq(Entry), NEW m \in Seq(Entry), NEW e \in Entry, Grown(l, m), e.event = NoEvent
  PROVE  Grown(l, Append(m, e))
<1>1. Append(m, e) \in Seq(Entry) /\ Len(Append(m, e)) = Len(m) + 1 /\ Append(m, e)[Len(m) + 1] = e
      /\ \A i \in 1..Len(m) : Append(m, e)[i] = m[i]
  BY AppendProperties
<1>2. Len(l) \in Nat /\ Len(m) \in Nat
  OBVIOUS
<1> QED BY <1>1, <1>2 DEF Grown

\* The agent's own messages do not touch the line.
LEMMA LineGrown ==
  ASSUME NEW a \in Seq(Events), NEW l \in Seq(Entry), NEW c \in Seq(Prompts), NEW q \in Seq(Events),
         NEW m \in Seq(Entry), Grown(l, m), LineOK(a, l, c, q)
  PROVE  LineOK(a, m, c, q) /\ \A p \in Prompts : Holds(m, c, q, p) <=> Holds(l, c, q, p)
<1>1. Len(l) \in Nat /\ Len(m) \in Nat /\ DOMAIN l = 1..Len(l) /\ DOMAIN m = 1..Len(m)
  OBVIOUS
<1>2. \A i \in DOMAIN m : m[i].event # NoEvent => i \in DOMAIN l /\ m[i] = l[i]
  BY <1>1 DEF Grown
<1>3. \A i \in DOMAIN l : i \in DOMAIN m /\ m[i] = l[i]
  BY <1>1 DEF Grown
<1>4. LineOK(a, m, c, q)
  BY <1>2 DEF LineOK
<1>5. \A p \in Prompts : p # NoEvent
  BY TranscriptAssumption
<1>6. \A p \in Prompts : Holds(m, c, q, p) <=> Holds(l, c, q, p)
  BY <1>2, <1>3, <1>5 DEF Holds
<1> QED BY <1>4, <1>6

\* The front of the queue is taken away.
LEMMA LineDrop ==
  ASSUME NEW a \in Seq(Events), NEW l \in Seq(Entry), NEW c \in Seq(Prompts), NEW q \in Seq(Events),
         NEW n \in 0..Len(q), LineOK(a, l, c, q)
  PROVE  /\ LineOK(a, l, c, Drop(q, n))
         /\ \A p : Holds(l, c, Drop(q, n), p) => Holds(l, c, q, p)
         /\ \A p : (\A i \in 1..n : q[i] # p) /\ Holds(l, c, q, p) => Holds(l, c, Drop(q, n), p)
<1>1. PICK d : d = Drop(q, n)
  OBVIOUS
<1>2. Len(q) \in Nat /\ n \in Nat /\ DOMAIN q = 1..Len(q)
  OBVIOUS
<1>3. d \in Seq(Events) /\ Len(d) = Len(q) - n /\ DOMAIN d = 1..Len(q) - n
      /\ \A i \in 1..Len(q) - n : d[i] = q[n + i]
  BY <1>1 DEF Drop
<1>4. \A i \in DOMAIN d : n + i \in DOMAIN q /\ d[i] = q[n + i]
  BY <1>2, <1>3
<1>5. \A i, j \in DOMAIN d : i < j => n + i < n + j
  BY <1>2, <1>3
<1>6. LineOK(a, l, c, d)
  BY <1>4, <1>5 DEF LineOK
<1>7. \A i \in DOMAIN q : i \in 1..n \/ \E j \in DOMAIN d : d[j] = q[i]
  <2> SUFFICES ASSUME NEW i \in DOMAIN q, i \notin 1..n PROVE \E j \in DOMAIN d : d[j] = q[i]
    OBVIOUS
  <2>1. PICK j \in DOMAIN d : n + j = i
    <3>1. i - n \in DOMAIN d /\ n + (i - n) = i
      BY <1>2, <1>3
    <3> QED BY <3>1
  <2> QED BY <1>4, <2>1
<1>8. \A p : Holds(l, c, d, p) => Holds(l, c, q, p)
  BY <1>4 DEF Holds
<1>9. \A p : (\A i \in 1..n : q[i] # p) /\ Holds(l, c, q, p) => Holds(l, c, d, p)
  BY <1>7 DEF Holds
<1> QED BY <1>1, <1>6, <1>8, <1>9

\* Events are taken from the queue in front, n of them dropped, m held.
LEMMA LineTake ==
  ASSUME NEW a \in Seq(Events), NEW l \in Seq(Entry), NEW q \in Seq(Events),
         NEW n \in 0..Len(q), NEW m \in 0..Len(q) - n, LineOK(a, l, <<>>, q)
  PROVE  /\ LineOK(a, l, SubSeq(q, n + 1, n + m), Drop(q, n + m))
         /\ \A p : Holds(l, SubSeq(q, n + 1, n + m), Drop(q, n + m), p) => Holds(l, <<>>, q, p)
         /\ \A p : (\A i \in 1..n : q[i] # p) /\ Holds(l, <<>>, q, p) =>
              Holds(l, SubSeq(q, n + 1, n + m), Drop(q, n + m), p)
<1>1. PICK d : d = Drop(q, n + m)
  OBVIOUS
<1>2. PICK c : c = SubSeq(q, n + 1, n + m)
  OBVIOUS
<1>3. Len(q) \in Nat /\ n \in Nat /\ m \in Nat /\ n + m <= Len(q) /\ DOMAIN q = 1..Len(q)
  OBVIOUS
<1>4. DOMAIN d = 1..Len(q) - (n + m) /\ \A i \in 1..Len(q) - (n + m) : d[i] = q[n + m + i]
  BY <1>1, <1>3 DEF Drop
<1>5. DOMAIN c = 1..m /\ \A i \in 1..m : c[i] = q[n + i]
  BY <1>2, <1>3
<1>6. \A i \in DOMAIN d : n + m + i \in DOMAIN q /\ d[i] = q[n + m + i]
  BY <1>3, <1>4
<1>7. \A i \in DOMAIN c : n + i \in DOMAIN q /\ c[i] = q[n + i]
  BY <1>3, <1>5
<1>8. /\ \A i, j \in DOMAIN d : i < j => n + m + i < n + m + j
      /\ \A i, j \in DOMAIN c : i < j => n + i < n + j
      /\ \A i \in DOMAIN c, j \in DOMAIN d : n + i < n + m + j
  BY <1>3, <1>4, <1>5
<1>9. LineOK(a, l, c, d)
  BY <1>6, <1>7, <1>8 DEF LineOK
<1>10. \A i \in DOMAIN q : \/ i \in 1..n
                           \/ \E j \in DOMAIN c : c[j] = q[i]
                           \/ \E j \in DOMAIN d : d[j] = q[i]
  <2> SUFFICES ASSUME NEW i \in DOMAIN q, i \notin 1..n
               PROVE  (\E j \in DOMAIN c : c[j] = q[i]) \/ \E j \in DOMAIN d : d[j] = q[i]
    OBVIOUS
  <2>1. CASE i <= n + m
    <3>1. PICK j \in DOMAIN c : n + j = i
      <4>1. i - n \in DOMAIN c /\ n + (i - n) = i
        BY <1>3, <1>5, <2>1
      <4> QED BY <4>1
    <3> QED BY <1>7, <3>1
  <2>2. CASE ~ (i <= n + m)
    <3>1. PICK j \in DOMAIN d : n + m + j = i
      <4>1. i - (n + m) \in DOMAIN d /\ n + m + (i - (n + m)) = i
        BY <1>3, <1>4, <2>2
      <4> QED BY <4>1
    <3> QED BY <1>6, <3>1
  <2> QED BY <2>1, <2>2
<1>11. \A p : Holds(l, c, d, p) => Holds(l, <<>>, q, p)
  BY <1>6, <1>7 DEF Holds
<1>12. \A p : (\A i \in 1..n : q[i] # p) /\ Holds(l, <<>>, q, p) => Holds(l, c, d, p)
  BY <1>10 DEF Holds
<1> QED BY <1>1, <1>2, <1>9, <1>11, <1>12

\* The first event held goes to the log.
LEMMA LineWrite ==
  ASSUME NEW a \in Seq(Events), NEW l \in Seq(Entry), NEW c \in Seq(Events), NEW q \in Seq(Events),
         c # <<>>, NEW e \in Entry, e.event = Head(c), LineOK(a, l, c, q)
  PROVE  /\ LineOK(a, Append(l, e), Tail(c), q)
         /\ \A p : Holds(Append(l, e), Tail(c), q, p) => Holds(l, c, q, p)
         /\ \A p : (e.kind = "prompt" \/ p # Head(c)) /\ Holds(l, c, q, p) =>
              Holds(Append(l, e), Tail(c), q, p)
<1>1. PICK m : m = Append(l, e)
  OBVIOUS
<1>2. PICK t : t = Tail(c)
  OBVIOUS
<1>3. Len(l) \in Nat /\ Len(c) \in Nat /\ Len(c) > 0 /\ DOMAIN l = 1..Len(l) /\ DOMAIN c = 1..Len(c)
      /\ Head(c) = c[1]
  BY EmptySeq
<1>4. DOMAIN m = 1..Len(l) + 1 /\ m[Len(l) + 1] = e /\ \A i \in 1..Len(l) : m[i] = l[i]
  BY <1>1, AppendProperties
<1>5. DOMAIN t = 1..Len(c) - 1 /\ \A i \in 1..Len(c) - 1 : t[i] = c[i + 1]
  BY <1>2, <1>3, HeadTailProperties
<1>6. \A i \in DOMAIN t : i + 1 \in DOMAIN c /\ t[i] = c[i + 1] /\ 1 < i + 1
  BY <1>3, <1>5
<1>7. \A i, j \in DOMAIN t : i < j => i + 1 < j + 1
  BY <1>3, <1>5
<1>8. \A i \in DOMAIN m : (i \in DOMAIN l /\ m[i] = l[i]) \/ (i = Len(l) + 1 /\ m[i].event = c[1])
  BY <1>3, <1>4
<1>9. \A i, j \in DOMAIN m : i < j => i \in DOMAIN l /\ m[i] = l[i]
  BY <1>3, <1>4
<1>10. 1 \in DOMAIN c
  BY <1>3
<1>11. LineOK(a, m, t, q)
  <2>1. ASSUME NEW i \in DOMAIN m, m[i].event # NoEvent
        PROVE  /\ Known(a, m[i].event)
               /\ \A j \in DOMAIN t : Before(a, m[i].event, t[j])
               /\ \A j \in DOMAIN q : Before(a, m[i].event, q[j])
    BY <1>6, <1>8, <1>10, <2>1 DEF LineOK
  <2>2. ASSUME NEW i \in DOMAIN m, m[i].event # NoEvent, NEW j \in DOMAIN m, i < j, m[j].event # NoEvent
        PROVE  Before(a, m[i].event, m[j].event)
    BY <1>8, <1>9, <1>10, <2>2 DEF LineOK
  <2>3. ASSUME NEW i \in DOMAIN t
        PROVE  /\ Known(a, t[i])
               /\ \A j \in DOMAIN t : i < j => Before(a, t[i], t[j])
               /\ \A j \in DOMAIN q : Before(a, t[i], q[j])
    BY <1>6, <1>7 DEF LineOK
  <2> QED BY <2>1, <2>2, <2>3 DEF LineOK
<1>12. ASSUME NEW p, Holds(m, t, q, p) PROVE Holds(l, c, q, p)
  BY <1>6, <1>8, <1>10, <1>12 DEF Holds
<1>13. ASSUME NEW p, e.kind = "prompt" \/ p # Head(c), Holds(l, c, q, p) PROVE Holds(m, t, q, p)
  <2>1. \A i \in DOMAIN c : i = 1 \/ (i - 1 \in DOMAIN t /\ t[i - 1] = c[i])
    BY <1>3, <1>5
  <2>2. Len(l) + 1 \in DOMAIN m /\ m[Len(l) + 1] = e /\ e.event = c[1]
    BY <1>3, <1>4
  <2>3. \A i \in DOMAIN l : i \in DOMAIN m /\ m[i] = l[i]
    BY <1>3, <1>4
  <2> QED BY <1>3, <1>13, <2>1, <2>2, <2>3 DEF Holds
<1> QED BY <1>1, <1>2, <1>11, <1>12, <1>13

\* What is held is forgotten.
LEMMA LineForget ==
  ASSUME NEW a, NEW l, NEW c, NEW q, LineOK(a, l, c, q)
  PROVE  LineOK(a, l, <<>>, q) /\ \A p : Holds(l, <<>>, q, p) => Holds(l, c, q, p)
  BY DEF LineOK, Holds

\* Only a prefix of the log is left.
LEMMA LineCut ==
  ASSUME NEW a \in Seq(Events), NEW l \in Seq(Entry), NEW c, NEW q, NEW k \in 0..Len(l), LineOK(a, l, c, q)
  PROVE  LineOK(a, SubSeq(l, 1, k), <<>>, <<>>)
         /\ \A p : Holds(SubSeq(l, 1, k), <<>>, <<>>, p) => Holds(l, c, q, p)
<1>1. PICK m : m = SubSeq(l, 1, k)
  OBVIOUS
<1>2. DOMAIN m = 1..k /\ \A i \in 1..k : m[i] = l[i]
  BY <1>1
<1>3. \A i \in DOMAIN m : i \in DOMAIN l /\ m[i] = l[i]
  BY <1>2
<1>4. LineOK(a, m, <<>>, <<>>)
  BY <1>3 DEF LineOK
<1>5. \A p : Holds(m, <<>>, <<>>, p) => Holds(l, c, q, p)
  BY <1>3 DEF Holds
<1> QED BY <1>1, <1>4, <1>5

\* What is held goes back to the front of the queue.
LEMMA LinePrepend ==
  ASSUME NEW a \in Seq(Events), NEW l \in Seq(Entry), NEW c \in Seq(Prompts), NEW q \in Seq(Events),
         LineOK(a, l, c, q)
  PROVE  /\ LineOK(a, l, <<>>, c \o q)
         /\ \A p : Holds(l, <<>>, c \o q, p) <=> Holds(l, c, q, p)
<1>1. PICK d : d = c \o q
  OBVIOUS
<1>2. Len(c) \in Nat /\ Len(q) \in Nat /\ DOMAIN c = 1..Len(c) /\ DOMAIN q = 1..Len(q)
  OBVIOUS
<1>3. DOMAIN d = 1..Len(c) + Len(q)
      /\ \A i \in 1..Len(c) + Len(q) : d[i] = IF i <= Len(c) THEN c[i] ELSE q[i - Len(c)]
  <2>1. c \in Seq(Events)
    BY DEF Events
  <2> QED BY <1>1, <2>1, ConcatProperties
<1>4. \A i \in DOMAIN d : \/ i \in DOMAIN c /\ d[i] = c[i] /\ i <= Len(c)
                          \/ i - Len(c) \in DOMAIN q /\ d[i] = q[i - Len(c)] /\ ~ (i <= Len(c))
  BY <1>2, <1>3
<1>5. \A i, j \in DOMAIN d : i < j =>
        /\ j <= Len(c) => i <= Len(c)
        /\ i - Len(c) < j - Len(c)
  BY <1>2, <1>3
<1>6. LineOK(a, l, <<>>, d)
  <2>1. ASSUME NEW i \in DOMAIN l, l[i].event # NoEvent
        PROVE  /\ Known(a, l[i].event)
               /\ \A j \in DOMAIN l : i < j /\ l[j].event # NoEvent => Before(a, l[i].event, l[j].event)
               /\ \A j \in DOMAIN d : Before(a, l[i].event, d[j])
    BY <1>4, <2>1 DEF LineOK
  <2>2. ASSUME NEW i \in DOMAIN d PROVE Known(a, d[i])
    BY <1>4 DEF LineOK
  <2>3. ASSUME NEW i \in DOMAIN d, NEW j \in DOMAIN d, i < j PROVE Before(a, d[i], d[j])
    BY <1>4, <1>5, <2>3 DEF LineOK
  <2> QED BY <2>1, <2>2, <2>3 DEF LineOK
<1>7. \A p : Holds(l, <<>>, d, p) <=> Holds(l, c, q, p)
  <2>1. \A i \in DOMAIN c : i \in DOMAIN d /\ d[i] = c[i]
    BY <1>2, <1>3
  <2>2. \A i \in DOMAIN q : i + Len(c) \in DOMAIN d /\ d[i + Len(c)] = q[i]
    BY <1>2, <1>3
  <2> QED BY <1>4, <2>1, <2>2 DEF Holds
<1> QED BY <1>1, <1>6, <1>7

\* A new event comes last, everywhere.
LEMMA LineSend ==
  ASSUME NEW a \in Seq(Events), NEW l, NEW c, NEW q \in Seq(Events),
         NEW e \in Events, LineOK(a, l, c, q)
  PROVE  /\ LineOK(Append(a, e), l, c, Append(q, e))
         /\ \A p : Holds(l, c, Append(q, e), p) <=> Holds(l, c, q, p) \/ p = e
         /\ \A p : Known(Append(a, e), p) <=> Known(a, p) \/ p = e
<1>1. PICK b : b = Append(a, e)
  OBVIOUS
<1>2. PICK d : d = Append(q, e)
  OBVIOUS
<1>3. Len(a) \in Nat /\ Len(q) \in Nat /\ DOMAIN a = 1..Len(a) /\ DOMAIN q = 1..Len(q)
  OBVIOUS
<1>4. DOMAIN b = 1..Len(a) + 1 /\ b[Len(a) + 1] = e /\ \A i \in 1..Len(a) : b[i] = a[i]
  BY <1>1, AppendProperties
<1>5. DOMAIN d = 1..Len(q) + 1 /\ d[Len(q) + 1] = e /\ \A i \in 1..Len(q) : d[i] = q[i]
  BY <1>2, AppendProperties
<1>6. \A i \in DOMAIN a : i \in DOMAIN b /\ b[i] = a[i] /\ i < Len(a) + 1
  BY <1>3, <1>4
<1>7. \A x, y : Before(a, x, y) => Before(b, x, y)
  BY <1>6 DEF Before
<1>8. Len(a) + 1 \in DOMAIN b
  BY <1>3, <1>4
<1>9. \A x : Known(a, x) => Known(b, x) /\ Before(b, x, e)
  BY <1>4, <1>6, <1>8 DEF Known, Before
<1>10. Known(b, e)
  BY <1>4, <1>8 DEF Known
<1>11. \A i \in DOMAIN d : (i \in DOMAIN q /\ d[i] = q[i]) \/ (i = Len(q) + 1 /\ d[i] = e)
  BY <1>3, <1>5
<1>12. \A i, j \in DOMAIN d : i < j => i \in DOMAIN q /\ d[i] = q[i]
  BY <1>3, <1>5
<1>13. LineOK(b, l, c, d)
  <2>1. ASSUME NEW i \in DOMAIN l, l[i].event # NoEvent
        PROVE  /\ Known(b, l[i].event)
               /\ \A j \in DOMAIN l : i < j /\ l[j].event # NoEvent => Before(b, l[i].event, l[j].event)
               /\ \A j \in DOMAIN c : Before(b, l[i].event, c[j])
               /\ \A j \in DOMAIN d : Before(b, l[i].event, d[j])
    BY <1>7, <1>9, <1>11, <2>1 DEF LineOK
  <2>2. ASSUME NEW i \in DOMAIN c
        PROVE  /\ Known(b, c[i])
               /\ \A j \in DOMAIN c : i < j => Before(b, c[i], c[j])
               /\ \A j \in DOMAIN d : Before(b, c[i], d[j])
    BY <1>7, <1>9, <1>11 DEF LineOK
  <2>3. ASSUME NEW i \in DOMAIN d PROVE Known(b, d[i])
    BY <1>9, <1>10, <1>11 DEF LineOK
  <2>4. ASSUME NEW i \in DOMAIN d, NEW j \in DOMAIN d, i < j PROVE Before(b, d[i], d[j])
    BY <1>7, <1>9, <1>11, <1>12, <2>4 DEF LineOK
  <2> QED BY <2>1, <2>2, <2>3, <2>4 DEF LineOK
<1>14. \A p : Holds(l, c, d, p) <=> Holds(l, c, q, p) \/ p = e
  <2>1. \A i \in DOMAIN q : i \in DOMAIN d /\ d[i] = q[i]
    BY <1>3, <1>5
  <2>2. Len(q) + 1 \in DOMAIN d /\ d[Len(q) + 1] = e
    BY <1>3, <1>5
  <2> QED BY <1>11, <2>1, <2>2 DEF Holds
<1>15. \A p : Known(b, p) <=> Known(a, p) \/ p = e
  <2>1. \A i \in DOMAIN b : (i \in DOMAIN a /\ b[i] = a[i]) \/ b[i] = e
    BY <1>3, <1>4
  <2> QED BY <1>9, <1>10, <2>1 DEF Known
<1> QED BY <1>1, <1>2, <1>13, <1>14, <1>15

-----------------------------------------------------------------------------
(* The invariant *)

Losing == Struck("panic") \/ Struck("boot") \/ killed

\* Nothing is accepted twice.
SentOnce ==
  \A m \in DOMAIN accepted :
    /\ accepted[m] \in sent
    /\ \A n \in DOMAIN accepted : m < n => accepted[m] # accepted[n]

HandsOK ==
  /\ pc \notin {"begin", "append"} => cur = <<>>
  /\ pc = "begin" => Len(cur) = 1

FlagsOK == (closed => killed) /\ (pc = "panicked" => Struck("panic"))

RejectedGone == \A p \in rejected : Known(accepted, p) /\ ~ Holds(log, cur, queue, p)

NotLost == ~ Losing => \A p \in Prompts : Known(accepted, p) => p \in rejected \/ Holds(log, cur, queue, p)

EventInv ==
  /\ LineOK(accepted, log, cur, queue)
  /\ SentOnce /\ HandsOK /\ FlagsOK /\ RejectedGone /\ NotLost

LEMMA AtMostOne ==
  ASSUME NEW S, \A x, y \in S : x = y
  PROVE  Cardinality(S) = IF S = {} THEN 0 ELSE 1
<1>1. CASE S = {}
  BY <1>1, FS_EmptySet
<1>2. CASE S # {}
  <2>1. PICK x \in S : TRUE
    BY <1>2
  <2>2. S = {x}
    BY <2>1
  <2> QED BY <1>2, <2>2, FS_Singleton
<1> QED BY <1>1, <1>2

\* The invariant says what the runs check.
LEMMA EventInvWhole ==
  ASSUME TypeOK, EventInv PROVE EventsOnceInOrder /\ NoPromptLost
<1>1. EventsOnceInOrder
  BY DEF EventInv, LineOK, Before, EventsOnceInOrder
<1>2. NoPromptLost
  <2> SUFFICES ASSUME ~ Losing, NEW k \in DOMAIN accepted, accepted[k] \in Prompts
               PROVE  Places(accepted[k]) = 1
    BY DEF NoPromptLost, Losing
  <2>1. PICK p \in Prompts : p = accepted[k]
    OBVIOUS
  <2> DEFINE Q == {i \in DOMAIN queue : queue[i] = p}
             C == {i \in DOMAIN cur : cur[i] = p}
             L == {i \in DOMAIN log : log[i].kind = "prompt" /\ log[i].event = p}
  <2>2. p # NoEvent
    BY TranscriptAssumption
  <2>3. ~ Before(accepted, p, p)
    BY DEF EventInv, SentOnce, Before
  <2>4. \A i, j \in Q : i = j
    <3>1. \A i, j \in Q : i \in Nat /\ j \in Nat /\ ~ (i < j)
      <4>1. queue \in Seq(Events)
        BY DEF TypeOK, InboxOK
      <4>2. \A i \in DOMAIN queue : i \in Nat
        BY <4>1
      <4> QED BY <2>3, <4>2 DEF EventInv, LineOK
    <3> QED BY <3>1
  <2>5. \A i, j \in C : i = j
    <3>1. \A i, j \in C : i \in Nat /\ j \in Nat /\ ~ (i < j)
      <4>1. cur \in Seq(Prompts)
        BY DEF TypeOK, HeldOK
      <4>2. \A i \in DOMAIN cur : i \in Nat
        BY <4>1
      <4> QED BY <2>3, <4>2 DEF EventInv, LineOK
    <3> QED BY <3>1
  <2>6. \A i, j \in L : i = j
    <3>1. \A i, j \in L : i \in Nat /\ j \in Nat /\ ~ (i < j)
      <4>1. log \in Seq(Entry)
        BY DEF TypeOK
      <4>2. \A i \in DOMAIN log : i \in Nat
        BY <4>1
      <4> QED BY <2>2, <2>3, <4>2 DEF EventInv, LineOK
    <3> QED BY <3>1
  <2>7. (L # {} => C = {} /\ Q = {}) /\ (C # {} => Q = {})
    BY <2>2, <2>3 DEF EventInv, LineOK
  <2>8. p \in rejected => L = {} /\ C = {} /\ Q = {}
    BY DEF EventInv, RejectedGone, Holds
  <2>9. p \in rejected \/ L # {} \/ C # {} \/ Q # {}
    <3>1. Known(accepted, p)
      BY <2>1 DEF Known
    <3> QED BY <3>1 DEF EventInv, NotLost, Holds
  <2>10. /\ Cardinality(Q) = IF Q = {} THEN 0 ELSE 1
         /\ Cardinality(C) = IF C = {} THEN 0 ELSE 1
         /\ Cardinality(L) = IF L = {} THEN 0 ELSE 1
    <3> HIDE DEF Q, C, L
    <3> QED BY <2>4, <2>5, <2>6, AtMostOne
  <2>11. Places(p) = Cardinality(Q) + Cardinality(C) + Cardinality(L) + (IF p \in rejected THEN 1 ELSE 0)
    BY DEF Places
  <2> HIDE DEF Q, C, L
  <2>12. Places(p) = 1
    BY <2>7, <2>8, <2>9, <2>10, <2>11
  <2> QED BY <2>1, <2>12
<1> QED BY <1>1, <1>2

-----------------------------------------------------------------------------
(* What the agent itself appends *)

LEMMA AppendGrown ==
  ASSUME NEW l \in Seq(Entry), NEW b \in Limits, NEW e \in Entry, e.event = NoEvent,
         NEW w \in TryAppend(l, b, e)
  PROVE  w.log \in Seq(Entry) /\ w.budget \in Limits /\ Grown(l, w.log) /\ b.struck \subseteq w.budget.struck
<1>1. w \in Outcome
  BY TryAppendType
<1>2. (w.log = Append(l, e) \/ w.log = l) /\ b.struck \subseteq w.budget.struck
  BY TryAppendCases
<1>3. Grown(l, l)
  BY GrownSame
<1>4. Grown(l, Append(l, e))
  BY <1>3, GrownAppend
<1> QED BY <1>1, <1>2, <1>3, <1>4 DEF Outcome

LEMMA RepairGrown ==
  ASSUME NEW l \in Seq(Entry), NEW b \in Limits, NEW r \in RepairInterruptedTail(l, b)
  PROVE  r.log \in Seq(Entry) /\ r.budget \in Limits /\ Grown(l, r.log) /\ b.struck \subseteq r.budget.struck
<1>1. CASE DanglingTail(l)
  <2>1. l[Len(l)] \in Entry /\ l # <<>>
    BY <1>1, ElementOfSeq, EmptySeq DEF DanglingTail
  <2>2. [c \in Calls |-> "repaired"] \in [Calls -> Outcomes] /\ l[Len(l)].calls \in SUBSET Calls
    BY <2>1 DEF Outcomes, Entry
  <2>3. RepairEntry(l) \in Entry
    BY <2>2, EntryType DEF RepairEntry
  <2>4. RepairEntry(l).event = NoEvent
    BY DEF RepairEntry, ResultEntry
  <2>5. r \in TryAppend(l, b, RepairEntry(l))
    BY <1>1 DEF RepairInterruptedTail
  <2> QED BY <2>3, <2>4, <2>5, AppendGrown
<1>2. CASE ~DanglingTail(l)
  <2>1. r = Kept(l, b)
    BY <1>2 DEF RepairInterruptedTail
  <2> QED BY <2>1, GrownSame DEF Kept
<1> QED BY <1>1, <1>2

LEMMA SealGrown ==
  ASSUME TypeOK, NEW l \in Seq(Entry), NEW b \in Limits, NEW s \in SealTurn(l, b)
  PROVE  s.log \in Seq(Entry) /\ s.budget \in Limits /\ Grown(l, s.log) /\ b.struck \subseteq s.budget.struck
<1>1. s \in Outcome
  BY SealTurnType
<1>2. b.struck \subseteq s.budget.struck
  BY SealStruck
<1>3. SealedResults \in Entry /\ AssistantEntry(turn.text, turn.tools) \in Entry
  BY SealedType
<1>4. SealedResults.event = NoEvent /\ AssistantEntry(turn.text, turn.tools).event = NoEvent
  BY DEF SealedResults, ResultEntry, AssistantEntry
<1>5. Grown(l, s.log)
  <2>1. CASE s.log = l
    BY <2>1, GrownSame
  <2>2. CASE s \in TryAppend(l, b, SealedResults)
    BY <1>3, <1>4, <2>2, AppendGrown
  <2>3. ASSUME NEW a \in TryAppend(l, b, AssistantEntry(turn.text, turn.tools)),
               s = a \/ \E r \in TryAppend(a.log, a.budget, SealedResults) : s.log = r.log
        PROVE  Grown(l, s.log)
    <3>1. a.log \in Seq(Entry) /\ a.budget \in Limits /\ Grown(l, a.log)
      BY <1>3, <1>4, AppendGrown
    <3>2. ASSUME NEW r \in TryAppend(a.log, a.budget, SealedResults) PROVE Grown(l, r.log)
      <4>1. r.log = Append(a.log, SealedResults) \/ r.log = a.log
        BY <1>3, <3>1, TryAppendCases
      <4>2. Grown(l, Append(a.log, SealedResults))
        BY <1>3, <1>4, <3>1, GrownAppend
      <4> QED BY <3>1, <4>1, <4>2
    <3> QED BY <2>3, <3>1, <3>2
  <2> QED BY <2>1, <2>2, <2>3, SealTurnCases
<1> QED BY <1>1, <1>2, <1>5 DEF Outcome

-----------------------------------------------------------------------------
(* The steps *)

\* A step that accepts and rejects nothing.
LEMMA LineKept ==
  ASSUME TypeOK, EventInv, UNCHANGED <<sent, accepted, rejected>>, HandsOK', FlagsOK',
         LineOK(accepted, log', cur', queue'),
         \A p \in Prompts : Holds(log', cur', queue', p) => Holds(log, cur, queue, p),
         Losing' \/ \A p \in Prompts : Holds(log, cur, queue, p) => Holds(log', cur', queue', p),
         Losing => Losing'
  PROVE  EventInv'
<1>1. SentOnce'
  BY DEF EventInv, SentOnce
<1>2. RejectedGone'
  <2>1. rejected \subseteq Prompts
    BY DEF TypeOK, ToldOK
  <2> QED BY <2>1 DEF EventInv, RejectedGone
<1>3. NotLost'
  BY DEF EventInv, NotLost
<1>4. LineOK(accepted, log, cur, queue)'
  OBVIOUS
<1> QED BY <1>1, <1>2, <1>3, <1>4 DEF EventInv

\* Kills, panics and crashes are not undone.
LEMMA LosingStays ==
  ASSUME budget.struck \subseteq budget'.struck, killed => killed' \/ Struck("boot")'
  PROVE  Losing => Losing'
  BY DEF Losing, Struck

\* A step of the drain loop that writes only messages of its own and runs only
\* forks.
LEMMA Served ==
  ASSUME TypeOK, EventInv, UNCHANGED <<cur, sent, accepted, rejected>>, HandsOK', FlagsOK',
         log' \in Seq(Entry), Grown(log, log'),
         queue' = queue \/ \E n \in 0..Len(queue) : ForkPrefix(queue, n) /\ queue' = Drop(queue, n),
         budget.struck \subseteq budget'.struck, killed => killed'
  PROVE  EventInv'
<1>1. accepted \in Seq(Events) /\ log \in Seq(Entry) /\ cur \in Seq(Prompts) /\ queue \in Seq(Events)
  BY DEF TypeOK, AskedOK, HeldOK, InboxOK
<1>2. LineOK(accepted, log, cur, queue)
  BY DEF EventInv
<1>3. LineOK(accepted, log', cur, queue)
      /\ \A p \in Prompts : Holds(log', cur, queue, p) <=> Holds(log, cur, queue, p)
  BY <1>1, <1>2, LineGrown
<1>4. /\ LineOK(accepted, log', cur, queue')
      /\ \A p \in Prompts : Holds(log', cur, queue', p) <=> Holds(log', cur, queue, p)
  <2>1. CASE queue' = queue
    BY <1>3, <2>1
  <2>2. CASE queue' # queue
    <3>1. PICK n \in 0..Len(queue) : ForkPrefix(queue, n) /\ queue' = Drop(queue, n)
      BY <2>2
    <3>2. /\ LineOK(accepted, log', cur, Drop(queue, n))
          /\ \A p : Holds(log', cur, Drop(queue, n), p) => Holds(log', cur, queue, p)
          /\ \A p : (\A i \in 1..n : queue[i] # p) /\ Holds(log', cur, queue, p)
                    => Holds(log', cur, Drop(queue, n), p)
      BY <1>1, <1>3, LineDrop
    <3>3. \A p \in Prompts : \A i \in 1..n : queue[i] # p
      BY <3>1, FigaroTurnAssumption DEF ForkPrefix
    <3> QED BY <3>1, <3>2, <3>3
  <2> QED BY <2>1, <2>2
<1>5. Losing => Losing'
  BY LosingStays
<1>6. cur' = cur
  OBVIOUS
<1> QED BY <1>3, <1>4, <1>5, <1>6, LineKept

\* A step that leaves the line alone.
LEMMA LineAlone ==
  ASSUME TypeOK, EventInv, UNCHANGED <<log, cur, queue, sent, accepted, rejected>>, HandsOK', FlagsOK',
         budget.struck \subseteq budget'.struck, killed => killed'
  PROVE  EventInv'
<1>1. log' \in Seq(Entry)
  BY DEF TypeOK
<1>2. Grown(log, log')
  BY GrownSame DEF TypeOK
<1> QED BY <1>1, <1>2, Served

\* The turn ends: the loop holds nothing.
LEMMA EndServed ==
  ASSUME TypeOK, EventInv, pc \notin {"begin", "append"}, NEW u, Finish(u),
         UNCHANGED <<closed, held, asked, rejected>>,
         log' \in Seq(Entry), Grown(log, log'), queue' = queue \/ ServiceForks,
         budget.struck \subseteq budget'.struck
  PROVE  EventInv'
<1>1. UNCHANGED <<cur, sent, accepted, rejected, killed, closed>> /\ pc' = "recv"
  BY DEF Finish, held, asked
<1>2. HandsOK' /\ FlagsOK'
  BY <1>1 DEF EventInv, HandsOK, FlagsOK
<1>3. queue' = queue \/ \E n \in 0..Len(queue) : ForkPrefix(queue, n) /\ queue' = Drop(queue, n)
  BY DEF ServiceForks
<1> QED BY <1>1, <1>2, <1>3, Served

LEMMA DropParts ==
  ASSUME NEW q \in Seq(Events), NEW n \in 0..Len(q)
  PROVE  /\ Drop(q, n) \in Seq(Events) /\ Len(Drop(q, n)) = Len(q) - n
         /\ \A i \in 1..Len(q) - n : Drop(q, n)[i] = q[n + i]
<1>1. PICK d : d = Drop(q, n)
  OBVIOUS
<1>2. d \in Seq(Events) /\ Len(d) = Len(q) - n /\ \A i \in 1..Len(q) - n : d[i] = q[n + i]
  BY <1>1 DEF Drop
<1> QED BY <1>1, <1>2

LEMMA TakeOne ==
  ASSUME NEW q \in Seq(Events), q # <<>>
  PROVE  Tail(q) = Drop(q, 1) /\ SubSeq(q, 0 + 1, 0 + 1) = <<Head(q)>> /\ 1 \in 0..Len(q) /\ q[1] = Head(q)
         /\ Drop(q, 0 + 1) = Drop(q, 1)
<1>1. Len(q) \in Nat /\ Len(q) >= 1 /\ Head(q) = q[1] /\ q[1] \in Events /\ 0 + 1 = 1
  BY EmptySeq, ElementOfSeq
<1>2. Tail(q) \in Seq(Events) /\ Len(Tail(q)) = Len(q) - 1 /\ \A i \in 1..Len(q) - 1 : Tail(q)[i] = q[i + 1]
  BY HeadTailProperties
<1>3. /\ Drop(q, 1) \in Seq(Events) /\ Len(Drop(q, 1)) = Len(q) - 1
      /\ \A i \in 1..Len(q) - 1 : Drop(q, 1)[i] = q[i + 1]
  <2>1. 1 \in 0..Len(q)
    BY <1>1
  <2>2. Drop(q, 1) \in Seq(Events) /\ Len(Drop(q, 1)) = Len(q) - 1
        /\ \A i \in 1..Len(q) - 1 : Drop(q, 1)[i] = q[1 + i]
    BY <2>1, DropParts
  <2>3. \A i \in 1..Len(q) - 1 : 1 + i = i + 1
    OBVIOUS
  <2> QED BY <2>2, <2>3
<1>4. Tail(q) = Drop(q, 1)
  BY <1>1, <1>2, <1>3, SeqEqual
<1>5. SubSeq(q, 1, 1) = <<Head(q)>>
  <2>1. SubSeq(q, 1, 1) \in Seq(Events) /\ Len(SubSeq(q, 1, 1)) = 1 /\ SubSeq(q, 1, 1)[1] = q[1]
    BY <1>1
  <2>2. PICK t : t = <<Head(q)>>
    OBVIOUS
  <2>3. t \in Seq(Events) /\ Len(t) = 1 /\ t[1] = q[1]
    BY <1>1, <2>2
  <2>4. PICK d : d = SubSeq(q, 1, 1)
    OBVIOUS
  <2>5. d = t
    <3>1. d \in Seq(Events) /\ Len(d) = 1 /\ d[1] = q[1]
      BY <2>1, <2>4
    <3>2. \A i \in 1..1 : d[i] = t[i]
      BY <2>3, <3>1
    <3> QED BY <2>3, <3>1, <3>2, SeqEqual
  <2> QED BY <2>2, <2>4, <2>5
<1> QED BY <1>1, <1>4, <1>5

LEMMA DropTwice ==
  ASSUME NEW q \in Seq(Events), NEW n \in 0..Len(q), NEW m \in 0..Len(q) - n
  PROVE  Drop(Drop(q, n), m) = Drop(q, n + m) /\ Len(Drop(q, n)) = Len(q) - n /\ n + m \in 0..Len(q)
  BY DEF Drop

\* A client sends an event.
LEMMA SendLine ==
  ASSUME TypeOK, EventInv, NEW e \in Events, Send(e) PROVE EventInv'
<1>1. accepted \in Seq(Events) /\ log \in Seq(Entry) /\ cur \in Seq(Prompts) /\ queue \in Seq(Events)
      /\ rejected \subseteq Prompts
  BY DEF TypeOK, AskedOK, HeldOK, InboxOK, ToldOK
<1>2. UNCHANGED <<log, cur, pc, closed, killed, rejected, budget>> /\ e \notin sent /\ sent' = sent \cup {e}
  BY DEF Send, ctxs, held, told
<1>3. CASE closed
  <2>1. UNCHANGED <<queue, accepted>>
    BY <1>3 DEF Send
  <2>2. SentOnce' /\ HandsOK' /\ FlagsOK' /\ RejectedGone' /\ NotLost'
    BY <1>2, <2>1 DEF EventInv, SentOnce, HandsOK, FlagsOK, RejectedGone, NotLost, Losing, Struck
  <2> QED BY <1>2, <2>1, <2>2 DEF EventInv
<1>4. CASE ~ closed
  <2>1. queue' = Append(queue, e) /\ accepted' = Append(accepted, e)
    BY <1>4 DEF Send
  <2>2. /\ LineOK(accepted', log, cur, queue')
        /\ \A p : Holds(log, cur, queue', p) <=> Holds(log, cur, queue, p) \/ p = e
        /\ \A p : Known(accepted', p) <=> Known(accepted, p) \/ p = e
    BY <1>1, <2>1, LineSend DEF EventInv
  <2>3. SentOnce'
    <3>1. Len(accepted) \in Nat /\ DOMAIN accepted = 1..Len(accepted)
      BY <1>1
    <3>2. DOMAIN accepted' = 1..Len(accepted) + 1 /\ accepted'[Len(accepted) + 1] = e
          /\ \A i \in 1..Len(accepted) : accepted'[i] = accepted[i]
      BY <1>1, <2>1, AppendProperties
    <3>3. \A m \in DOMAIN accepted' : (m \in DOMAIN accepted /\ accepted'[m] = accepted[m]) \/ accepted'[m] = e
      BY <3>1, <3>2
    <3>4. \A m, n \in DOMAIN accepted' : m < n => m \in DOMAIN accepted /\ accepted'[m] = accepted[m]
      BY <3>1, <3>2
    <3> QED BY <1>2, <3>3, <3>4 DEF EventInv, SentOnce
  <2>4. ~ Known(accepted, e)
    BY <1>2 DEF EventInv, SentOnce, Known
  <2>5. RejectedGone'
    BY <1>2, <2>2, <2>4 DEF EventInv, RejectedGone
  <2>6. NotLost'
    BY <1>2, <2>2 DEF EventInv, NotLost, Losing, Struck
  <2>7. HandsOK' /\ FlagsOK'
    BY <1>2 DEF EventInv, HandsOK, FlagsOK, Struck
  <2> QED BY <1>2, <2>2, <2>3, <2>5, <2>6, <2>7 DEF EventInv
<1> QED BY <1>3, <1>4

LEMMA RecvPromptLine ==
  ASSUME TypeOK, EventInv, RecvPrompt PROVE EventInv'
<1>1. accepted \in Seq(Events) /\ log \in Seq(Entry) /\ queue \in Seq(Events) /\ Len(queue) \in Nat
  BY DEF TypeOK, AskedOK, InboxOK
<1>2. UNCHANGED <<log, sent, accepted, rejected, closed, killed, budget>> /\ pc' = "begin" /\ pc = "recv"
      /\ queue # <<>>
  BY DEF RecvPrompt, asked, told
<1>3. cur = <<>>
  BY <1>2 DEF EventInv, HandsOK
<1>4. Tail(queue) = Drop(queue, 0 + 1) /\ SubSeq(queue, 0 + 1, 0 + 1) = <<Head(queue)>> /\ 1 \in 0..Len(queue)
  BY <1>1, <1>2, TakeOne
<1>5. cur' = SubSeq(queue, 0 + 1, 0 + 1) /\ queue' = Drop(queue, 0 + 1) /\ Len(cur') = 1
  BY <1>4 DEF RecvPrompt
<1>6. /\ LineOK(accepted, log, cur', queue')
      /\ \A p : Holds(log, cur', queue', p) => Holds(log, <<>>, queue, p)
      /\ \A p : (\A i \in 1..0 : queue[i] # p) /\ Holds(log, <<>>, queue, p) => Holds(log, cur', queue', p)
  <2>1. 0 \in 0..Len(queue) /\ 1 \in 0..Len(queue) - 0
    BY <1>1, <1>4
  <2>2. LineOK(accepted, log, <<>>, queue)
    BY <1>3 DEF EventInv
  <2> QED BY <1>1, <1>5, <2>1, <2>2, LineTake
<1>7. \A p \in Prompts : Holds(log, <<>>, queue, p) => Holds(log, cur', queue', p)
  <2>1. \A i \in 1..0 : FALSE
    OBVIOUS
  <2> QED BY <1>6, <2>1
<1>8. HandsOK' /\ FlagsOK' /\ (Losing => Losing')
  BY <1>2, <1>5 DEF EventInv, HandsOK, FlagsOK, Losing, Struck
<1> QED BY <1>2, <1>3, <1>6, <1>7, <1>8, LineKept

LEMMA RecvSetLine ==
  ASSUME TypeOK, EventInv, RecvSet PROVE EventInv'
<1>1. accepted \in Seq(Events) /\ log \in Seq(Entry) /\ queue \in Seq(Events) /\ Len(queue) \in Nat
  BY DEF TypeOK, AskedOK, InboxOK
<1>2. UNCHANGED <<cur, sent, accepted, rejected, closed, killed, budget, pc>> /\ pc = "recv"
      /\ queue # <<>> /\ Head(queue) \in Sets /\ queue' = Tail(queue)
  BY DEF RecvSet, asked, told, ctxs, held
<1>3. cur = <<>>
  BY <1>2 DEF EventInv, HandsOK
<1>4. LineOK(accepted, log, <<>>, queue)
  BY <1>3 DEF EventInv
<1>5. /\ Tail(queue) = Drop(queue, 0 + 1) /\ Tail(queue) = Drop(queue, 1) /\ queue[1] = Head(queue)
      /\ SubSeq(queue, 0 + 1, 0 + 1) = <<Head(queue)>> /\ 1 \in 0..Len(queue)
  BY <1>1, <1>2, TakeOne
<1>6. \A p \in Prompts : p # Head(queue)
  BY <1>2, TranscriptAssumption
<1>7. /\ LineOK(accepted, log', <<>>, queue')
      /\ \A p \in Prompts : Holds(log', <<>>, queue', p) <=> Holds(log, <<>>, queue, p)
  <2>1. CASE Backed
    <3>1. /\ LineOK(accepted, log, <<>>, Drop(queue, 1))
          /\ \A p : Holds(log, <<>>, Drop(queue, 1), p) => Holds(log, <<>>, queue, p)
          /\ \A p : (\A i \in 1..1 : queue[i] # p) /\ Holds(log, <<>>, queue, p) =>
                      Holds(log, <<>>, Drop(queue, 1), p)
      <4>1. <<>> \in Seq(Prompts)
        OBVIOUS
      <4> QED BY <1>1, <1>4, <1>5, <4>1, LineDrop
    <3>2. \A p \in Prompts : \A i \in 1..1 : queue[i] # p
      BY <1>5, <1>6
    <3>3. log' = log
      BY <2>1 DEF RecvSet
    <3> QED BY <1>2, <1>5, <3>1, <3>2, <3>3
  <2>2. CASE ~ Backed
    <3>1. PICK e : e = PatchEntry(Head(queue))
      OBVIOUS
    <3>2. e \in Entry /\ e.event = Head(queue)
      BY <1>2, <3>1, EntryType DEF PatchEntry
    <3>3. PICK c : c = <<Head(queue)>>
      OBVIOUS
    <3>4. c \in Seq(Events) /\ c # <<>> /\ Head(c) = Head(queue) /\ Tail(c) = <<>>
      BY <1>1, <1>2, <3>3
    <3>5. /\ LineOK(accepted, log, c, Tail(queue))
          /\ \A p : Holds(log, c, Tail(queue), p) => Holds(log, <<>>, queue, p)
          /\ \A p : (\A i \in 1..0 : queue[i] # p) /\ Holds(log, <<>>, queue, p) => Holds(log, c, Tail(queue), p)
      <4>1. 0 \in 0..Len(queue) /\ 1 \in 0..Len(queue) - 0
        BY <1>1, <1>5
      <4> QED BY <1>1, <1>4, <1>5, <3>3, <4>1, LineTake
    <3>6. Tail(queue) \in Seq(Events)
      BY <1>1, <1>2
    <3>7. /\ LineOK(accepted, Append(log, e), <<>>, Tail(queue))
          /\ \A p : Holds(Append(log, e), <<>>, Tail(queue), p) => Holds(log, c, Tail(queue), p)
          /\ \A p : (e.kind = "prompt" \/ p # Head(c)) /\ Holds(log, c, Tail(queue), p) =>
               Holds(Append(log, e), <<>>, Tail(queue), p)
      <4>1. /\ LineOK(accepted, Append(log, e), Tail(c), Tail(queue))
            /\ \A p : Holds(Append(log, e), Tail(c), Tail(queue), p) => Holds(log, c, Tail(queue), p)
            /\ \A p : (e.kind = "prompt" \/ p # Head(c)) /\ Holds(log, c, Tail(queue), p) =>
                 Holds(Append(log, e), Tail(c), Tail(queue), p)
        <5>1. e.event = Head(c)
          BY <3>2, <3>4
        <5> QED BY <1>1, <3>2, <3>4, <3>5, <3>6, <5>1, LineWrite
      <4> QED BY <3>4, <4>1
    <3>8. log' = Append(log, e)
      BY <2>2, <3>1 DEF RecvSet
    <3>9. \A i \in 1..0 : FALSE
      OBVIOUS
    <3> QED BY <1>2, <1>6, <3>4, <3>5, <3>7, <3>8, <3>9
  <2> QED BY <2>1, <2>2
<1>8. HandsOK' /\ FlagsOK' /\ (Losing => Losing')
  BY <1>2 DEF EventInv, HandsOK, FlagsOK, Losing, Struck
<1> QED BY <1>2, <1>3, <1>7, <1>8, LineKept

\* The prompt is appended behind the repair, or reported.
LEMMA BeginTurnLine ==
  ASSUME TypeOK, EventInv, BeginTurn PROVE EventInv'
<1>1. accepted \in Seq(Events) /\ log \in Seq(Entry) /\ cur \in Seq(Prompts) /\ queue \in Seq(Events)
      /\ budget \in Limits /\ rejected \subseteq Prompts
  BY DEF TypeOK, AskedOK, HeldOK, InboxOK, ToldOK
<1>2. cur \in Seq(Events)
  BY <1>1 DEF Events
<1>3. pc = "begin" /\ UNCHANGED <<queue, closed, sent, accepted>>
  BY DEF BeginTurn, inbox, asked
<1>4. Len(cur) = 1
  BY <1>3 DEF EventInv, HandsOK
<1>5. cur # <<>> /\ Head(cur) = cur[1] /\ cur[1] \in Prompts /\ DOMAIN cur = {1}
  <2>1. DOMAIN cur = 1..1 /\ \A i \in 1..1 : cur[i] \in Prompts
    <3>1. DOMAIN cur = 1..Len(cur) /\ \A i \in 1..Len(cur) : cur[i] \in Prompts
      BY <1>1, ElementOfSeq
    <3> QED BY <1>4, <3>1
  <2>2. 1..1 = {1}
    OBVIOUS
  <2>3. cur # <<>>
    BY <1>3 DEF TypeOK, HeldOK
  <2>4. Head(cur) = cur[1]
    BY <1>1, <2>3
  <2> QED BY <2>1, <2>2, <2>3, <2>4
<1>6. Tail(cur) = <<>>
  <2>1. Tail(cur) \in Seq(Prompts) /\ Len(Tail(cur)) = 0
    BY <1>1, <1>4, <1>5, HeadTailProperties
  <2> QED BY <2>1, EmptySeq
<1>7. PICK e : e = PromptEntry(Head(cur))
  OBVIOUS
<1>8. e \in Entry /\ e.event = Head(cur) /\ e.kind = "prompt"
  BY <1>5, <1>7, EntryType DEF PromptEntry
<1>9. PICK r \in RepairInterruptedTail(log, budget) :
        \E w \in TryAppend(r.log, r.budget, e) : BeginWith(r, w)
  BY <1>7 DEF BeginTurn
<1>10. r.log \in Seq(Entry) /\ r.budget \in Limits /\ Grown(log, r.log) /\ budget.struck \subseteq r.budget.struck
  BY <1>1, RepairGrown
<1>11. PICK w \in TryAppend(r.log, r.budget, e) : BeginWith(r, w)
  BY <1>9
<1>12. /\ (w.ok /\ w.log = Append(r.log, e)) \/ (~ w.ok /\ w.log = r.log)
       /\ r.budget.struck \subseteq w.budget.struck
  BY <1>8, <1>10, TryAppendCases
<1>13. LineOK(accepted, r.log, cur, queue)
       /\ \A p \in Prompts : Holds(r.log, cur, queue, p) <=> Holds(log, cur, queue, p)
  BY <1>1, <1>10, LineGrown DEF EventInv
<1>14. log' = w.log /\ budget' = w.budget /\ cur' = <<>>
  BY <1>11 DEF BeginWith
<1>15. CASE w.ok
  <2>1. UNCHANGED <<killed, rejected>> /\ pc' = "round"
    BY <1>11, <1>15 DEF BeginWith, ctxs
  <2>2. /\ LineOK(accepted, Append(r.log, e), Tail(cur), queue)
        /\ \A p : Holds(Append(r.log, e), Tail(cur), queue, p) => Holds(r.log, cur, queue, p)
        /\ \A p : (e.kind = "prompt" \/ p # Head(cur)) /\ Holds(r.log, cur, queue, p) =>
             Holds(Append(r.log, e), Tail(cur), queue, p)
    BY <1>1, <1>2, <1>5, <1>8, <1>10, <1>13, LineWrite
  <2>3. log' = Append(r.log, e)
    BY <1>12, <1>14, <1>15
  <2>4. /\ LineOK(accepted, log', cur', queue')
        /\ \A p \in Prompts : Holds(log', cur', queue', p) <=> Holds(log, cur, queue, p)
    BY <1>3, <1>6, <1>8, <1>13, <1>14, <2>2, <2>3
  <2>5. HandsOK' /\ FlagsOK'
    BY <1>3, <1>14, <2>1 DEF EventInv, HandsOK, FlagsOK
  <2>6. Losing => Losing'
    BY <1>10, <1>12, <1>14, <2>1, LosingStays
  <2> QED BY <1>3, <2>1, <2>4, <2>5, <2>6, LineKept
<1>16. CASE ~ w.ok
  <2>1. UNCHANGED killed /\ pc' = "recv" /\ rejected' = rejected \cup {Head(cur)}
    BY <1>11, <1>16 DEF BeginWith, Finish
  <2>2. log' = r.log
    BY <1>12, <1>14, <1>16
  <2>3. /\ LineOK(accepted, r.log, <<>>, queue)
        /\ \A p : Holds(r.log, <<>>, queue, p) => Holds(r.log, cur, queue, p)
    BY <1>13, LineForget
  <2>4. HandsOK' /\ FlagsOK' /\ SentOnce'
    BY <1>3, <1>14, <2>1 DEF EventInv, HandsOK, FlagsOK, SentOnce
  <2>5. Losing => Losing'
    BY <1>10, <1>12, <1>14, <2>1, LosingStays
  <2>6. PICK h \in Prompts : h = Head(cur)
    BY <1>5
  <2>7. Known(accepted, h) /\ ~ Holds(r.log, <<>>, queue, h)
    <3>1. 1 \in DOMAIN cur /\ cur[1] = h
      BY <1>5, <2>6
    <3>2. ~ Before(accepted, h, h)
      BY DEF EventInv, SentOnce, Before
    <3>3. h # NoEvent
      BY TranscriptAssumption
    <3> QED BY <1>13, <3>1, <3>2, <3>3 DEF LineOK, Holds
  <2>8. RejectedGone'
    <3> SUFFICES ASSUME NEW p \in rejected' PROVE Known(accepted, p) /\ ~ Holds(r.log, <<>>, queue, p)
      BY <1>3, <1>14, <2>2 DEF RejectedGone
    <3>1. CASE p = h
      BY <2>7, <3>1
    <3>2. CASE p \in rejected
      BY <1>1, <1>13, <2>3, <3>2 DEF EventInv, RejectedGone
    <3> QED BY <2>1, <2>6, <3>1, <3>2
  <2>9. NotLost'
    <3> SUFFICES ASSUME ~ Losing', NEW p \in Prompts, Known(accepted, p), p \notin rejected'
                 PROVE  Holds(r.log, <<>>, queue, p)
      BY <1>3, <1>14, <2>2 DEF NotLost
    <3>1. Holds(r.log, cur, queue, p)
      BY <1>13, <2>1, <2>5 DEF EventInv, NotLost
    <3>2. p # cur[1]
      BY <1>5, <2>1
    <3> QED BY <1>5, <3>1, <3>2 DEF Holds
  <2> QED BY <1>3, <1>14, <2>2, <2>3, <2>4, <2>8, <2>9 DEF EventInv
<1> QED BY <1>12, <1>15, <1>16

\* Prompts are taken behind the forks that run.
LEMMA SteerBeforeLine ==
  ASSUME TypeOK, EventInv, SteerBeforeRound PROVE EventInv'
<1>1. accepted \in Seq(Events) /\ log \in Seq(Entry) /\ queue \in Seq(Events) /\ Len(queue) \in Nat
  BY DEF TypeOK, AskedOK, InboxOK
<1>2. UNCHANGED <<log, sent, accepted, rejected, closed, killed, budget>> /\ pc = "round" /\ pc' = "append"
  BY DEF SteerBeforeRound, asked, ctxs
<1>3. PICK n \in 0..Len(queue), m \in 1..Len(queue) :
        /\ ForkPrefix(queue, n)
        /\ m <= Len(queue) - n
        /\ TakeReadyUserPrompts(Drop(queue, n), m)
        /\ cur' = SubSeq(queue, n + 1, n + m)
  BY DEF SteerBeforeRound
<1>4. m \in 0..Len(queue) - n
  BY <1>1, <1>3
<1>5. queue' = Drop(queue, n + m)
  BY <1>1, <1>3, <1>4, DropTwice DEF TakeReadyUserPrompts
<1>6. cur = <<>>
  BY <1>2 DEF EventInv, HandsOK
<1>7. LineOK(accepted, log, <<>>, queue)
  BY <1>6 DEF EventInv
<1>8. /\ LineOK(accepted, log, cur', queue')
      /\ \A p : Holds(log, cur', queue', p) => Holds(log, <<>>, queue, p)
      /\ \A p : (\A i \in 1..n : queue[i] # p) /\ Holds(log, <<>>, queue, p) => Holds(log, cur', queue', p)
  BY <1>1, <1>3, <1>4, <1>5, <1>7, LineTake
<1>9. \A p \in Prompts : \A i \in 1..n : queue[i] # p
  BY <1>3, FigaroTurnAssumption DEF ForkPrefix
<1>10. HandsOK' /\ FlagsOK' /\ (Losing => Losing')
  BY <1>2 DEF EventInv, HandsOK, FlagsOK, Losing, Struck
<1> QED BY <1>2, <1>6, <1>8, <1>9, <1>10, LineKept

\* Prompts are taken at the head of the queue, or none is there.
LEMMA SteerAfterLine ==
  ASSUME TypeOK, EventInv, SteerAfterTools PROVE EventInv'
<1>1. accepted \in Seq(Events) /\ log \in Seq(Entry) /\ queue \in Seq(Events) /\ Len(queue) \in Nat
  BY DEF TypeOK, AskedOK, InboxOK
<1>2. UNCHANGED <<log, sent, accepted, rejected, closed, killed, budget>> /\ pc = "steer"
  BY DEF SteerAfterTools, asked, ctxs, told
<1>3. PICK m \in 0..Len(queue) :
        /\ TakeReadyUserPrompts(queue, m)
        /\ cur' = SubSeq(queue, 1, m)
        /\ pc' = IF m = 0 THEN "round" ELSE "append"
  BY DEF SteerAfterTools
<1>4. 0 \in 0..Len(queue) /\ m \in 0..Len(queue) - 0 /\ 0 + 1 = 1 /\ 0 + m = m
  BY <1>1, <1>3
<1>5. queue' = Drop(queue, 0 + m) /\ cur' = SubSeq(queue, 0 + 1, 0 + m)
  BY <1>3, <1>4 DEF TakeReadyUserPrompts
<1>6. cur = <<>>
  BY <1>2 DEF EventInv, HandsOK
<1>7. LineOK(accepted, log, <<>>, queue)
  BY <1>6 DEF EventInv
<1>8. /\ LineOK(accepted, log, cur', queue')
      /\ \A p : Holds(log, cur', queue', p) => Holds(log, <<>>, queue, p)
      /\ \A p : (\A i \in 1..0 : queue[i] # p) /\ Holds(log, <<>>, queue, p) => Holds(log, cur', queue', p)
  BY <1>1, <1>4, <1>5, <1>7, LineTake
<1>9. \A i \in 1..0 : FALSE
  OBVIOUS
<1>10. m = 0 => cur' = <<>>
  BY <1>1, <1>3
<1>11. HandsOK' /\ FlagsOK' /\ (Losing => Losing')
  BY <1>2, <1>3, <1>10 DEF EventInv, HandsOK, FlagsOK, Losing, Struck
<1> QED BY <1>2, <1>6, <1>8, <1>9, <1>11, LineKept

\* A steering prompt is appended, or all that are held go back to the inbox; a
\* closed inbox belongs to a killed agent.
LEMMA AppendSteeringLine ==
  ASSUME TypeOK, EventInv, AppendSteering PROVE EventInv'
<1>1. accepted \in Seq(Events) /\ log \in Seq(Entry) /\ cur \in Seq(Prompts) /\ queue \in Seq(Events)
      /\ budget \in Limits
  BY DEF TypeOK, AskedOK, HeldOK, InboxOK
<1>2. cur \in Seq(Events)
  BY <1>1 DEF Events
<1>3. pc = "append" /\ UNCHANGED <<closed, sent, accepted, rejected>>
  BY DEF AppendSteering, asked
<1>4. cur # <<>>
  BY <1>3 DEF TypeOK, HeldOK
<1>5. Head(cur) \in Prompts
  BY <1>1, <1>4
<1>6. PICK e : e = PromptEntry(Head(cur))
  OBVIOUS
<1>7. e \in Entry /\ e.event = Head(cur) /\ e.kind = "prompt"
  BY <1>5, <1>6, EntryType DEF PromptEntry
<1>8. PICK w \in TryAppend(log, budget, e) : SteerWith(w)
  BY <1>6 DEF AppendSteering
<1>9. /\ (w.ok /\ w.log = Append(log, e)) \/ (~ w.ok /\ w.log = log)
      /\ budget.struck \subseteq w.budget.struck
  BY <1>1, <1>7, TryAppendCases
<1>10. LineOK(accepted, log, cur, queue)
  BY DEF EventInv
<1>11. log' = w.log /\ budget' = w.budget
  BY <1>8 DEF SteerWith
<1>12. CASE w.ok
  <2>1. UNCHANGED <<killed, queue>> /\ cur' = Tail(cur) /\ pc' = IF Len(cur) = 1 THEN "round" ELSE pc
    BY <1>8, <1>12 DEF SteerWith, ctxs
  <2>2. /\ LineOK(accepted, Append(log, e), Tail(cur), queue)
        /\ \A p : Holds(Append(log, e), Tail(cur), queue, p) => Holds(log, cur, queue, p)
        /\ \A p : (e.kind = "prompt" \/ p # Head(cur)) /\ Holds(log, cur, queue, p) =>
             Holds(Append(log, e), Tail(cur), queue, p)
    BY <1>1, <1>2, <1>4, <1>7, <1>10, LineWrite
  <2>3. log' = Append(log, e)
    BY <1>9, <1>11, <1>12
  <2>4. /\ LineOK(accepted, log', cur', queue')
        /\ \A p \in Prompts : Holds(log', cur', queue', p) <=> Holds(log, cur, queue, p)
    BY <1>7, <2>1, <2>2, <2>3
  <2>5. Len(cur) = 1 => Tail(cur) = <<>>
    <3>1. Tail(cur) \in Seq(Prompts) /\ Len(Tail(cur)) = Len(cur) - 1
      BY <1>1, <1>4, HeadTailProperties
    <3>2. Len(cur) = 1 => Len(Tail(cur)) = 0
      BY <3>1
    <3> QED BY <3>1, <3>2, EmptySeq
  <2>6. HandsOK' /\ FlagsOK'
    BY <1>3, <2>1, <2>5 DEF EventInv, HandsOK, FlagsOK
  <2>7. Losing => Losing'
    BY <1>9, <1>11, <2>1, LosingStays
  <2> QED BY <1>3, <2>4, <2>6, <2>7, LineKept
<1>13. CASE ~ w.ok
  <2>1. UNCHANGED killed /\ pc' = "recv" /\ cur' = <<>> /\ Prepend(cur)
    BY <1>8, <1>13 DEF SteerWith, Finish
  <2>2. log' = log
    BY <1>9, <1>11, <1>13
  <2>3. HandsOK' /\ FlagsOK'
    BY <1>3, <2>1 DEF EventInv, HandsOK, FlagsOK
  <2>4. Losing => Losing'
    BY <1>9, <1>11, <2>1, LosingStays
  <2>5. CASE closed
    <3>1. queue' = queue
      BY <2>1, <2>5 DEF Prepend
    <3>2. Losing'
      BY <2>1, <2>5 DEF EventInv, FlagsOK, Losing
    <3>3. LineOK(accepted, log, <<>>, queue) /\ \A p : Holds(log, <<>>, queue, p) => Holds(log, cur, queue, p)
      BY <1>10, LineForget
    <3> QED BY <1>3, <2>1, <2>2, <2>3, <3>1, <3>2, <3>3, LineKept
  <2>6. CASE ~ closed
    <3>1. queue' = cur \o queue
      BY <2>1, <2>6 DEF Prepend
    <3>2. /\ LineOK(accepted, log, <<>>, cur \o queue)
          /\ \A p : Holds(log, <<>>, cur \o queue, p) <=> Holds(log, cur, queue, p)
      BY <1>1, <1>10, LinePrepend
    <3>3. /\ LineOK(accepted, log', cur', queue')
          /\ \A p : Holds(log', cur', queue', p) <=> Holds(log, cur, queue, p)
      BY <2>1, <2>2, <3>1, <3>2
    <3> QED BY <1>3, <2>3, <2>4, <3>3, LineKept
  <2> QED BY <2>5, <2>6
<1> QED BY <1>9, <1>12, <1>13

\* A panic forgets what the loop holds.
LEMMA PanicLine ==
  ASSUME TypeOK, EventInv, Panic PROVE EventInv'
<1>1. UNCHANGED <<log, queue, closed, killed, sent, accepted, rejected>> /\ pc' = "panicked" /\ cur' = <<>>
  BY DEF Panic, inbox, asked, told
<1>2. Struck("panic")'
  BY DEF Panic, Spend, Strike, Struck
<1>3. HandsOK' /\ FlagsOK' /\ Losing'
  BY <1>1, <1>2 DEF EventInv, HandsOK, FlagsOK, Losing
<1>4. LineOK(accepted, log, <<>>, queue) /\ \A p : Holds(log, <<>>, queue, p) => Holds(log, cur, queue, p)
  BY LineForget DEF EventInv
<1> QED BY <1>1, <1>3, <1>4, LineKept

\* A new process starts from a prefix of the log, with an empty queue.
LEMMA ForgetLine ==
  ASSUME TypeOK, EventInv, NEW k \in 0..Len(log), log' = SubSeq(log, 1, k), Forget PROVE EventInv'
<1>1. UNCHANGED <<sent, accepted, rejected>> /\ pc' = "boot" /\ cur' = <<>> /\ queue' = <<>> /\ ~ closed'
  BY DEF Forget, asked, told
<1>2. Struck("boot")'
  BY DEF Forget, Spend, Strike, Struck
<1>3. HandsOK' /\ FlagsOK' /\ Losing'
  BY <1>1, <1>2 DEF HandsOK, FlagsOK, Losing
<1>4. LineOK(accepted, SubSeq(log, 1, k), <<>>, <<>>)
      /\ \A p : Holds(SubSeq(log, 1, k), <<>>, <<>>, p) => Holds(log, cur, queue, p)
  <2>1. accepted \in Seq(Events) /\ log \in Seq(Entry)
    BY DEF TypeOK, AskedOK
  <2> QED BY <2>1, LineCut DEF EventInv
<1> QED BY <1>1, <1>3, <1>4, LineKept

\* Recovery writes behind the log, or behind nothing when the aria is
\* ephemeral.
LEMMA RecoverLine ==
  ASSUME TypeOK, EventInv, Recover PROVE EventInv'
<1>1. accepted \in Seq(Events) /\ log \in Seq(Entry) /\ cur \in Seq(Prompts) /\ queue \in Seq(Events)
      /\ budget \in Limits
  BY DEF TypeOK, AskedOK, HeldOK, InboxOK
<1>2. pc = "panicked" /\ ~ killed /\ UNCHANGED <<cur, queue, closed, sent, accepted, rejected>>
  BY DEF Recover, asked, held
<1>3. PICK b : b = IF Backed THEN log ELSE <<>>
  OBVIOUS
<1>4. b \in Seq(Entry) /\ (b = log \/ b = <<>>)
  BY <1>1, <1>3
<1>5. PICK s \in SealTurn(b, budget) :
        \E r \in RepairInterruptedTail(s.log, s.budget) :
          log' = r.log /\ budget' = r.budget /\ Finish(Reconcile(ui, r.log))
  BY <1>3 DEF Recover
<1>6. s.log \in Seq(Entry) /\ s.budget \in Limits /\ Grown(b, s.log) /\ budget.struck \subseteq s.budget.struck
  BY <1>1, <1>4, SealGrown
<1>7. PICK r \in RepairInterruptedTail(s.log, s.budget) :
        log' = r.log /\ budget' = r.budget /\ Finish(Reconcile(ui, r.log))
  BY <1>5
<1>8. r.log \in Seq(Entry) /\ Grown(s.log, r.log) /\ s.budget.struck \subseteq r.budget.struck
  BY <1>6, RepairGrown
<1>9. pc' = "recv" /\ UNCHANGED killed
  BY <1>7 DEF Finish
<1>10. LineOK(accepted, b, cur, queue) /\ \A p : Holds(b, cur, queue, p) => Holds(log, cur, queue, p)
  <2>1. CASE b = log
    BY <2>1 DEF EventInv
  <2>2. CASE b = <<>>
    BY <2>2 DEF EventInv, LineOK, Holds
  <2> QED BY <1>4, <2>1, <2>2
<1>11. LineOK(accepted, s.log, cur, queue)
       /\ \A p \in Prompts : Holds(s.log, cur, queue, p) <=> Holds(b, cur, queue, p)
  BY <1>1, <1>4, <1>6, <1>10, LineGrown
<1>12. LineOK(accepted, r.log, cur, queue)
       /\ \A p \in Prompts : Holds(r.log, cur, queue, p) <=> Holds(s.log, cur, queue, p)
  BY <1>1, <1>6, <1>8, <1>11, LineGrown
<1>13. HandsOK' /\ FlagsOK'
  BY <1>2, <1>9 DEF EventInv, HandsOK, FlagsOK
<1>14. Losing'
  BY <1>2, <1>6, <1>7, <1>8 DEF EventInv, FlagsOK, Losing, Struck
<1> QED BY <1>2, <1>7, <1>10, <1>11, <1>12, <1>13, <1>14, LineKept

\* The results a round records.
LEMMA AssembledType ==
  ASSUME TypeOK PROVE AssembledResults \in Entry /\ AssembledResults.event = NoEvent
<1>1. rnd.calls \in SUBSET Calls
  BY DEF TypeOK, Round
<1>2. [c \in Calls |-> IF folded[c] \in {"ok", "error"} THEN folded[c] ELSE "empty"] \in [Calls -> Outcomes]
  BY DEF TypeOK, ToolsOK, Outcomes
<1>3. AssembledResults \in Entry
  BY <1>1, <1>2, EntryType DEF AssembledResults
<1> QED BY <1>3 DEF AssembledResults, ResultEntry

\* A step that leaves the drain loop where it is.
LEMMA LineStill ==
  ASSUME TypeOK, EventInv, UNCHANGED <<log, cur, queue, sent, accepted, rejected, pc>>,
         closed' => killed', budget.struck \subseteq budget'.struck, killed => killed'
  PROVE  EventInv'
<1>1. HandsOK' /\ FlagsOK'
  BY DEF EventInv, HandsOK, FlagsOK, Struck
<1> QED BY <1>1, LineAlone

\* A step of the drain loop that at most runs forks.
LEMMA LineMoved ==
  ASSUME TypeOK, EventInv, UNCHANGED <<log, cur, sent, accepted, rejected, closed, killed, budget>>,
         pc \notin {"begin", "append"}, pc' # "begin", pc' # "panicked" \/ pc = "panicked",
         queue' = queue \/ ServiceForks
  PROVE  EventInv'
<1>1. HandsOK' /\ FlagsOK'
  BY DEF EventInv, HandsOK, FlagsOK, Struck
<1>2. queue' = queue \/ \E n \in 0..Len(queue) : ForkPrefix(queue, n) /\ queue' = Drop(queue, n)
  BY DEF ServiceForks
<1>3. log' \in Seq(Entry)
  BY DEF TypeOK
<1>4. Grown(log, log')
  BY GrownSame DEF TypeOK
<1> QED BY <1>1, <1>2, <1>3, <1>4, Served

LEMMA EventNext == TypeOK /\ EventInv /\ [Next]_vars => EventInv'
<1> SUFFICES ASSUME TypeOK, EventInv, [Next]_vars PROVE EventInv'
  OBVIOUS
<1> USE DEF inbox, ctxs, held, asked, told
<1>a. closed => killed
  BY DEF EventInv, FlagsOK
<1>b. log \in Seq(Entry) /\ budget \in Limits /\ queue \in Seq(Events)
  BY DEF TypeOK, InboxOK
<1>1. CASE UNCHANGED vars
  BY <1>1, <1>a, LineStill DEF vars
<1>2. ASSUME NEW e \in Events, Send(e) PROVE EventInv'
  BY <1>2, SendLine
<1>3. CASE Interrupt
  BY <1>3, <1>a, LineStill DEF Interrupt, Spend, Strike
<1>4. CASE Kill
  BY <1>4, <1>a, LineStill DEF Kill, Spend, Strike
<1>5. CASE CloseInbox
  BY <1>5, <1>a, LineStill DEF CloseInbox
<1>6. CASE RecvPrompt
  BY <1>6, RecvPromptLine
<1>7. CASE RecvSet
  BY <1>7, RecvSetLine
<1>8. CASE RecvFork
  <2>1. UNCHANGED <<log, cur, sent, accepted, rejected, closed, killed, budget, pc>> /\ pc = "recv"
        /\ queue # <<>> /\ Head(queue) \in Forks /\ queue' = Tail(queue)
    BY <1>8 DEF RecvFork
  <2>2. Tail(queue) = Drop(queue, 1) /\ 1 \in 0..Len(queue) /\ queue[1] = Head(queue)
    BY <1>b, <2>1, TakeOne
  <2>3. /\ LineOK(accepted, log, cur, Drop(queue, 1))
        /\ \A p : Holds(log, cur, Drop(queue, 1), p) => Holds(log, cur, queue, p)
        /\ \A p : (\A i \in 1..1 : queue[i] # p) /\ Holds(log, cur, queue, p) => Holds(log, cur, Drop(queue, 1), p)
    <3>1. accepted \in Seq(Events) /\ cur \in Seq(Prompts)
      BY DEF TypeOK, AskedOK, HeldOK
    <3>2. LineOK(accepted, log, cur, queue)
      BY DEF EventInv
    <3> QED BY <1>b, <2>2, <3>1, <3>2, LineDrop
  <2>4. \A p \in Prompts : \A i \in 1..1 : queue[i] # p
    BY <2>1, <2>2, FigaroTurnAssumption
  <2>5. HandsOK' /\ FlagsOK' /\ (Losing => Losing')
    BY <2>1 DEF EventInv, HandsOK, FlagsOK, Losing, Struck
  <2> QED BY <2>1, <2>2, <2>3, <2>4, <2>5, LineKept
<1>9. CASE RecvClosed
  BY <1>9, LineMoved DEF RecvClosed
<1>10. CASE BeginTurn
  BY <1>10, BeginTurnLine
<1>11. CASE FirstRound
  BY <1>11, LineMoved DEF FirstRound, StartProvider
<1>12. CASE NextRound
  <2>1. PICK n \in 0..Len(queue) : ForkPrefix(queue, n) /\ TakeReadyUserPrompts(Drop(queue, n), 0)
    BY <1>12 DEF NextRound
  <2>2. queue' = Drop(queue, n)
    <3>1. 0 \in 0..Len(queue) - n /\ n + 0 = n
      BY <1>b
    <3>2. Drop(Drop(queue, n), 0) = Drop(queue, n + 0)
      BY <1>b, <3>1, DropTwice
    <3> QED BY <2>1, <3>1, <3>2 DEF TakeReadyUserPrompts
  <2>3. UNCHANGED <<log, cur, sent, accepted, rejected, closed, killed, budget>> /\ pc = "round" /\ pc' = "stream"
    BY <1>12 DEF NextRound, StartProvider
  <2>4. HandsOK' /\ FlagsOK'
    BY <2>3 DEF EventInv, HandsOK, FlagsOK
  <2>5. Grown(log, log') /\ log' \in Seq(Entry)
    BY <1>b, <2>3, GrownSame
  <2> QED BY <2>1, <2>2, <2>3, <2>4, <2>5, Served
<1>13. CASE SteerBeforeRound
  BY <1>13, SteerBeforeLine
<1>14. CASE SteerAfterTools
  BY <1>14, SteerAfterLine
<1>15. CASE AppendSteering
  BY <1>15, AppendSteeringLine
<1>16. CASE ForkWhileStreaming
  BY <1>16, LineMoved DEF ForkWhileStreaming
<1>17. CASE FoldStream
  BY <1>17, <1>a, LineStill DEF FoldStream
<1>18. CASE SealAssistant
  <2>1. PICK m : m = AssistantEntry(Head(bus).text, Head(bus).calls)
    OBVIOUS
  <2>2. m \in Entry /\ m.event = NoEvent
    <3>1. Head(bus) \in BusEvent
      BY <1>18 DEF TypeOK, ProviderOK, SealAssistant
    <3>2. Head(bus).text \in BOOLEAN /\ Head(bus).calls \in SUBSET Calls
      BY <3>1 DEF BusEvent
    <3> QED BY <2>1, <3>2, EntryType DEF AssistantEntry
  <2>3. PICK w \in TryAppend(log, budget, m) :
          \E k \in (IF w.ok THEN CommitCache(w.budget) ELSE {[ok |-> FALSE, budget |-> w.budget]}) :
            log' = w.log /\ budget' = k.budget
    BY <1>18, <2>1 DEF SealAssistant, SealWith
  <2>4. PICK k \in (IF w.ok THEN CommitCache(w.budget) ELSE {[ok |-> FALSE, budget |-> w.budget]}) :
          log' = w.log /\ budget' = k.budget
    BY <2>3
  <2>5. w.log \in Seq(Entry) /\ w.budget \in Limits /\ Grown(log, w.log) /\ budget.struck \subseteq w.budget.struck
    BY <1>b, <2>2, AppendGrown
  <2>6. w.budget.struck \subseteq k.budget.struck
    BY <2>4, <2>5, CommitCacheStruck
  <2>7. UNCHANGED <<cur, queue, sent, accepted, rejected, closed, killed>> /\ pc = "stream" /\ pc' = "sealing"
    BY <1>18 DEF SealAssistant
  <2>8. HandsOK' /\ FlagsOK'
    BY <2>7 DEF EventInv, HandsOK, FlagsOK
  <2> QED BY <2>4, <2>5, <2>6, <2>7, <2>8, Served
<1>19. CASE AckAssistant
  BY <1>19, LineMoved DEF AckAssistant
<1>20. CASE RefuseAssistant
  BY <1>20, <1>a, LineStill DEF RefuseAssistant
<1>21. CASE StopInterrupted
  <2>1. PICK s \in SealTurn(log, budget) :
          /\ log' = s.log /\ budget' = s.budget
          /\ \/ ServiceForks /\ Finish(CommitUnit(IF s.wrote THEN EmitDelta(ui, s.log) ELSE ui))
             \/ UNCHANGED <<queue, answered>> /\ Finish(Reconcile(ui, s.log))
    BY <1>21 DEF StopInterrupted
  <2>2. UNCHANGED <<closed, held, asked, rejected>> /\ pc = "stream"
    BY <1>21 DEF StopInterrupted, Drained
  <2>3. s.log \in Seq(Entry) /\ Grown(log, s.log) /\ budget.struck \subseteq s.budget.struck
    BY <1>b, SealGrown
  <2> QED BY <2>1, <2>2, <2>3, EndServed
<1>22. CASE StopSendError
  <2>1. PICK s \in SealTurn(log, budget) :
          log' = s.log /\ budget' = s.budget /\ \E u : Finish(u)
    BY <1>22 DEF StopSendError
  <2>2. UNCHANGED <<closed, held, asked, rejected>> /\ pc = "stream" /\ ServiceForks
    BY <1>22 DEF StopSendError, Drained
  <2>3. s.log \in Seq(Entry) /\ Grown(log, s.log) /\ budget.struck \subseteq s.budget.struck
    BY <1>b, SealGrown
  <2> QED BY <2>1, <2>2, <2>3, EndServed
<1>23. CASE LeaveStream
  BY <1>23, LineMoved DEF LeaveStream, Drained
<1>24. CASE ForkWhileWaiting
  BY <1>24, LineMoved DEF ForkWhileWaiting
<1>25. CASE EndRoundError
  <2>1. PICK s \in SealTurn(log, budget) :
          log' = s.log /\ budget' = s.budget /\ \E u : Finish(u)
    BY <1>25 DEF EndRoundError
  <2>2. UNCHANGED <<closed, held, asked, rejected>> /\ pc = "waitspec" /\ ServiceForks
    BY <1>25 DEF EndRoundError, SpecDone
  <2>3. s.log \in Seq(Entry) /\ Grown(log, s.log) /\ budget.struck \subseteq s.budget.struck
    BY <1>b, SealGrown
  <2> QED BY <2>1, <2>2, <2>3, EndServed
<1>26. CASE EndUnsealed
  <2>1. PICK w \in TryAppend(log, budget, AssistantEntry(FALSE, {})) :
          /\ log' = w.log /\ budget' = w.budget
          /\ queue' = queue \/ ServiceForks
          /\ \E u : Finish(u)
    BY <1>26 DEF EndUnsealed
  <2>2. UNCHANGED <<closed, held, asked, rejected>> /\ pc = "waitspec"
    BY <1>26 DEF EndUnsealed, SpecDone
  <2>3. AssistantEntry(FALSE, {}) \in Entry /\ AssistantEntry(FALSE, {}).event = NoEvent
    <3>1. FALSE \in BOOLEAN /\ {} \in SUBSET Calls
      OBVIOUS
    <3>2. AssistantEntry(FALSE, {}) \in Entry
      BY <3>1, EntryType
    <3> QED BY <3>2 DEF AssistantEntry
  <2>4. w.log \in Seq(Entry) /\ Grown(log, w.log) /\ budget.struck \subseteq w.budget.struck
    BY <1>b, <2>3, AppendGrown
  <2> QED BY <2>1, <2>2, <2>4, EndServed
<1>27. CASE EndNoCalls
  <2>1. UNCHANGED <<log, budget, closed, held, asked, rejected>> /\ pc = "waitspec" /\ ServiceForks
        /\ Finish(CommitUnit(ui))
    BY <1>27 DEF EndNoCalls, SpecDone
  <2>2. log' \in Seq(Entry) /\ Grown(log, log')
    BY <1>b, <2>1, GrownSame
  <2> QED BY <2>1, <2>2, EndServed
<1>28. CASE BeginCollect
  BY <1>28, LineMoved DEF BeginCollect, SpecDone
<1>29. CASE ForkWhileCollecting
  BY <1>29, LineMoved DEF ForkWhileCollecting
<1>30. CASE EndCollect
  BY <1>30, LineMoved DEF EndCollect
<1>31. CASE RecordResults
  <2>1. AssembledResults \in Entry /\ AssembledResults.event = NoEvent
    BY AssembledType
  <2>2. PICK w \in TryAppend(log, budget, AssembledResults) :
          \/ log' = w.log /\ budget' = w.budget /\ pc' = "steer" /\ UNCHANGED killed
          \/ \E s \in SealTurn(w.log, w.budget) :
               log' = s.log /\ budget' = s.budget /\ w.log = log /\ \E u : Finish(u)
    <3>1. PICK w \in TryAppend(log, budget, AssembledResults) :
            IF w.ok
            THEN log' = w.log /\ budget' = w.budget /\ pc' = "steer" /\ UNCHANGED killed
            ELSE \E s \in SealTurn(w.log, w.budget) :
                   log' = s.log /\ budget' = s.budget /\ \E u : Finish(u)
      BY <1>31 DEF RecordResults
    <3>2. w.ok \/ w.log = log
      BY <1>b, <2>1, TryAppendCases
    <3> QED BY <3>1, <3>2
  <2>3. w.log \in Seq(Entry) /\ w.budget \in Limits /\ Grown(log, w.log) /\ budget.struck \subseteq w.budget.struck
    BY <1>b, <2>1, AppendGrown
  <2>4. UNCHANGED <<queue, closed, held, asked, rejected>> /\ pc = "record"
    BY <1>31 DEF RecordResults
  <2>5. CASE log' = w.log /\ budget' = w.budget /\ pc' = "steer" /\ UNCHANGED killed
    <3>1. HandsOK' /\ FlagsOK'
      BY <2>4, <2>5 DEF EventInv, HandsOK, FlagsOK
    <3> QED BY <2>3, <2>4, <2>5, <3>1, Served
  <2>6. ASSUME NEW s \in SealTurn(w.log, w.budget), log' = s.log, budget' = s.budget, w.log = log,
               \E u : Finish(u)
        PROVE  EventInv'
    <3>1. s.log \in Seq(Entry) /\ Grown(log, s.log) /\ w.budget.struck \subseteq s.budget.struck
      BY <2>3, <2>6, SealGrown
    <3> QED BY <2>3, <2>4, <2>6, <3>1, EndServed
  <2> QED BY <2>2, <2>5, <2>6
<1>32. CASE RecordInterrupted
  <2>1. PICK s \in SealTurn(log, budget) :
          log' = s.log /\ budget' = s.budget /\ \E u : Finish(u)
    BY <1>32 DEF RecordInterrupted
  <2>2. UNCHANGED <<queue, closed, held, asked, rejected>> /\ pc = "record"
    BY <1>32 DEF RecordInterrupted
  <2>3. s.log \in Seq(Entry) /\ Grown(log, s.log) /\ budget.struck \subseteq s.budget.struck
    BY <1>b, SealGrown
  <2> QED BY <2>1, <2>2, <2>3, EndServed
<1>33. CASE SteerInterrupted
  <2>1. UNCHANGED <<log, budget, queue, closed, held, asked, rejected>> /\ pc = "steer" /\ Finish(CommitUnit(ui))
    BY <1>33 DEF SteerInterrupted
  <2>2. log' \in Seq(Entry) /\ Grown(log, log')
    BY <1>b, <2>1, GrownSame
  <2> QED BY <2>1, <2>2, EndServed
<1>34. ASSUME NEW c \in Calls, FoldTool(c) PROVE EventInv'
  BY <1>34, <1>a, LineStill DEF FoldTool
<1>35. CASE Recover
  BY <1>35, RecoverLine
<1>36. CASE StopPanicked
  BY <1>36, LineMoved DEF StopPanicked
<1>37. CASE PushDelta
  BY <1>37, <1>a, LineStill DEF PushDelta
<1>38. ASSUME NEW c \in Calls, PushToolReady(c) PROVE EventInv'
  BY <1>38, <1>a, LineStill DEF PushToolReady
<1>39. CASE PushFigaro
  BY <1>39, <1>a, LineStill DEF PushFigaro
<1>40. CASE ProviderReturn
  BY <1>40, <1>a, LineStill DEF ProviderReturn
<1>41. ASSUME NEW c \in Calls, SpecDispatch(c) PROVE EventInv'
  BY <1>41, <1>a, LineStill DEF SpecDispatch
<1>42. ASSUME NEW c \in Calls, ToolEnd(c) PROVE EventInv'
  BY <1>42, <1>a, LineStill DEF ToolEnd
<1>43. CASE Panic
  BY <1>43, PanicLine
<1>44. CASE Crash
  BY <1>44, ForgetLine DEF Crash
<1>45. CASE Restart
  <2>1. Len(log) \in 0..Len(log)
    BY <1>b
  <2>2. log = SubSeq(log, 1, Len(log))
    <3>1. PICK m : m = SubSeq(log, 1, Len(log))
      OBVIOUS
    <3>2. m \in Seq(Entry) /\ Len(m) = Len(log) /\ \A i \in 1..Len(log) : m[i] = log[i]
      BY <1>b, <3>1
    <3> QED BY <1>b, <3>1, <3>2, SeqEqual
  <2> QED BY <1>45, <2>1, <2>2, ForgetLine DEF Restart
<1>46. CASE Boot
  <2>1. PICK r \in RepairInterruptedTail(log, budget) : log' = r.log /\ budget' = r.budget
    BY <1>46 DEF Boot
  <2>2. r.log \in Seq(Entry) /\ Grown(log, r.log) /\ budget.struck \subseteq r.budget.struck
    BY <1>b, RepairGrown
  <2>3. UNCHANGED <<queue, cur, sent, accepted, rejected, closed, killed>> /\ pc = "boot" /\ pc' = "recv"
    BY <1>46 DEF Boot
  <2>4. HandsOK' /\ FlagsOK'
    BY <2>3 DEF EventInv, HandsOK, FlagsOK
  <2> QED BY <2>1, <2>2, <2>3, <2>4, Served
<1>47. CASE Quiescent
  BY <1>47, <1>1 DEF Quiescent
<1> QED
  BY <1>1, <1>2, <1>3, <1>4, <1>5, <1>6, <1>7, <1>8, <1>9, <1>10, <1>11, <1>12, <1>13, <1>14, <1>15, <1>16, <1>17, <1>18, <1>19, <1>20, <1>21, <1>22, <1>23, <1>24, <1>25, <1>26, <1>27, <1>28, <1>29, <1>30, <1>31, <1>32, <1>33, <1>34, <1>35, <1>36, <1>37, <1>38, <1>39, <1>40, <1>41, <1>42, <1>43, <1>44, <1>45, <1>46, <1>47
     DEF Next, Clients, Between, Rounds, Phase1, Phase2, Drain, Provider, ToolRuns, Failures

LEMMA EventStart == Init => EventInv
<1> SUFFICES ASSUME Init PROVE EventInv
  OBVIOUS
<1>1. DOMAIN <<>> = {}
  OBVIOUS
<1>2. LineOK(accepted, log, cur, queue) /\ SentOnce
  BY <1>1 DEF Init, LineOK, SentOnce
<1>3. HandsOK /\ FlagsOK
  BY DEF Init, HandsOK, FlagsOK
<1>4. RejectedGone /\ NotLost
  BY <1>1 DEF Init, RejectedGone, NotLost, Known
<1> QED BY <1>2, <1>3, <1>4 DEF EventInv

\* Every event of the log, of what the drain loop holds and of the queue is in
\* the order in which the inbox accepted it, and no accepted prompt is lost.
THEOREM EventInvariant == Spec => []EventInv
  BY TypeCorrect, EventStart, EventNext, PTL DEF Spec

\* The log keeps the order in which the inbox accepted what clients sent, each
\* event once, although steering takes prompts in batches and puts them back
\* when an append fails, and a process may start again from a prefix of the log
\* (TakeReadyUserPrompts, Prepend, appendPromptEvents).
THEOREM EventsInOrder == Spec => []EventsOnceInOrder
  BY TypeCorrect, EventInvariant, EventInvWhole, PTL

\* An accepted prompt is queued, in the drain loop's hands, in the log or
\* reported as failed, and in one of these places only, unless the loop
\* panicked, the agent was killed or the process died (runTurn,
\* appendSteeringPrompts).
THEOREM PromptsKept == Spec => []NoPromptLost
  BY TypeCorrect, EventInvariant, EventInvWhole, PTL

-----------------------------------------------------------------------------
(* Where forks run *)

\* A provider that has not returned belongs to a round in its first phase.
Attended == prov \in {"streaming", "awaiting"} => pc \in {"stream", "sealing"}

LEMMA AttendedNext == Attended /\ [Next]_vars => Attended'
<1> SUFFICES ASSUME Attended, [Next]_vars PROVE Attended'
  OBVIOUS
<1> USE DEF Attended, provider
<1>1. CASE UNCHANGED <<prov, pc>>
  BY <1>1
<1>2. CASE prov' \notin {"streaming", "awaiting"}
  BY <1>2
<1>3. CASE UNCHANGED vars
  BY <1>3 DEF vars
<1>4. CASE Clients \/ CloseInbox \/ Quiescent
  BY <1>4 DEF Clients, Send, Interrupt, Kill, CloseInbox, Quiescent, vars
<1>5. CASE Between
  BY <1>5 DEF Between, RecvPrompt, RecvSet, RecvFork, RecvClosed
<1>6. CASE Rounds
  BY <1>6 DEF Rounds, BeginTurn, BeginWith, FirstRound, NextRound, StartProvider, SteerBeforeRound,
       SteerAfterTools, AppendSteering, SteerWith, Finish, ForgetRound
<1>7. CASE Phase1
  BY <1>7 DEF Phase1, ForkWhileStreaming, FoldStream, SealAssistant, AckAssistant, RefuseAssistant,
       StopInterrupted, StopSendError, LeaveStream, Drained, Finish, ForgetRound
<1>8. CASE Phase2
  BY <1>8 DEF Phase2, ForkWhileWaiting, EndRoundError, EndUnsealed, EndNoCalls, BeginCollect,
       ForkWhileCollecting, EndCollect, RecordResults, RecordInterrupted, SteerInterrupted, SpecDone,
       Finish, ForgetRound
<1>9. CASE (\E c \in Calls : FoldTool(c)) \/ Recover \/ StopPanicked
  BY <1>9 DEF FoldTool, Recover, StopPanicked, Finish, ForgetRound
<1>10. CASE Provider \/ ToolRuns
  BY <1>10 DEF Provider, PushDelta, PushToolReady, PushFigaro, ProviderReturn, ToolRuns, SpecDispatch, ToolEnd
<1>11. CASE Failures \/ Boot
  BY <1>11 DEF Failures, Panic, Crash, Restart, Forget, ForgetRound, Boot
<1> QED BY <1>3, <1>4, <1>5, <1>6, <1>7, <1>8, <1>9, <1>10, <1>11 DEF Next, Drain

\* Forks run between turns, before a round, while nothing is sealed yet, or once
\* the provider has returned (serviceForks, forkWake).
LEMMA ForkStep ==
  ASSUME Attended, Next, answered' # answered
  PROVE  pc # "sealing" /\ ~ (prov = "awaiting" /\ ack = "ok")
<1> USE DEF Attended, told
<1>1. CASE Clients \/ CloseInbox \/ Quiescent
  BY <1>1 DEF Clients, Send, Interrupt, Kill, CloseInbox, Quiescent, vars
<1>2. CASE Between
  BY <1>2 DEF Between, RecvPrompt, RecvSet, RecvFork, RecvClosed
<1>3. CASE Rounds
  BY <1>3 DEF Rounds, BeginTurn, FirstRound, NextRound, SteerBeforeRound, SteerAfterTools, AppendSteering
<1>4. CASE Phase1
  BY <1>4 DEF Phase1, ForkWhileStreaming, FoldStream, SealAssistant, AckAssistant, RefuseAssistant,
       StopInterrupted, StopSendError, LeaveStream, Drained
<1>5. CASE Phase2
  BY <1>5 DEF Phase2, ForkWhileWaiting, EndRoundError, EndUnsealed, EndNoCalls, BeginCollect,
       ForkWhileCollecting, EndCollect, RecordResults, RecordInterrupted, SteerInterrupted, SpecDone
<1>6. CASE (\E c \in Calls : FoldTool(c)) \/ Recover \/ StopPanicked
  BY <1>6 DEF FoldTool, Recover, StopPanicked
<1>7. CASE Provider \/ ToolRuns
  BY <1>7 DEF Provider, PushDelta, PushToolReady, PushFigaro, ProviderReturn, ToolRuns, SpecDispatch, ToolEnd
<1>8. CASE Failures \/ Boot
  BY <1>8 DEF Failures, Panic, Crash, Restart, Forget, Boot
<1> QED BY <1>1, <1>2, <1>3, <1>4, <1>5, <1>6, <1>7, <1>8 DEF Next, Drain

\* No fork runs between the append of an assistant message and the return of the
\* provider that sent it, so a branch never misses the provider's cache
\* (serviceForks; forkWake is nil once the seal is acknowledged).
THEOREM ForksWaitForProvider == Spec => ForkAtSafePoint
<1> DEFINE Act == answered' # answered => pc # "sealing" /\ ~ (prov = "awaiting" /\ ack = "ok")
<1>1. Init => Attended
  BY DEF Init, Attended
<1>2. Attended /\ [Next]_vars => [Act]_vars
  BY ForkStep
<1> QED BY <1>1, <1>2, AttendedNext, PTL DEF Spec, ForkAtSafePoint

-----------------------------------------------------------------------------
(* What results say *)

\* A call the loop has read to its end is what the tool's goroutine left.
FoldedOK == \A c \in Calls : folded[c] \in {"ok", "error"} => exec[c] = folded[c]

LEMMA FoldedReset ==
  ASSUME exec' = AllIdle, folded' = NoneSeen PROVE FoldedOK'
  BY DEF FoldedOK, AllIdle, NoneSeen

LEMMA FoldedDispatch ==
  ASSUME TypeOK, FoldedOK, NEW C, Dispatch(C), UNCHANGED folded PROVE FoldedOK'
<1> SUFFICES ASSUME NEW c \in Calls, folded[c] \in {"ok", "error"} PROVE exec'[c] = folded[c]
  BY DEF FoldedOK
<1>1. exec[c] = folded[c]
  BY DEF FoldedOK
<1> QED BY <1>1 DEF Dispatch

LEMMA FoldedNext == TypeOK /\ FoldedOK /\ [Next]_vars => FoldedOK'
<1> SUFFICES ASSUME TypeOK, FoldedOK, [Next]_vars PROVE FoldedOK'
  OBVIOUS
<1> USE DEF tools
<1>1. CASE UNCHANGED <<exec, folded>>
  BY <1>1 DEF FoldedOK
<1>2. CASE exec' = AllIdle /\ folded' = NoneSeen
  BY <1>2, FoldedReset
<1>3. CASE UNCHANGED vars
  BY <1>1, <1>3 DEF vars
<1>4. CASE Clients \/ CloseInbox \/ Quiescent
  BY <1>1, <1>4 DEF Clients, Send, Interrupt, Kill, CloseInbox, Quiescent, vars
<1>5. CASE Between
  BY <1>1, <1>5 DEF Between, RecvPrompt, RecvSet, RecvFork, RecvClosed
<1>6. CASE Rounds
  BY <1>1, <1>2, <1>6 DEF Rounds, BeginTurn, BeginWith, FirstRound, NextRound, StartProvider, SteerBeforeRound,
       SteerAfterTools, AppendSteering, SteerWith, Finish, ForgetRound
<1>7. CASE Phase1
  BY <1>1, <1>2, <1>7 DEF Phase1, ForkWhileStreaming, FoldStream, SealAssistant, AckAssistant, RefuseAssistant,
       StopInterrupted, StopSendError, LeaveStream, Finish, ForgetRound
<1>8. CASE BeginCollect
  BY <1>8, FoldedDispatch DEF BeginCollect
<1>9. CASE Phase2 /\ ~ BeginCollect
  BY <1>1, <1>2, <1>9 DEF Phase2, ForkWhileWaiting, EndRoundError, EndUnsealed, EndNoCalls,
       ForkWhileCollecting, EndCollect, RecordResults, RecordInterrupted, SteerInterrupted,
       Finish, ForgetRound
<1>10. ASSUME NEW c \in Calls, FoldTool(c) PROVE FoldedOK'
  <2>1. folded \in [Calls -> {"none", "running", "ok", "error"}] /\ UNCHANGED exec
    BY <1>10 DEF TypeOK, ToolsOK, FoldTool
  <2>2. \/ folded' = [folded EXCEPT ![c] = "running"]
        \/ folded' = [folded EXCEPT ![c] = exec[c]]
    BY <1>10 DEF FoldTool
  <2> QED BY <2>1, <2>2 DEF FoldedOK
<1>11. CASE Recover \/ StopPanicked
  BY <1>1, <1>2, <1>11 DEF Recover, StopPanicked, Finish, ForgetRound
<1>12. CASE Provider
  BY <1>1, <1>12 DEF Provider, PushDelta, PushToolReady, PushFigaro, ProviderReturn
<1>13. ASSUME NEW c \in Calls, SpecDispatch(c) PROVE FoldedOK'
  BY <1>1, <1>13, FoldedDispatch DEF SpecDispatch
<1>14. ASSUME NEW c \in Calls, ToolEnd(c) PROVE FoldedOK'
  <2>1. exec \in [Calls -> {"idle", "running", "ok", "error", "silent"}] /\ UNCHANGED folded /\ exec[c] = "running"
    BY <1>14 DEF TypeOK, ToolsOK, ToolEnd
  <2>2. \A d \in Calls : d # c => exec'[d] = exec[d]
    BY <1>14, <2>1 DEF ToolEnd
  <2> QED BY <2>1, <2>2 DEF FoldedOK
<1>15. CASE Failures \/ Boot
  BY <1>1, <1>2, <1>15 DEF Failures, Panic, Crash, Restart, Forget, ForgetRound, Boot
<1> QED BY <1>3, <1>4, <1>5, <1>6, <1>7, <1>8, <1>9, <1>10, <1>11, <1>12, <1>13, <1>14, <1>15
    DEF Next, Drain, ToolRuns

Honest(e) == e.kind = "results" => \A c \in Calls : e.res[c] \in {"ok", "error"} => exec[c] = e.res[c]

\* What m has beyond the length of l is honest.
HonestBeyond(l, m) == \A i \in DOMAIN m : i > Len(l) => Honest(m[i])

LEMMA HonestAppend ==
  ASSUME NEW l \in Seq(Entry), NEW m \in Seq(Entry), NEW b \in Limits, NEW e \in Entry,
         HonestBeyond(l, m), Honest(e), NEW w \in TryAppend(m, b, e)
  PROVE  w.log \in Seq(Entry) /\ w.budget \in Limits /\ HonestBeyond(l, w.log)
<1>1. w \in Outcome
  BY TryAppendType
<1>2. w.log = Append(m, e) \/ w.log = m
  BY TryAppendCases
<1>3. HonestBeyond(l, Append(m, e))
  <2>1. PICK d : d = Append(m, e)
    OBVIOUS
  <2>2. Len(m) \in Nat /\ DOMAIN m = 1..Len(m)
    OBVIOUS
  <2>3. DOMAIN d = 1..Len(m) + 1 /\ d[Len(m) + 1] = e /\ \A i \in 1..Len(m) : d[i] = m[i]
    BY <2>1, AppendProperties
  <2>4. \A i \in DOMAIN d : (i \in DOMAIN m /\ d[i] = m[i]) \/ d[i] = e
    BY <2>2, <2>3
  <2>5. HonestBeyond(l, d)
    BY <2>4 DEF HonestBeyond
  <2> QED BY <2>1, <2>5
<1> QED BY <1>1, <1>2, <1>3 DEF Outcome

\* Only results of tools can be dishonest, and they are written as they were read.
LEMMA EntriesHonest ==
  ASSUME TypeOK, FoldedOK
  PROVE  /\ \A p : Honest(PromptEntry(p)) /\ Honest(PatchEntry(p))
         /\ \A t, C : Honest(AssistantEntry(t, C))
         /\ \A l : Honest(RepairEntry(l))
         /\ Honest(SealedResults) /\ Honest(AssembledResults)
<1>1. \A p : Honest(PromptEntry(p)) /\ Honest(PatchEntry(p))
  BY DEF Honest, PromptEntry, PatchEntry
<1>2. \A t, C : Honest(AssistantEntry(t, C))
  BY DEF Honest, AssistantEntry
<1>3. ASSUME NEW C, NEW f, \A c \in Calls : f[c] \in {"ok", "error"} => exec[c] = f[c]
      PROVE  Honest(ResultEntry(C, f))
  <2> SUFFICES ASSUME NEW c \in Calls, ResultEntry(C, f).res[c] \in {"ok", "error"}
               PROVE  exec[c] = ResultEntry(C, f).res[c]
    BY DEF Honest
  <2>1. ResultEntry(C, f).res[c] = IF c \in C THEN f[c] ELSE "none"
    BY DEF ResultEntry
  <2> QED BY <1>3, <2>1
<1>4. \A l : Honest(RepairEntry(l))
  <2> SUFFICES ASSUME NEW l PROVE Honest(RepairEntry(l))
    OBVIOUS
  <2>1. PICK f : f = [c \in Calls |-> "repaired"]
    OBVIOUS
  <2>2. \A c \in Calls : f[c] = "repaired"
    BY <2>1
  <2> QED BY <1>3, <2>1, <2>2 DEF RepairEntry
<1>5. Honest(SealedResults)
  <2>1. PICK f : f = [c \in Calls |-> IF folded[c] \in {"ok", "error"} THEN folded[c] ELSE "interrupted"]
    OBVIOUS
  <2>2. \A c \in Calls : f[c] \in {"ok", "error"} => exec[c] = f[c]
    BY <2>1 DEF FoldedOK
  <2> QED BY <1>3, <2>1, <2>2 DEF SealedResults
<1>6. Honest(AssembledResults)
  <2>1. PICK f : f = [c \in Calls |-> IF folded[c] \in {"ok", "error"} THEN folded[c] ELSE "empty"]
    OBVIOUS
  <2>2. \A c \in Calls : f[c] \in {"ok", "error"} => exec[c] = f[c]
    BY <2>1 DEF FoldedOK
  <2> QED BY <1>3, <2>1, <2>2 DEF AssembledResults
<1> QED BY <1>1, <1>2, <1>4, <1>5, <1>6

LEMMA RepairHonest ==
  ASSUME TypeOK, FoldedOK, NEW l \in Seq(Entry), NEW m \in Seq(Entry), NEW b \in Limits,
         HonestBeyond(l, m), NEW r \in RepairInterruptedTail(m, b)
  PROVE  r.log \in Seq(Entry) /\ r.budget \in Limits /\ HonestBeyond(l, r.log)
<1>1. CASE DanglingTail(m)
  <2>1. m[Len(m)] \in Entry /\ m # <<>>
    BY <1>1, ElementOfSeq, EmptySeq DEF DanglingTail
  <2>2. [c \in Calls |-> "repaired"] \in [Calls -> Outcomes] /\ m[Len(m)].calls \in SUBSET Calls
    BY <2>1 DEF Outcomes, Entry
  <2>3. RepairEntry(m) \in Entry
    BY <2>2, EntryType DEF RepairEntry
  <2>4. r \in TryAppend(m, b, RepairEntry(m))
    BY <1>1 DEF RepairInterruptedTail
  <2> QED BY <2>3, <2>4, EntriesHonest, HonestAppend
<1>2. CASE ~ DanglingTail(m)
  <2>1. r = Kept(m, b)
    BY <1>2 DEF RepairInterruptedTail
  <2> QED BY <2>1 DEF Kept
<1> QED BY <1>1, <1>2

LEMMA SealHonest ==
  ASSUME TypeOK, FoldedOK, NEW l \in Seq(Entry), NEW m \in Seq(Entry), NEW b \in Limits,
         HonestBeyond(l, m), NEW s \in SealTurn(m, b)
  PROVE  s.log \in Seq(Entry) /\ s.budget \in Limits /\ HonestBeyond(l, s.log)
<1>1. s \in Outcome
  BY SealTurnType
<1>2. SealedResults \in Entry /\ AssistantEntry(turn.text, turn.tools) \in Entry
  BY SealedType
<1>3. Honest(SealedResults) /\ Honest(AssistantEntry(turn.text, turn.tools))
  BY EntriesHonest
<1>4. HonestBeyond(l, s.log)
  <2>1. CASE s.log = m
    BY <2>1
  <2>2. CASE s \in TryAppend(m, b, SealedResults)
    BY <1>2, <1>3, <2>2, HonestAppend
  <2>3. ASSUME NEW a \in TryAppend(m, b, AssistantEntry(turn.text, turn.tools)),
               s = a \/ \E r \in TryAppend(a.log, a.budget, SealedResults) : s.log = r.log
        PROVE  HonestBeyond(l, s.log)
    <3>1. a.log \in Seq(Entry) /\ a.budget \in Limits /\ HonestBeyond(l, a.log)
      BY <1>2, <1>3, HonestAppend
    <3>2. ASSUME NEW r \in TryAppend(a.log, a.budget, SealedResults) PROVE HonestBeyond(l, r.log)
      BY <1>2, <1>3, <3>1, HonestAppend
    <3> QED BY <2>3, <3>1, <3>2
  <2> QED BY <2>1, <2>2, <2>3, SealTurnCases
<1> QED BY <1>1, <1>4 DEF Outcome

LEMMA HonestStep == TypeOK /\ FoldedOK /\ Next => HonestBeyond(log, log')
<1> SUFFICES ASSUME TypeOK, FoldedOK, Next PROVE HonestBeyond(log, log')
  OBVIOUS
<1>a. log \in Seq(Entry) /\ budget \in Limits /\ Len(log) \in Nat /\ DOMAIN log = 1..Len(log)
  BY DEF TypeOK
<1>b. HonestBeyond(log, log)
  BY <1>a DEF HonestBeyond
<1>1. CASE log' = log
  BY <1>1, <1>b
<1>2. CASE Clients \/ CloseInbox \/ Quiescent
  BY <1>1, <1>2 DEF Clients, Send, Interrupt, Kill, CloseInbox, Quiescent, vars
<1>3. CASE Provider \/ ToolRuns
  BY <1>1, <1>3 DEF Provider, PushDelta, PushToolReady, PushFigaro, ProviderReturn, ToolRuns, SpecDispatch, ToolEnd
<1>4. CASE RecvPrompt \/ RecvFork \/ RecvClosed
  BY <1>1, <1>4 DEF RecvPrompt, RecvFork, RecvClosed
<1>5. CASE FirstRound \/ NextRound \/ SteerBeforeRound \/ SteerAfterTools
  BY <1>1, <1>5 DEF FirstRound, NextRound, SteerBeforeRound, SteerAfterTools
<1>6. CASE ForkWhileStreaming \/ FoldStream \/ AckAssistant \/ RefuseAssistant \/ LeaveStream
  BY <1>1, <1>6 DEF ForkWhileStreaming, FoldStream, AckAssistant, RefuseAssistant, LeaveStream
<1>7. CASE ForkWhileWaiting \/ EndNoCalls \/ BeginCollect \/ ForkWhileCollecting \/ EndCollect \/ SteerInterrupted
  BY <1>1, <1>7 DEF ForkWhileWaiting, EndNoCalls, BeginCollect, ForkWhileCollecting, EndCollect, SteerInterrupted
<1>8. CASE (\E c \in Calls : FoldTool(c)) \/ StopPanicked \/ Panic \/ Restart
  BY <1>1, <1>8 DEF FoldTool, StopPanicked, Panic, Restart
<1>9. CASE RecvSet
  <2>1. CASE Backed
    BY <1>1, <1>9, <2>1 DEF RecvSet
  <2>2. CASE ~ Backed
    <3>1. PICK e : e = PatchEntry(Head(queue))
      OBVIOUS
    <3>2. e \in Entry /\ Honest(e) /\ log' = Append(log, e)
      BY <1>9, <2>2, <3>1, EntryType, EntriesHonest DEF RecvSet
    <3>3. PICK w : w = [log |-> Append(log, e), budget |-> budget, ok |-> TRUE, wrote |-> TRUE]
      OBVIOUS
    <3>4. w \in TryAppend(log, budget, e)
      BY <3>3 DEF TryAppend
    <3>5. w.log = Append(log, e)
      BY <3>3
    <3> QED BY <1>a, <1>b, <3>2, <3>4, <3>5, HonestAppend
  <2> QED BY <2>1, <2>2
<1>10. CASE BeginTurn
  <2>1. PICK e : e = PromptEntry(Head(cur))
    OBVIOUS
  <2>2. PICK r \in RepairInterruptedTail(log, budget) :
          \E w \in TryAppend(r.log, r.budget, e) : log' = w.log
    BY <1>10, <2>1 DEF BeginTurn, BeginWith
  <2>3. PICK w \in TryAppend(r.log, r.budget, e) : log' = w.log
    BY <2>2
  <2>4. r.log \in Seq(Entry) /\ r.budget \in Limits /\ HonestBeyond(log, r.log)
    BY <1>a, <1>b, RepairHonest
  <2>5. e \in Entry /\ Honest(e)
    <3>1. cur \in Seq(Prompts) /\ cur # <<>>
      BY <1>10 DEF BeginTurn, TypeOK, HeldOK
    <3>2. Head(cur) \in Prompts
      BY <3>1
    <3> QED BY <2>1, <3>2, EntryType, EntriesHonest
  <2> QED BY <1>a, <2>3, <2>4, <2>5, HonestAppend
<1>11. CASE AppendSteering
  <2>1. PICK e : e = PromptEntry(Head(cur))
    OBVIOUS
  <2>2. PICK w \in TryAppend(log, budget, e) : log' = w.log
    BY <1>11, <2>1 DEF AppendSteering, SteerWith
  <2>3. e \in Entry /\ Honest(e)
    <3>1. cur \in Seq(Prompts) /\ cur # <<>>
      BY <1>11 DEF AppendSteering, TypeOK, HeldOK
    <3>2. Head(cur) \in Prompts
      BY <3>1
    <3> QED BY <2>1, <3>2, EntryType, EntriesHonest
  <2> QED BY <1>a, <1>b, <2>2, <2>3, HonestAppend
<1>12. CASE SealAssistant
  <2>1. PICK e : e = AssistantEntry(Head(bus).text, Head(bus).calls)
    OBVIOUS
  <2>2. e \in Entry /\ Honest(e)
    <3>1. Head(bus) \in BusEvent
      BY <1>12 DEF TypeOK, ProviderOK, SealAssistant
    <3>2. Head(bus).text \in BOOLEAN /\ Head(bus).calls \in SUBSET Calls
      BY <3>1 DEF BusEvent
    <3> QED BY <2>1, <3>2, EntryType, EntriesHonest
  <2>3. PICK w \in TryAppend(log, budget, e) : log' = w.log
    BY <1>12, <2>1 DEF SealAssistant, SealWith
  <2> QED BY <1>a, <1>b, <2>2, <2>3, HonestAppend
<1>13. CASE StopInterrupted \/ StopSendError \/ EndRoundError \/ RecordInterrupted
  <2>1. PICK s \in SealTurn(log, budget) : log' = s.log
    BY <1>13 DEF StopInterrupted, StopSendError, EndRoundError, RecordInterrupted
  <2> QED BY <1>a, <1>b, <2>1, SealHonest
<1>14. CASE EndUnsealed
  <2>1. PICK e : e = AssistantEntry(FALSE, {})
    OBVIOUS
  <2>2. PICK w \in TryAppend(log, budget, e) : log' = w.log
    BY <1>14, <2>1 DEF EndUnsealed
  <2>3. FALSE \in BOOLEAN /\ {} \in SUBSET Calls
    OBVIOUS
  <2>4. e \in Entry /\ Honest(e)
    BY <2>1, <2>3, EntryType, EntriesHonest
  <2> QED BY <1>a, <1>b, <2>2, <2>4, HonestAppend
<1>15. CASE RecordResults
  <2>1. PICK w \in TryAppend(log, budget, AssembledResults) :
          log' = w.log \/ \E s \in SealTurn(w.log, w.budget) : log' = s.log
    BY <1>15 DEF RecordResults
  <2>2. w.log \in Seq(Entry) /\ w.budget \in Limits /\ HonestBeyond(log, w.log)
    BY <1>a, <1>b, AssembledType, EntriesHonest, HonestAppend
  <2>3. ASSUME NEW s \in SealTurn(w.log, w.budget), log' = s.log PROVE HonestBeyond(log, log')
    BY <1>a, <2>2, <2>3, SealHonest
  <2> QED BY <2>1, <2>2, <2>3
<1>16. CASE Recover
  <2>1. PICK b : b = IF Backed THEN log ELSE <<>>
    OBVIOUS
  <2>2. b \in Seq(Entry) /\ HonestBeyond(log, b)
    BY <1>a, <1>b, <2>1 DEF HonestBeyond
  <2>3. PICK s \in SealTurn(b, budget) :
          \E r \in RepairInterruptedTail(s.log, s.budget) : log' = r.log
    BY <1>16, <2>1 DEF Recover
  <2>4. s.log \in Seq(Entry) /\ s.budget \in Limits /\ HonestBeyond(log, s.log)
    BY <1>a, <2>2, SealHonest
  <2>5. PICK r \in RepairInterruptedTail(s.log, s.budget) : log' = r.log
    BY <2>3
  <2> QED BY <1>a, <2>4, <2>5, RepairHonest
<1>17. CASE Boot
  <2>1. PICK r \in RepairInterruptedTail(log, budget) : log' = r.log
    BY <1>17 DEF Boot
  <2> QED BY <1>a, <1>b, <2>1, RepairHonest
<1>18. CASE Crash
  <2>1. PICK k \in 0..Len(log) : log' = SubSeq(log, 1, k)
    BY <1>18 DEF Crash
  <2>2. DOMAIN log' = 1..k
    BY <1>a, <2>1
  <2>3. \A i \in DOMAIN log' : ~ (i > Len(log))
    BY <1>a, <2>2
  <2> QED BY <2>3 DEF HonestBeyond
<1> QED BY <1>2, <1>3, <1>4, <1>5, <1>6, <1>7, <1>8, <1>9, <1>10, <1>11, <1>12, <1>13, <1>14, <1>15,
           <1>16, <1>17, <1>18
    DEF Next, Between, Rounds, Phase1, Phase2, Drain, Failures

\* An outcome the log gives as a tool's own is the one the tool's goroutine ended
\* with, also when a turn is sealed while its tools run, when a panic or a
\* restart repairs the tail and when outcomes were not read before the results
\* were assembled (interruptedToolResults, assembleToolResults,
\* repairInterruptedTail).
THEOREM ResultsAreHonest == Spec => ResultsHonest
<1> DEFINE Act == \A i \in DOMAIN log' :
                    (i > Len(log) /\ log'[i].kind = "results") =>
                      \A c \in Calls : log'[i].res[c] \in {"ok", "error"} => exec[c] = log'[i].res[c]
<1>1. Init => FoldedOK
  BY DEF Init, FoldedOK, NoneSeen
<1>2. HonestBeyond(log, log') => Act
  BY DEF HonestBeyond, Honest
<1>3. TypeOK /\ FoldedOK /\ [Next]_vars => [Act]_vars
  BY <1>2, HonestStep
<1> QED BY <1>1, <1>3, TypeCorrect, FoldedNext, PTL DEF Spec, ResultsHonest

-----------------------------------------------------------------------------
(* The units *)

\* The stretches of the log that two units show do not overlap.
Apart(x, y) == x.seen <= y.from \/ y.seen <= x.from

\* The units u of a log of n messages: those of one role are apart, none shows
\* what is not there yet, and an open unit starts behind the committed ones.
UnitsApart(u, n) ==
  /\ \A x \in u.closed : x.seen <= n
  /\ \A x, y \in u.closed : x # y /\ x.role = y.role => Apart(x, y)
  /\ HasOpen(u) =>
       /\ u.open.role = "assistant" /\ u.open.seen <= n
       /\ \A x \in u.closed : x.role = "assistant" => x.seen <= u.open.from

UnitInv == UnitsApart(ui, Len(log))

-----------------------------------------------------------------------------
(* The units rebuilt from a log *)

\* What follows i up to the next text prompt is an initial part of the rest.
LEMMA GroupInside ==
  ASSUME NEW l \in Seq(Entry), NEW i \in 1..Len(l)
  PROVE  /\ GroupEnd(l, i) \in i..Len(l)
         /\ \A k \in (i + 1)..Len(l) : IsTextPrompt(l[k]) => GroupEnd(l, i) < k
<1>1. Len(l) \in Nat /\ i \in Nat /\ i <= Len(l)
  OBVIOUS
<1>2. CASE IsTextPrompt(l[i])
  BY <1>1, <1>2 DEF GroupEnd
<1>3. CASE ~IsTextPrompt(l[i])
  <2> DEFINE S == {j \in (i + 1)..Len(l) : \A k \in (i + 1)..j : ~IsTextPrompt(l[k])}
  <2>1. GroupEnd(l, i) = i + Cardinality(S)
    BY <1>3 DEF GroupEnd
  <2>2. \A m \in (i + 1)..(Len(l) + 1) : S \subseteq (i + 1)..(m - 1) => Cardinality(S) \in 0..(m - 1 - i)
    <3> TAKE m \in (i + 1)..(Len(l) + 1)
    <3> HAVE S \subseteq (i + 1)..(m - 1)
    <3>1. i + 1 \in Int /\ m - 1 \in Int
      BY <1>1
    <3>2. IsFiniteSet((i + 1)..(m - 1))
          /\ Cardinality((i + 1)..(m - 1)) = IF i + 1 > m - 1 THEN 0 ELSE (m - 1) - (i + 1) + 1
      BY <3>1, FS_Interval
    <3>3. Cardinality(S) \in Nat /\ Cardinality(S) <= Cardinality((i + 1)..(m - 1))
      BY <3>2, FS_Subset, FS_CardinalityType
    <3> QED BY <1>1, <3>2, <3>3
  <2>3. S \subseteq (i + 1)..((Len(l) + 1) - 1)
    BY <1>1
  <2>4. GroupEnd(l, i) \in i..Len(l)
    <3> HIDE DEF S
    <3>1. Cardinality(S) \in 0..((Len(l) + 1) - 1 - i)
      BY <1>1, <2>2, <2>3
    <3> QED BY <1>1, <2>1, <3>1
  <2>5. ASSUME NEW k \in (i + 1)..Len(l), IsTextPrompt(l[k]) PROVE GroupEnd(l, i) < k
    <3>1. S \subseteq (i + 1)..(k - 1)
      BY <1>1, <2>5
    <3> HIDE DEF S
    <3>2. Cardinality(S) \in 0..(k - 1 - i)
      BY <1>1, <2>2, <3>1
    <3> QED BY <1>1, <2>1, <3>2
  <2> QED BY <2>4, <2>5
<1> QED BY <1>2, <1>3

\* reconcileAriaServer and NewAgent leave units that are apart.
LEMMA RebuiltApart ==
  ASSUME NEW l \in Seq(Entry), NEW u, u.closed = Units(l), u.open = NoUnit
  PROVE  UnitsApart(u, Len(l))
<1> DEFINE unit(i) == [lt   |-> Cardinality({j \in Heads(l) : j <= i}),
                       role |-> IF IsTextPrompt(l[i]) THEN "user" ELSE "assistant",
                       from |-> i - 1,
                       seen |-> GroupEnd(l, i)]
<1>1. Heads(l) \subseteq 1..Len(l) /\ Len(l) \in Nat
  BY DEF Heads
<1>2. \A x \in u.closed : \E i \in Heads(l) : x = unit(i)
  BY DEF Units
<1>3. ASSUME NEW i \in Heads(l)
      PROVE  /\ i \in 1..Len(l) /\ unit(i).from = i - 1 /\ unit(i).seen \in i..Len(l)
             /\ unit(i).role = "user" => unit(i).seen = i
             /\ unit(i).role = "user" <=> IsTextPrompt(l[i])
             /\ \A k \in (i + 1)..Len(l) : IsTextPrompt(l[k]) => unit(i).seen < k
  <2>1. i \in 1..Len(l)
    BY <1>1
  <2>2. unit(i).seen = GroupEnd(l, i) /\ unit(i).from = i - 1
        /\ unit(i).role = IF IsTextPrompt(l[i]) THEN "user" ELSE "assistant"
    OBVIOUS
  <2>3. /\ GroupEnd(l, i) \in i..Len(l)
        /\ \A k \in (i + 1)..Len(l) : IsTextPrompt(l[k]) => GroupEnd(l, i) < k
    BY <2>1, GroupInside
  <2>4. IsTextPrompt(l[i]) => GroupEnd(l, i) = i
    BY DEF GroupEnd
  <2> HIDE DEF unit
  <2> QED BY <2>1, <2>2, <2>3, <2>4
<1>4. ASSUME NEW i \in Heads(l), NEW j \in Heads(l), i < j, unit(i).role = unit(j).role
      PROVE  unit(i).seen <= unit(j).from
  <2>1. i \in 1..Len(l) /\ j \in 1..Len(l)
    BY <1>1
  <2>2. unit(i).seen \in i..Len(l) /\ unit(j).from = j - 1 /\ (unit(i).role = "user" => unit(i).seen = i)
    BY <1>3
  <2>3. CASE unit(i).role = "user"
    <3> HIDE DEF unit
    <3> QED BY <1>4, <2>1, <2>2, <2>3
  <2>4. CASE unit(i).role # "user"
    <3>1. ~IsTextPrompt(l[i]) /\ ~IsTextPrompt(l[j])
      BY <1>3, <1>4, <2>4
    <3>2. Renders(l[i]) /\ \E k \in (i + 1)..(j - 1) : IsTextPrompt(l[k])
      BY <1>4, <2>1, <3>1 DEF Heads
    <3>3. PICK k \in (i + 1)..(j - 1) : IsTextPrompt(l[k])
      BY <3>2
    <3>4. k \in (i + 1)..Len(l)
      BY <2>1
    <3>5. unit(i).seen < k
      BY <1>3, <3>3, <3>4
    <3> HIDE DEF unit
    <3> QED BY <2>1, <2>2, <3>4, <3>5
  <2> QED BY <2>3, <2>4
<1> HIDE DEF unit
<1>5. \A x \in u.closed : x.seen <= Len(l)
  BY <1>1, <1>2, <1>3
<1>6. ASSUME NEW x \in u.closed, NEW y \in u.closed, x # y, x.role = y.role PROVE Apart(x, y)
  <2>1. PICK i \in Heads(l) : x = unit(i)
    BY <1>2
  <2>2. PICK j \in Heads(l) : y = unit(j)
    BY <1>2
  <2>3. i < j \/ j < i
    BY <1>1, <1>6, <2>1, <2>2
  <2> QED BY <1>4, <1>6, <2>1, <2>2, <2>3 DEF Apart
<1>7. ~HasOpen(u)
  BY DEF HasOpen, NoUnit
<1> QED BY <1>5, <1>6, <1>7 DEF UnitsApart

-----------------------------------------------------------------------------
(* The rendering operators *)

LEMMA ReconcileApart ==
  ASSUME NEW u, NEW l \in Seq(Entry) PROVE UnitsApart(Reconcile(u, l), Len(l))
<1>1. PICK v : v = Reconcile(u, l)
  OBVIOUS
<1>2. v.closed = Units(l) /\ v.open = NoUnit
  BY <1>1 DEF Reconcile
<1> QED BY <1>1, <1>2, RebuiltApart

\* The log grows.
LEMMA GrowApart ==
  ASSUME NEW u \in UI, NEW m \in Nat, NEW n \in Nat, m <= n, UnitsApart(u, m)
  PROVE  UnitsApart(u, n)
<1>1. u.open \in Unit /\ u.closed \subseteq Unit
  BY DEF UI
<1>2. u.open.seen \in Nat /\ \A x \in u.closed : x.seen \in Nat
  BY <1>1 DEF Unit
<1>3. \A x \in u.closed : x.seen <= n
  BY <1>2 DEF UnitsApart
<1>4. HasOpen(u) => u.open.seen <= n
  BY <1>2 DEF UnitsApart
<1> QED BY <1>3, <1>4 DEF UnitsApart

\* emitSnapshot of the assistant's unit: it starts at the end of the log.
LEMMA OpenApart ==
  ASSUME NEW u \in UI, NEW l \in Seq(Entry), UnitsApart(u, Len(l))
  PROVE  UnitsApart(OpenUnit(u, "assistant", l), Len(l))
<1>1. PICK v : v = OpenUnit(u, "assistant", l)
  OBVIOUS
<1>2. v.closed = u.closed /\ v.open = [lt |-> u.lt + 1, role |-> "assistant", from |-> Len(l), seen |-> Len(l)]
  BY <1>1 DEF OpenUnit
<1>3. v.open.role = "assistant" /\ v.open.from = Len(l) /\ v.open.seen = Len(l) /\ Len(l) \in Nat
  BY <1>2
<1>4. UnitsApart(v, Len(l))
  BY <1>2, <1>3 DEF UnitsApart
<1> QED BY <1>1, <1>4

\* emitDelta
LEMMA DeltaApart ==
  ASSUME NEW u \in UI, NEW l \in Seq(Entry), UnitsApart(u, Len(l))
  PROVE  UnitsApart(EmitDelta(u, l), Len(l))
<1>1. CASE ~HasOpen(u)
  BY <1>1 DEF EmitDelta
<1>2. CASE HasOpen(u)
  <2>1. PICK v : v = EmitDelta(u, l)
    OBVIOUS
  <2>2. u.open \in Unit /\ v = [u EXCEPT !.open = [u.open EXCEPT !.seen = Len(l)]]
    BY <1>2, <2>1 DEF EmitDelta, UI
  <2>3. v.closed = u.closed /\ v.open = [u.open EXCEPT !.seen = Len(l)]
    BY <2>2 DEF UI
  <2>4. v.open.role = u.open.role /\ v.open.from = u.open.from /\ v.open.seen = Len(l) /\ Len(l) \in Nat
    BY <2>2, <2>3 DEF Unit
  <2>5. UnitsApart(v, Len(l))
    BY <1>2, <2>3, <2>4 DEF UnitsApart
  <2> QED BY <2>1, <2>5
<1> QED BY <1>1, <1>2

\* emitCommit
LEMMA CommitApart ==
  ASSUME NEW u \in UI, NEW n \in Nat, UnitsApart(u, n)
  PROVE  UnitsApart(CommitUnit(u), n)
<1>1. CASE ~HasOpen(u)
  BY <1>1 DEF CommitUnit
<1>2. CASE HasOpen(u)
  <2>1. PICK v : v = CommitUnit(u)
    OBVIOUS
  <2>2. v.closed = u.closed \cup {u.open} /\ v.open = NoUnit
    BY <1>2, <2>1 DEF CommitUnit, UI
  <2>3. ~HasOpen(v)
    BY <2>2 DEF HasOpen, NoUnit
  <2>4. UnitsApart(v, n)
    BY <1>2, <2>2, <2>3 DEF UnitsApart, Apart
  <2> QED BY <2>1, <2>4
<1> QED BY <1>1, <1>2

\* abandonLive
LEMMA AbandonApart ==
  ASSUME NEW u \in UI, NEW n \in Nat, UnitsApart(u, n)
  PROVE  UnitsApart(AbandonUnit(u), n)
<1>1. PICK v : v = AbandonUnit(u)
  OBVIOUS
<1>2. v.closed = u.closed /\ v.open = NoUnit
  BY <1>1 DEF AbandonUnit, UI
<1>3. ~HasOpen(v)
  BY <1>2 DEF HasOpen, NoUnit
<1> QED BY <1>1, <1>2, <1>3 DEF UnitsApart

\* The unit of an appended prompt shows that prompt and nothing else.
LEMMA UserApart ==
  ASSUME NEW u \in UI, NEW p \in Prompts, NEW m \in Seq(Entry), NEW e \in Entry, UnitsApart(u, Len(m))
  PROVE  UnitsApart(UserUnit(u, p, Append(m, e)), Len(m) + 1)
<1>1. PICK l : l = Append(m, e)
  OBVIOUS
<1>2. l \in Seq(Entry) /\ Len(l) = Len(m) + 1 /\ Len(m) \in Nat
  BY <1>1, AppendProperties
<1>3. PICK k : k = SubSeq(l, 1, Len(l) - 1)
  OBVIOUS
<1>4. k \in Seq(Entry) /\ Len(k) = Len(m)
  BY <1>2, <1>3
<1>5. UnitsApart(u, Len(m) + 1)
  BY <1>2, GrowApart
<1>6. CASE p \in Silent
  BY <1>1, <1>5, <1>6 DEF UserUnit
<1>7. CASE p \notin Silent
  <2>1. PICK o : o = OpenUnit(u, "user", k)
    OBVIOUS
  <2>2. o \in UI /\ o.closed = u.closed
        /\ o.open = [lt |-> u.lt + 1, role |-> "user", from |-> Len(k), seen |-> Len(k)]
    BY <1>4, <2>1, UiType DEF OpenUnit
  <2>3. u.lt \in Nat
    BY DEF UI
  <2>4. o.open.lt = u.lt + 1 /\ o.open.role = "user" /\ o.open.from = Len(m)
    BY <1>4, <2>2
  <2>5. HasOpen(o) /\ o.open \in Unit
    BY <2>2, <2>3, <2>4 DEF HasOpen, UI
  <2>6. PICK d : d = EmitDelta(o, l)
    OBVIOUS
  <2>7. d \in UI /\ d.closed = u.closed /\ d.open = [o.open EXCEPT !.seen = Len(l)]
    <3>1. d = [o EXCEPT !.open = [o.open EXCEPT !.seen = Len(l)]]
      BY <2>5, <2>6 DEF EmitDelta
    <3>2. d \in UI
      BY <1>2, <2>2, <2>6, UiType
    <3> QED BY <2>2, <3>1, <3>2 DEF UI
  <2>8. d.open.lt = u.lt + 1 /\ d.open.role = "user" /\ d.open.from = Len(m) /\ d.open.seen = Len(m) + 1
    BY <1>2, <2>4, <2>5, <2>7 DEF Unit
  <2>9. PICK v : v = CommitUnit(d)
    OBVIOUS
  <2>10. v.closed = u.closed \cup {d.open} /\ v.open = NoUnit
    <3>1. HasOpen(d)
      BY <2>3, <2>8 DEF HasOpen
    <3> QED BY <2>7, <2>9, <3>1 DEF CommitUnit, UI
  <2>11. ~HasOpen(v)
    BY <2>10 DEF HasOpen, NoUnit
  <2>12. \A x \in u.closed : x.seen <= Len(m) /\ x.seen \in Nat
    BY DEF UnitsApart, UI, Unit
  <2>13. \A x \in v.closed : x.seen <= Len(m) + 1
    BY <1>2, <2>8, <2>10, <2>12
  <2>14. ASSUME NEW x \in v.closed, NEW y \in v.closed, x # y, x.role = y.role PROVE Apart(x, y)
    BY <2>8, <2>10, <2>12, <2>14 DEF UnitsApart, Apart
  <2>15. UnitsApart(v, Len(m) + 1)
    BY <2>11, <2>13, <2>14 DEF UnitsApart
  <2>16. UserUnit(u, p, l) = v
    BY <1>3, <1>7, <2>1, <2>6, <2>9 DEF UserUnit
  <2> QED BY <1>1, <2>15, <2>16
<1> QED BY <1>6, <1>7

-----------------------------------------------------------------------------
(* The steps *)

LEMMA GrownApart ==
  ASSUME NEW u \in UI, NEW l \in Seq(Entry), NEW m \in Seq(Entry), Grown(l, m), UnitsApart(u, Len(l))
  PROVE  /\ UnitsApart(u, Len(m)) /\ UnitsApart(CommitUnit(u), Len(m))
         /\ UnitsApart(EmitDelta(u, m), Len(m)) /\ UnitsApart(CommitUnit(EmitDelta(u, m)), Len(m))
         /\ UnitsApart(AbandonUnit(u), Len(m))
<1>1. Len(l) \in Nat /\ Len(m) \in Nat /\ Len(l) <= Len(m)
  BY DEF Grown
<1>2. UnitsApart(u, Len(m))
  BY <1>1, GrowApart
<1>3. EmitDelta(u, m) \in UI /\ UnitsApart(EmitDelta(u, m), Len(m))
  BY <1>2, UiType, DeltaApart
<1> QED BY <1>1, <1>2, <1>3, CommitApart, AbandonApart

\* What a prompt's append leaves: its own unit, and an assistant unit after it.
LEMMA PromptApart ==
  ASSUME NEW u \in UI, NEW p \in Prompts, NEW l \in Seq(Entry), NEW b \in Limits,
         NEW w \in TryAppend(l, b, PromptEntry(p)), UnitsApart(u, Len(l))
  PROVE  /\ w.log \in Seq(Entry)
         /\ w.ok => /\ UnitsApart(UserUnit(u, p, w.log), Len(w.log))
                    /\ UnitsApart(OpenUnit(UserUnit(u, p, w.log), "assistant", w.log), Len(w.log))
         /\ ~w.ok => UnitsApart(CommitUnit(u), Len(w.log))
<1>1. PICK e : e = PromptEntry(p)
  OBVIOUS
<1>2. e \in Entry
  BY <1>1, EntryType
<1>3. w \in Outcome
  BY <1>1, <1>2, TryAppendType
<1>4. (w.ok /\ w.log = Append(l, e)) \/ (~w.ok /\ w.log = l)
  BY <1>1 DEF TryAppend
<1>5. CASE w.ok /\ w.log = Append(l, e)
  <2>1. Len(w.log) = Len(l) + 1 /\ w.log \in Seq(Entry)
    BY <1>2, <1>5, AppendProperties
  <2>2. UnitsApart(UserUnit(u, p, w.log), Len(w.log))
    BY <1>2, <1>5, <2>1, UserApart
  <2>3. UserUnit(u, p, w.log) \in UI
    BY <2>1, UserUnitType
  <2> QED BY <1>5, <2>1, <2>2, <2>3, OpenApart
<1>6. CASE ~w.ok /\ w.log = l
  <2>1. Len(l) \in Nat
    OBVIOUS
  <2> QED BY <1>6, <2>1, CommitApart
<1> QED BY <1>4, <1>5, <1>6

LEMMA UnitNext == TypeOK /\ UnitInv /\ [Next]_vars => UnitInv'
<1> SUFFICES ASSUME TypeOK, UnitInv, [Next]_vars PROVE UnitInv'
  OBVIOUS
<1>a. log \in Seq(Entry) /\ budget \in Limits /\ ui \in UI /\ Len(log) \in Nat /\ UnitsApart(ui, Len(log))
  BY DEF TypeOK, UnitInv
<1>b. /\ UnitsApart(CommitUnit(ui), Len(log)) /\ UnitsApart(EmitDelta(ui, log), Len(log))
      /\ UnitsApart(CommitUnit(EmitDelta(ui, log)), Len(log)) /\ UnitsApart(AbandonUnit(ui), Len(log))
  BY <1>a, GrownSame, GrownApart
<1>c. ASSUME NEW m \in Seq(Entry), Grown(log, m)
      PROVE  /\ UnitsApart(ui, Len(m)) /\ UnitsApart(CommitUnit(ui), Len(m))
             /\ UnitsApart(EmitDelta(ui, m), Len(m)) /\ UnitsApart(CommitUnit(EmitDelta(ui, m)), Len(m))
             /\ UnitsApart(AbandonUnit(ui), Len(m)) /\ UnitsApart(Reconcile(ui, m), Len(m))
  BY <1>a, <1>c, GrownApart, ReconcileApart
<1>d. ASSUME NEW s \in SealTurn(log, budget) PROVE s.log \in Seq(Entry) /\ Grown(log, s.log)
  BY <1>a, SealGrown
<1>1. CASE UNCHANGED <<ui, log>>
  BY <1>1 DEF UnitInv
<1>2. CASE UNCHANGED vars \/ Clients \/ CloseInbox \/ Quiescent
  BY <1>1, <1>2 DEF Clients, Send, Interrupt, Kill, CloseInbox, Quiescent, vars
<1>3. CASE Provider \/ ToolRuns
  BY <1>1, <1>3 DEF Provider, PushDelta, PushToolReady, PushFigaro, ProviderReturn, ToolRuns, SpecDispatch, ToolEnd
<1>4. CASE RecvPrompt \/ RecvFork \/ RecvClosed \/ FirstRound \/ NextRound
  BY <1>1, <1>4 DEF RecvPrompt, RecvFork, RecvClosed, FirstRound, NextRound
<1>5. CASE ForkWhileStreaming \/ FoldStream \/ RefuseAssistant
  BY <1>1, <1>5 DEF ForkWhileStreaming, FoldStream, RefuseAssistant
<1>6. CASE ForkWhileWaiting \/ BeginCollect \/ ForkWhileCollecting \/ EndCollect
  BY <1>1, <1>6 DEF ForkWhileWaiting, BeginCollect, ForkWhileCollecting, EndCollect
<1>7. CASE (\E c \in Calls : FoldTool(c)) \/ StopPanicked \/ Panic
  BY <1>1, <1>7 DEF FoldTool, StopPanicked, Panic
<1>8. CASE RecvSet
  <2>1. CASE Backed
    BY <1>1, <1>8, <2>1 DEF RecvSet
  <2>2. CASE ~ Backed
    <3>1. Len(log') = Len(log) + 1 /\ ui' = ui
      <4>1. PICK e : e = PatchEntry(Head(queue))
        OBVIOUS
      <4>2. e \in Entry /\ log' = Append(log, e) /\ ui' = ui
        BY <1>8, <2>2, <4>1, EntryType DEF RecvSet
      <4> QED BY <1>a, <4>2, AppendProperties
    <3>2. UnitsApart(ui, Len(log) + 1)
      BY <1>a, GrowApart
    <3> QED BY <3>1, <3>2 DEF UnitInv
  <2> QED BY <2>1, <2>2
<1>9. CASE BeginTurn
  <2>1. PICK r \in RepairInterruptedTail(log, budget) :
          \E w \in TryAppend(r.log, r.budget, PromptEntry(Head(cur))) : BeginWith(r, w)
    BY <1>9 DEF BeginTurn
  <2>2. PICK w \in TryAppend(r.log, r.budget, PromptEntry(Head(cur))) : BeginWith(r, w)
    BY <2>1
  <2>3. r.log \in Seq(Entry) /\ r.budget \in Limits /\ UnitsApart(ui, Len(r.log))
    BY <1>a, <1>c, RepairGrown
  <2>4. Head(cur) \in Prompts
    <3>1. cur \in Seq(Prompts) /\ cur # <<>>
      BY <1>9 DEF BeginTurn, TypeOK, HeldOK
    <3> QED BY <3>1
  <2>5. /\ w.ok => UnitsApart(OpenUnit(UserUnit(ui, Head(cur), w.log), "assistant", w.log), Len(w.log))
        /\ ~w.ok => UnitsApart(CommitUnit(ui), Len(w.log))
    BY <1>a, <2>3, <2>4, PromptApart
  <2>6. /\ log' = w.log
        /\ w.ok => ui' = OpenUnit(UserUnit(ui, Head(cur), w.log), "assistant", w.log)
        /\ ~w.ok => ui' = CommitUnit(ui)
    BY <2>2 DEF BeginWith, Finish
  <2> QED BY <2>5, <2>6 DEF UnitInv
<1>10. CASE AppendSteering
  <2>1. PICK w \in TryAppend(log, budget, PromptEntry(Head(cur))) : SteerWith(w)
    BY <1>10 DEF AppendSteering
  <2>2. Head(cur) \in Prompts
    <3>1. cur \in Seq(Prompts) /\ cur # <<>>
      BY <1>10 DEF AppendSteering, TypeOK, HeldOK
    <3> QED BY <3>1
  <2>3. /\ w.ok => /\ UnitsApart(UserUnit(ui, Head(cur), w.log), Len(w.log))
                   /\ UnitsApart(OpenUnit(UserUnit(ui, Head(cur), w.log), "assistant", w.log), Len(w.log))
        /\ ~w.ok => UnitsApart(CommitUnit(ui), Len(w.log))
    BY <1>a, <2>2, PromptApart
  <2>4. /\ log' = w.log
        /\ w.ok => \/ ui' = OpenUnit(UserUnit(ui, Head(cur), w.log), "assistant", w.log)
                   \/ ui' = UserUnit(ui, Head(cur), w.log)
        /\ ~w.ok => ui' = CommitUnit(ui)
    BY <2>1 DEF SteerWith, Finish
  <2> QED BY <2>3, <2>4 DEF UnitInv
<1>11. CASE SteerBeforeRound \/ SteerAfterTools \/ AckAssistant \/ LeaveStream \/ EndNoCalls \/ SteerInterrupted
  <2>1. log' = log
    BY <1>11 DEF SteerBeforeRound, SteerAfterTools, AckAssistant, LeaveStream, EndNoCalls, SteerInterrupted
  <2>2. ui' \in {ui, CommitUnit(ui), AbandonUnit(ui), EmitDelta(ui, log), CommitUnit(EmitDelta(ui, log))}
    BY <1>11 DEF SteerBeforeRound, SteerAfterTools, AckAssistant, LeaveStream, EndNoCalls, SteerInterrupted, Finish
  <2> QED BY <1>a, <1>b, <2>1, <2>2 DEF UnitInv
<1>12. CASE SealAssistant
  <2>1. PICK e : e = AssistantEntry(Head(bus).text, Head(bus).calls)
    OBVIOUS
  <2>2. e \in Entry /\ e.event = NoEvent
    <3>1. Head(bus) \in BusEvent
      BY <1>12 DEF TypeOK, ProviderOK, SealAssistant
    <3>2. Head(bus).text \in BOOLEAN /\ Head(bus).calls \in SUBSET Calls
      BY <3>1 DEF BusEvent
    <3> QED BY <2>1, <3>2, EntryType DEF AssistantEntry
  <2>3. PICK w \in TryAppend(log, budget, e) : log' = w.log
    BY <1>12, <2>1 DEF SealAssistant, SealWith
  <2>4. w.log \in Seq(Entry) /\ Grown(log, w.log) /\ ui' = ui
    BY <1>12, <1>a, <2>2, AppendGrown DEF SealAssistant
  <2> QED BY <1>c, <2>3, <2>4 DEF UnitInv
<1>13. CASE StopInterrupted \/ StopSendError \/ EndRoundError \/ RecordInterrupted
  <2>1. PICK s \in SealTurn(log, budget) :
          /\ log' = s.log
          /\ ui' \in {CommitUnit(ui), CommitUnit(EmitDelta(ui, s.log)), CommitUnit(EmitDelta(ui, log)),
                      EmitDelta(ui, s.log), AbandonUnit(ui), Reconcile(ui, s.log)}
    BY <1>13 DEF StopInterrupted, StopSendError, EndRoundError, RecordInterrupted, Finish
  <2>2. s.log \in Seq(Entry) /\ Grown(log, s.log)
    BY <1>d
  <2>3. UnitsApart(CommitUnit(EmitDelta(ui, log)), Len(s.log))
    <3>1. CommitUnit(EmitDelta(ui, log)) \in UI
      BY <1>a, UiType
    <3> QED BY <1>a, <1>b, <2>2, <3>1, GrownApart
  <2> QED BY <1>c, <2>1, <2>2, <2>3 DEF UnitInv
<1>14. CASE EndUnsealed
  <2>1. PICK w \in TryAppend(log, budget, AssistantEntry(FALSE, {})) :
          log' = w.log /\ ui' \in {CommitUnit(ui), Reconcile(ui, w.log)}
    BY <1>14 DEF EndUnsealed, Finish
  <2>2. AssistantEntry(FALSE, {}) \in Entry /\ AssistantEntry(FALSE, {}).event = NoEvent
    <3>1. FALSE \in BOOLEAN /\ {} \in SUBSET Calls
      OBVIOUS
    <3> QED BY <3>1, EntryType DEF AssistantEntry
  <2>3. w.log \in Seq(Entry) /\ Grown(log, w.log)
    BY <1>a, <2>2, AppendGrown
  <2> QED BY <1>c, <2>1, <2>3 DEF UnitInv
<1>15. CASE RecordResults
  <2>1. PICK w \in TryAppend(log, budget, AssembledResults) :
          \/ log' = w.log /\ ui' = ui
          \/ /\ w.log = log /\ w.budget \in Limits
             /\ \E s \in SealTurn(w.log, w.budget) :
                  log' = s.log /\ ui' \in {CommitUnit(EmitDelta(ui, s.log)), Reconcile(ui, s.log)}
    <3>1. PICK w \in TryAppend(log, budget, AssembledResults) :
            IF w.ok THEN log' = w.log /\ ui' = ui
            ELSE \E s \in SealTurn(w.log, w.budget) :
                   log' = s.log /\ ui' \in {CommitUnit(EmitDelta(ui, s.log)), Reconcile(ui, s.log)}
      BY <1>15 DEF RecordResults, Finish
    <3>2. w.budget \in Limits
      BY <1>a, AssembledType, TryAppendType DEF Outcome
    <3>3. ~w.ok => w.log = log
      BY DEF TryAppend
    <3> QED BY <3>1, <3>2, <3>3
  <2>2. w.log \in Seq(Entry) /\ Grown(log, w.log)
    BY <1>a, AssembledType, AppendGrown
  <2>3. ASSUME NEW s \in SealTurn(w.log, w.budget), w.log = log, w.budget \in Limits
        PROVE  s.log \in Seq(Entry) /\ Grown(log, s.log)
    BY <1>a, <2>3, SealGrown
  <2> QED BY <1>c, <2>1, <2>2, <2>3 DEF UnitInv
<1>16. CASE Recover
  <2>1. PICK b : b = IF Backed THEN log ELSE <<>>
    OBVIOUS
  <2>2. b \in Seq(Entry)
    BY <1>a, <2>1
  <2>3. PICK s \in SealTurn(b, budget) :
          \E r \in RepairInterruptedTail(s.log, s.budget) : log' = r.log /\ ui' = Reconcile(ui, r.log)
    BY <1>16, <2>1 DEF Recover, Finish
  <2>4. s.log \in Seq(Entry) /\ s.budget \in Limits
    BY <1>a, <2>2, SealGrown
  <2>5. PICK r \in RepairInterruptedTail(s.log, s.budget) : log' = r.log /\ ui' = Reconcile(ui, r.log)
    BY <2>3
  <2>6. r.log \in Seq(Entry)
    BY <2>4, RepairGrown
  <2> QED BY <2>5, <2>6, ReconcileApart DEF UnitInv
<1>17. CASE Boot
  <2>1. PICK r \in RepairInterruptedTail(log, budget) :
          log' = r.log
          /\ ui' = [lt |-> Cardinality(Heads(r.log)), open |-> NoUnit, closed |-> Units(r.log)]
    BY <1>17 DEF Boot
  <2>2. r.log \in Seq(Entry)
    BY <1>a, RepairGrown
  <2>3. ui'.closed = Units(r.log) /\ ui'.open = NoUnit
    BY <2>1
  <2> QED BY <2>1, <2>2, <2>3, RebuiltApart DEF UnitInv
<1>18. CASE Crash \/ Restart
  <2>1. ui' = [lt |-> 0, open |-> NoUnit, closed |-> {}]
    BY <1>18 DEF Crash, Restart, Forget
  <2> QED BY <2>1 DEF UnitInv, UnitsApart, HasOpen, NoUnit
<1> QED BY <1>2, <1>3, <1>4, <1>5, <1>6, <1>7, <1>8, <1>9, <1>10, <1>11, <1>12, <1>13, <1>14, <1>15,
           <1>16, <1>17, <1>18
    DEF Next, Between, Rounds, Phase1, Phase2, Drain, Failures

-----------------------------------------------------------------------------
LEMMA UnitStart == Init => UnitInv
  BY DEF Init, UnitInv, UnitsApart, HasOpen, NoUnit

\* UnitInv holds in every state: the units the daemon serves are apart.
THEOREM UnitInvariant == Spec => []UnitInv
<1> QED BY UnitStart, UnitNext, TypeCorrect, PTL DEF Spec

\* No message of the log is shown by two committed units, whether they were
\* committed by the turn, split by steering, discarded, rebuilt after a failed
\* append or a panic, or loaded by NewAgent (emitSnapshot, emitCommit,
\* reconcileAriaServer).
THEOREM ShownOnce == Spec => []RenderedAtMostOnce
<1>1. TypeOK /\ UnitInv => RenderedAtMostOnce
  <2> SUFFICES ASSUME TypeOK, UnitInv, NEW i \in DOMAIN log, NEW u \in ui.closed, NEW v \in ui.closed,
                      Shows(u, i), Shows(v, i)
               PROVE  u = v
    BY DEF RenderedAtMostOnce
  <2>1. u \in Unit /\ v \in Unit /\ i \in Nat
    BY DEF TypeOK, UI
  <2>2. u.from \in Nat /\ u.seen \in Nat /\ v.from \in Nat /\ v.seen \in Nat
    BY <2>1 DEF Unit
  <2>3. u.role = v.role /\ u.from < i /\ i <= u.seen /\ v.from < i /\ i <= v.seen
    BY DEF Shows
  <2>4. ~Apart(u, v)
    BY <2>1, <2>2, <2>3 DEF Apart
  <2> QED BY <2>3, <2>4 DEF UnitInv, UnitsApart
<1> QED BY <1>1, UnitInvariant, TypeCorrect, PTL

-----------------------------------------------------------------------------
(* Nothing is missing: what the committed units show *)

\* No append failed, nobody interrupted, and the agent was not killed.
Calm == ~Struck("fault") /\ ~Struck("interrupt") /\ ~killed

\* The message at i has to be shown; the unit u shows it.
Visible(l, i)    == IsTextPrompt(l[i]) \/ Renders(l[i]) \/ (l[i].kind = "results" /\ i > 1)
ShowsIn(u, l, i) == /\ u.from < i /\ i <= u.seen
                    /\ u.role = IF IsTextPrompt(l[i]) THEN "user" ELSE "assistant"

AllShown(us, l) == \A i \in DOMAIN l : Visible(l, i) => \E u \in us : ShowsIn(u, l, i)

\* What is not shown yet will be by an open unit that starts after from.
AllReached(us, l, from) ==
  \A i \in DOMAIN l : Visible(l, i) =>
    (\E u \in us : ShowsIn(u, l, i)) \/ (from < i /\ ~IsTextPrompt(l[i]))

\* Why a round fails, and what results are.
Causes ==
  /\ interrupted => Struck("interrupt")
  /\ rnd.err => Struck("fault")
  /\ torn => Struck("fault")
  /\ pc \in {"collect", "record"} => rnd.calls # {}
  /\ pc = "boot" => Backed

Carry(l) == \A i \in DOMAIN l : l[i].kind = "results" => l[i].calls # {}

\* A calm round: nothing cancels it, a provider that failed sent no message,
\* and a turn ends on a tail that needs no repair.
CalmRound ==
  /\ cancelled => pc \in {"recv", "stopped", "panicked", "boot"}
  /\ prov = "awaiting" => pc \in {"stream", "sealing"}
  /\ ack # "err"
  /\ sendErr => /\ prov \notin {"streaming", "awaiting"} /\ ~rnd.sealed
                /\ \A i \in DOMAIN bus : bus[i].kind # "figaro"
  /\ rnd.calls # {} => rnd.sealed
  /\ (pc \in {"stream", "sealing"} /\ ~rnd.sealed) => turn.on
  /\ pc \in {"recv", "begin", "round", "append", "steer", "boot"} => ~turn.committed
  /\ pc \in {"recv", "begin", "round", "append", "steer"} => ~DanglingTail(log)
  /\ (pc \in {"stream", "sealing", "waitspec"} /\ rnd.calls = {}) => ~turn.committed /\ ~DanglingTail(log)

\* The open unit u of a running turn reaches back over the log l: it shows, or
\* will show, what no committed unit does, and results only behind the message
\* they answer.
Covers(u, l, pending) ==
  /\ HasOpen(u) /\ u.open.role = "assistant" /\ u.open.from <= Len(l)
  /\ IF pending THEN AllReached(u.closed, l, u.open.from) ELSE AllShown(u.closed \cup {u.open}, l)
  /\ \A i \in DOMAIN l : (u.open.from < i /\ l[i].kind = "results") =>
       \E j \in DOMAIN l : u.open.from < j /\ j < i /\ Renders(l[j])

Rendered(u, l) == \E j \in DOMAIN l : u.open.from < j /\ Renders(l[j])

CalmUnits ==
  /\ pc \in {"recv", "begin"} => AllShown(ui.closed, log)
  /\ pc = "append" =>
       /\ HasRenderablePrompt(cur) => split
       /\ IF split THEN AllShown(ui.closed, log) ELSE Covers(ui, log, FALSE)
  /\ pc \in {"round", "stream", "waitspec", "collect", "record"} => Covers(ui, log, FALSE)
  /\ pc \in {"sealing", "steer"} => Covers(ui, log, TRUE)
  /\ (pc \in {"stream", "sealing", "waitspec", "collect", "record"} /\ rnd.calls # {}) => Rendered(ui, log)

\* The inductive invariant behind UndisturbedShowLog.
ShownInv == Causes /\ Carry(log) /\ (Calm => CalmRound /\ CalmUnits)

-----------------------------------------------------------------------------
(* Appends that do not fail *)

\* An append either fails, and a fault is spent, or appends its entry and spends nothing.
LEMMA AppendCalm ==
  ASSUME NEW l, NEW b, NEW e, NEW w \in TryAppend(l, b, e)
  PROVE  /\ b.struck \subseteq w.budget.struck
         /\ \/ "fault" \in w.budget.struck /\ ~w.ok
            \/ w.ok /\ w.wrote /\ w.log = Append(l, e) /\ w.budget = b
<1>1. CASE w = [log |-> Append(l, e), budget |-> b, ok |-> TRUE, wrote |-> TRUE]
  BY <1>1
<1>2. CASE w = [log |-> l, budget |-> Strike("fault", b), ok |-> FALSE, wrote |-> FALSE]
  BY <1>2 DEF Strike
<1> QED BY <1>1, <1>2 DEF TryAppend

\* So does the repair of a dangling tail.
LEMMA RepairCalm ==
  ASSUME NEW l, NEW b, NEW r \in RepairInterruptedTail(l, b)
  PROVE  /\ b.struck \subseteq r.budget.struck
         /\ \/ "fault" \in r.budget.struck /\ ~r.ok
            \/ r.ok /\ r.budget = b /\ r.log = IF DanglingTail(l) THEN Append(l, RepairEntry(l)) ELSE l
<1>1. CASE DanglingTail(l)
  BY <1>1, AppendCalm DEF RepairInterruptedTail
<1>2. CASE ~DanglingTail(l)
  BY <1>2 DEF RepairInterruptedTail, Kept
<1> QED BY <1>1, <1>2

\* So does the commit of the provider cache behind an append.
LEMMA CacheCalm ==
  ASSUME NEW w, NEW k \in (IF w.ok THEN CommitCache(w.budget) ELSE {[ok |-> FALSE, budget |-> w.budget]}),
         ~w.ok => "fault" \in w.budget.struck
  PROVE  /\ w.budget.struck \subseteq k.budget.struck
         /\ \/ "fault" \in k.budget.struck /\ k.ok = FALSE
            \/ k.ok = TRUE /\ w.ok /\ k.budget = w.budget
<1>1. CASE w.ok /\ k = [ok |-> TRUE, budget |-> w.budget]
  BY <1>1
<1>2. CASE ~w.ok /\ k = [ok |-> FALSE, budget |-> w.budget]
  BY <1>2
<1>3. CASE k = [ok |-> FALSE, budget |-> Strike("fault", w.budget)]
  BY <1>3 DEF Strike
<1> QED BY <1>1, <1>2, <1>3 DEF CommitCache

\* sealTurn without a failure: nothing, the results of the committed message,
\* or the partial message and its results.
LEMMA SealCalm ==
  ASSUME TypeOK, NEW l \in Seq(Entry), NEW b \in Limits, NEW s \in SealTurn(l, b)
  PROVE  /\ b.struck \subseteq s.budget.struck
         /\ \/ "fault" \in s.budget.struck
            \/ /\ s.ok /\ ~s.wrote /\ s.log = l /\ s.budget = b
               /\ turn.on /\ ~turn.committed => TurnEmpty
            \/ /\ s.ok /\ s.wrote /\ s.budget = b
               /\ turn.on /\ turn.committed /\ turn.tools # {}
               /\ s.log = Append(l, SealedResults)
            \/ /\ s.ok /\ s.wrote /\ s.budget = b
               /\ turn.on /\ ~turn.committed /\ turn.tools = {}
               /\ s.log = Append(l, AssistantEntry(turn.text, turn.tools))
            \/ /\ s.ok /\ s.wrote /\ s.budget = b
               /\ turn.on /\ ~turn.committed /\ turn.tools # {}
               /\ s.log = Append(Append(l, AssistantEntry(turn.text, turn.tools)), SealedResults)
<1>1. CASE ~turn.on \/ (turn.committed /\ turn.tools = {}) \/ TurnEmpty
  <2>1. s = Kept(l, b)
    BY <1>1 DEF SealTurn, TurnEmpty
  <2>2. s.ok /\ ~s.wrote /\ s.log = l /\ s.budget = b
    BY <2>1 DEF Kept
  <2> QED BY <1>1, <2>2
<1>2. CASE turn.on /\ turn.committed /\ turn.tools # {}
  <2>1. s \in TryAppend(l, b, SealedResults)
    BY <1>2 DEF SealTurn
  <2> QED BY <1>2, <2>1, AppendCalm
<1>3. CASE turn.on /\ ~turn.committed /\ ~TurnEmpty
  <2>1. PICK a \in TryAppend(l, b, AssistantEntry(turn.text, turn.tools)) :
          s \in IF a.ok /\ turn.tools # {}
                THEN {[r EXCEPT !.wrote = TRUE] : r \in TryAppend(a.log, a.budget, SealedResults)}
                ELSE {a}
    BY <1>3 DEF SealTurn, TurnEmpty
  <2>2. /\ b.struck \subseteq a.budget.struck
        /\ \/ "fault" \in a.budget.struck /\ ~a.ok
           \/ /\ a.ok /\ a.wrote /\ a.budget = b
              /\ a.log = Append(l, AssistantEntry(turn.text, turn.tools))
    BY AppendCalm
  <2>3. CASE ~(a.ok /\ turn.tools # {})
    <3>1. s = a
      BY <2>1, <2>3
    <3> QED BY <1>3, <2>2, <2>3, <3>1
  <2>4. CASE a.ok /\ turn.tools # {}
    <3>1. PICK r \in TryAppend(a.log, a.budget, SealedResults) : s = [r EXCEPT !.wrote = TRUE]
      BY <2>1, <2>4
    <3>2. a \in Outcome
      BY SealedType, TryAppendType
    <3>3. a.log \in Seq(Entry) /\ a.budget \in Limits
      BY <3>2 DEF Outcome
    <3>4. r \in Outcome
      BY <3>3, SealedType, TryAppendType
    <3>5. s.log = r.log /\ s.budget = r.budget /\ s.ok = r.ok /\ s.wrote = TRUE
      BY <3>1, <3>4 DEF Outcome
    <3>6. /\ a.budget.struck \subseteq r.budget.struck
          /\ \/ "fault" \in r.budget.struck /\ ~r.ok
             \/ r.ok /\ r.wrote /\ r.log = Append(a.log, SealedResults) /\ r.budget = a.budget
      BY AppendCalm
    <3> QED BY <1>3, <2>2, <2>4, <3>5, <3>6
  <2> QED BY <2>3, <2>4
<1> QED BY <1>1, <1>2, <1>3

-----------------------------------------------------------------------------
(* Shown, appended to and committed *)

\* A message that has not to be shown leaves everything shown.
LEMMA ShownAppend ==
  ASSUME NEW us, NEW l \in Seq(Entry), NEW e \in Entry, NEW m, m = Append(l, e), AllShown(us, l),
         Visible(m, Len(m)) => \E u \in us : ShowsIn(u, m, Len(m))
  PROVE  AllShown(us, m)
<1>1. Len(m) = Len(l) + 1 /\ DOMAIN m = 1..(Len(l) + 1) /\ Len(l) \in Nat /\ \A i \in 1..Len(l) : m[i] = l[i]
  BY AppendProperties
<1>2. \A i \in DOMAIN m : i = Len(m) \/ (i \in DOMAIN l /\ m[i] = l[i])
  BY <1>1
<1> QED BY <1>2 DEF AllShown, Visible, ShowsIn

\* A message behind the open unit, not a text prompt, is reached by it.
LEMMA ReachedAppend ==
  ASSUME NEW us, NEW l \in Seq(Entry), NEW e \in Entry, NEW m, m = Append(l, e),
         NEW from \in Nat, from <= Len(l), AllReached(us, l, from), ~IsTextPrompt(e)
  PROVE  AllReached(us, m, from)
<1>1. Len(m) = Len(l) + 1 /\ DOMAIN m = 1..(Len(l) + 1) /\ Len(l) \in Nat /\ m[Len(l) + 1] = e
      /\ \A i \in 1..Len(l) : m[i] = l[i]
  BY AppendProperties
<1>2. \A i \in DOMAIN m : (i = Len(l) + 1 /\ m[i] = e /\ from < i) \/ (i \in DOMAIN l /\ m[i] = l[i])
  BY <1>1
<1> QED BY <1>2 DEF AllReached, Visible, ShowsIn

\* What is shown is reached.
LEMMA ShownReached ==
  ASSUME NEW us, NEW o, NEW l, o.role = "assistant", AllShown(us \cup {o}, l)
  PROVE  AllReached(us, l, o.from)
  BY DEF AllShown, AllReached, ShowsIn

\* More units show no less.
LEMMA MoreShown ==
  ASSUME NEW us, NEW vs, NEW l, us \subseteq vs, AllShown(us, l) PROVE AllShown(vs, l)
  BY DEF AllShown

\* emitCommit of a unit that covers the log.
LEMMA CommitShown ==
  ASSUME NEW u \in UI, NEW l, Covers(u, l, FALSE) PROVE AllShown(CommitUnit(u).closed, l)
<1>1. PICK v : v = CommitUnit(u)
  OBVIOUS
<1>2. v.closed = u.closed \cup {u.open}
  BY <1>1 DEF Covers, CommitUnit, UI
<1> QED BY <1>1, <1>2 DEF Covers

\* emitDelta: what the unit reaches, it shows.
LEMMA DeltaCovers ==
  ASSUME NEW u \in UI, NEW l \in Seq(Entry), NEW p \in BOOLEAN, Covers(u, l, p)
  PROVE  /\ Covers(EmitDelta(u, l), l, FALSE)
         /\ EmitDelta(u, l) \in UI
         /\ Rendered(u, l) => Rendered(EmitDelta(u, l), l)
<1>1. PICK v : v = EmitDelta(u, l)
  OBVIOUS
<1>2. u.open \in Unit /\ v = [u EXCEPT !.open = [u.open EXCEPT !.seen = Len(l)]] /\ v \in UI
  BY <1>1, UiType DEF EmitDelta, UI, Covers
<1>3. v.closed = u.closed /\ v.open = [u.open EXCEPT !.seen = Len(l)]
  BY <1>2 DEF UI
<1>4. v.open.role = "assistant" /\ v.open.from = u.open.from /\ v.open.seen = Len(l) /\ v.open.lt = u.open.lt
      /\ u.open.role = "assistant"
  BY <1>2, <1>3 DEF Unit, Covers
<1>5. AllReached(u.closed, l, u.open.from)
  BY <1>4, ShownReached DEF Covers
<1>6. DOMAIN l = 1..Len(l)
  OBVIOUS
<1>7. AllShown(v.closed \cup {v.open}, l)
  <2> SUFFICES ASSUME NEW i \in DOMAIN l, Visible(l, i) PROVE \E x \in v.closed \cup {v.open} : ShowsIn(x, l, i)
    BY DEF AllShown
  <2>1. CASE \E x \in u.closed : ShowsIn(x, l, i)
    BY <1>3, <2>1
  <2>2. CASE u.open.from < i /\ ~IsTextPrompt(l[i])
    BY <1>4, <1>6, <2>2 DEF ShowsIn
  <2> QED BY <1>5, <2>1, <2>2 DEF AllReached
<1>8. Covers(v, l, FALSE)
  BY <1>4, <1>7 DEF Covers, HasOpen
<1>9. Rendered(u, l) => Rendered(v, l)
  BY <1>4 DEF Rendered
<1> QED BY <1>1, <1>2, <1>8, <1>9

\* The turn goes on: a message of the agent's own is appended.  Results follow a
\* message of the unit.
LEMMA CoversAppend ==
  ASSUME NEW u \in UI, NEW l \in Seq(Entry), NEW e \in Entry, NEW m, m = Append(l, e),
         NEW p \in BOOLEAN, Covers(u, l, p), ~IsTextPrompt(e), e.kind = "results" => Rendered(u, l)
  PROVE  /\ Covers(u, m, TRUE)
         /\ (~p /\ ~Renders(e) /\ e.kind # "results") => Covers(u, m, FALSE)
         /\ Rendered(u, l) \/ Renders(e) => Rendered(u, m)
<1>1. Len(m) = Len(l) + 1 /\ DOMAIN m = 1..(Len(l) + 1) /\ Len(l) \in Nat /\ m[Len(l) + 1] = e
      /\ \A i \in 1..Len(l) : m[i] = l[i]
  BY AppendProperties
<1>2. u.open.from \in Nat /\ DOMAIN l = 1..Len(l)
  BY DEF UI, Unit
<1>3. u.open.role = "assistant" /\ u.open.from <= Len(l) /\ u.open.from <= Len(m) /\ HasOpen(u)
  BY <1>1, <1>2 DEF Covers
<1>4. AllReached(u.closed, l, u.open.from)
  BY <1>3, ShownReached DEF Covers
<1>5. AllReached(u.closed, m, u.open.from)
  BY <1>2, <1>3, <1>4, ReachedAppend
<1>6. \A i \in DOMAIN m : (u.open.from < i /\ m[i].kind = "results") =>
        \E j \in DOMAIN m : u.open.from < j /\ j < i /\ Renders(m[j])
  <2> SUFFICES ASSUME NEW i \in DOMAIN m, u.open.from < i, m[i].kind = "results"
               PROVE  \E j \in DOMAIN m : u.open.from < j /\ j < i /\ Renders(m[j])
    OBVIOUS
  <2>1. CASE i \in DOMAIN l
    <3>1. m[i] = l[i]
      BY <1>1, <1>2, <2>1
    <3>2. PICK j \in DOMAIN l : u.open.from < j /\ j < i /\ Renders(l[j])
      BY <2>1, <3>1 DEF Covers
    <3>3. j \in DOMAIN m /\ m[j] = l[j]
      BY <1>1, <1>2
    <3> QED BY <3>2, <3>3
  <2>2. CASE i = Len(l) + 1
    <3>1. PICK j \in DOMAIN l : u.open.from < j /\ Renders(l[j])
      BY <1>1, <2>2 DEF Rendered
    <3>2. j \in DOMAIN m /\ m[j] = l[j] /\ j < i
      BY <1>1, <1>2, <2>2
    <3> QED BY <3>1, <3>2
  <2> QED BY <1>1, <1>2, <2>1, <2>2
<1>7. Covers(u, m, TRUE)
  BY <1>3, <1>5, <1>6 DEF Covers
<1>8. ASSUME ~p, ~Renders(e), e.kind # "results" PROVE Covers(u, m, FALSE)
  <2>1. AllShown(u.closed \cup {u.open}, l)
    BY <1>8 DEF Covers
  <2>2. ~Visible(m, Len(m))
    BY <1>1, <1>8 DEF Visible
  <2>3. AllShown(u.closed \cup {u.open}, m)
    BY <2>1, <2>2, ShownAppend
  <2> QED BY <1>3, <1>6, <2>3 DEF Covers
<1>9. Rendered(u, l) => Rendered(u, m)
  BY <1>1, <1>2 DEF Rendered
<1>10. Renders(e) => Rendered(u, m)
  <2>1. Len(l) + 1 \in DOMAIN m /\ u.open.from < Len(l) + 1
    BY <1>1, <1>2, <1>3
  <2> QED BY <1>1, <2>1 DEF Rendered
<1> QED BY <1>7, <1>8, <1>9, <1>10

\* emitSnapshot of the assistant's unit behind a log that is shown.
LEMMA OpenCovers ==
  ASSUME NEW u \in UI, NEW l \in Seq(Entry), AllShown(u.closed, l)
  PROVE  /\ Covers(OpenUnit(u, "assistant", l), l, FALSE)
         /\ OpenUnit(u, "assistant", l) \in UI
<1>1. PICK v : v = OpenUnit(u, "assistant", l)
  OBVIOUS
<1>2. v \in UI /\ v.closed = u.closed
      /\ v.open = [lt |-> u.lt + 1, role |-> "assistant", from |-> Len(l), seen |-> Len(l)]
  BY <1>1, UiType DEF OpenUnit
<1>3. v.open.lt = u.lt + 1 /\ v.open.role = "assistant" /\ v.open.from = Len(l) /\ u.lt \in Nat /\ Len(l) \in Nat
  BY <1>2 DEF UI
<1>4. HasOpen(v)
  BY <1>3 DEF HasOpen
<1>5. AllShown(v.closed \cup {v.open}, l)
  BY <1>2, MoreShown
<1>6. \A i \in DOMAIN l : ~(v.open.from < i)
  BY <1>3
<1>7. Covers(v, l, FALSE)
  BY <1>3, <1>4, <1>5, <1>6 DEF Covers
<1> QED BY <1>1, <1>2, <1>7

\* appendUserPrompt shows the prompt it appended, if there is anything to show.
LEMMA UserShown ==
  ASSUME NEW u \in UI, NEW p \in Prompts, NEW l \in Seq(Entry), NEW m, m = Append(l, PromptEntry(p)),
         AllShown(u.closed, l)
  PROVE  AllShown(UserUnit(u, p, m).closed, m) /\ UserUnit(u, p, m) \in UI
<1>1. PICK e : e = PromptEntry(p)
  OBVIOUS
<1>2. e \in Entry /\ e.kind = "prompt" /\ (e.text <=> p \notin Silent)
  BY <1>1, EntryType DEF PromptEntry
<1>3. m \in Seq(Entry) /\ Len(m) = Len(l) + 1 /\ Len(l) \in Nat /\ m[Len(m)] = e
  BY <1>1, <1>2, AppendProperties
<1>4. UserUnit(u, p, m) \in UI
  BY <1>3, UserUnitType
<1>5. CASE p \in Silent
  <2>1. ~Visible(m, Len(m))
    BY <1>2, <1>3, <1>5 DEF Visible, IsTextPrompt, Renders
  <2>2. UserUnit(u, p, m) = u
    BY <1>5 DEF UserUnit
  <2> QED BY <1>1, <1>2, <1>4, <2>1, <2>2, ShownAppend
<1>6. CASE p \notin Silent
  <2>1. PICK k : k = SubSeq(m, 1, Len(m) - 1)
    OBVIOUS
  <2>2. k \in Seq(Entry) /\ Len(k) = Len(l)
    BY <1>3, <2>1
  <2>3. PICK o : o = OpenUnit(u, "user", k)
    OBVIOUS
  <2>4. o \in UI /\ o.closed = u.closed
        /\ o.open = [lt |-> u.lt + 1, role |-> "user", from |-> Len(k), seen |-> Len(k)]
    BY <2>2, <2>3, UiType DEF OpenUnit
  <2>5. o.open.lt = u.lt + 1 /\ o.open.role = "user" /\ o.open.from = Len(l) /\ u.lt \in Nat /\ o.open \in Unit
    BY <2>2, <2>4 DEF UI
  <2>6. HasOpen(o)
    BY <2>5 DEF HasOpen
  <2>7. PICK d : d = EmitDelta(o, m)
    OBVIOUS
  <2>8. d \in UI /\ d = [o EXCEPT !.open = [o.open EXCEPT !.seen = Len(m)]]
    BY <1>3, <2>4, <2>6, <2>7, UiType DEF EmitDelta
  <2>9. d.closed = u.closed /\ d.open = [o.open EXCEPT !.seen = Len(m)]
    BY <2>4, <2>8 DEF UI
  <2>10. d.open.lt = u.lt + 1 /\ d.open.role = "user" /\ d.open.from = Len(l) /\ d.open.seen = Len(m)
    BY <2>5, <2>9 DEF Unit
  <2>11. HasOpen(d)
    BY <2>5, <2>10 DEF HasOpen
  <2>12. PICK v : v = CommitUnit(d)
    OBVIOUS
  <2>13. v.closed = u.closed \cup {d.open}
    BY <2>8, <2>9, <2>11, <2>12 DEF CommitUnit, UI
  <2>14. UserUnit(u, p, m) = v
    BY <1>6, <2>1, <2>3, <2>7, <2>12 DEF UserUnit
  <2>15. ShowsIn(d.open, m, Len(m))
    BY <1>2, <1>3, <1>6, <2>10 DEF ShowsIn, IsTextPrompt
  <2>16. AllShown(v.closed, l)
    BY <2>13, MoreShown
  <2>17. AllShown(v.closed, m)
    BY <1>1, <1>2, <2>13, <2>15, <2>16, ShownAppend
  <2> QED BY <1>4, <2>14, <2>17
<1> QED BY <1>5, <1>6

-----------------------------------------------------------------------------
(* The units rebuilt from a log show all of it *)

\* Results follow the message whose calls they answer.
Led(l) == \A i \in DOMAIN l : (l[i].kind = "results" /\ i > 1) => Renders(l[i - 1])

\* In a paired log every result but a first one follows a message that renders.
LEMMA PairedLed ==
  ASSUME NEW l \in Seq(Entry), WellPaired(l), Carry(l)
  PROVE  Led(l)
<1> SUFFICES ASSUME NEW i \in DOMAIN l, l[i].kind = "results", i > 1 PROVE Renders(l[i - 1])
  BY DEF Led
<1>1. i \in 1..Len(l)
  OBVIOUS
<1>2. l[i - 1].kind = "assistant" /\ Answers(l[i], l[i - 1])
  BY <1>1 DEF WellPaired
<1>3. l[i].calls # {} /\ l[i].calls \subseteq l[i - 1].calls
  BY <1>2 DEF Answers, Carry
<1> QED BY <1>2, <1>3 DEF Renders

\* The group that starts at j reaches everything up to the next text prompt.
LEMMA GroupReaches ==
  ASSUME NEW l \in Seq(Entry), NEW j \in 1..Len(l), NEW i \in j..Len(l), ~IsTextPrompt(l[j]),
         \A k \in (j + 1)..i : ~IsTextPrompt(l[k])
  PROVE  i <= GroupEnd(l, j)
<1>1. Len(l) \in Nat /\ i \in Nat /\ j \in Nat /\ j <= i /\ i <= Len(l)
  OBVIOUS
<1> DEFINE S == {x \in (j + 1)..Len(l) : \A k \in (j + 1)..x : ~IsTextPrompt(l[k])}
<1>2. GroupEnd(l, j) = j + Cardinality(S)
  BY DEF GroupEnd
<1>3. (j + 1)..i \subseteq S
  BY <1>1
<1>4. S \subseteq (j + 1)..Len(l)
  OBVIOUS
<1> HIDE DEF S
<1>5. IsFiniteSet(S) /\ Cardinality(S) \in Nat
  <2>1. IsFiniteSet((j + 1)..Len(l))
    BY <1>1, FS_Interval
  <2> QED BY <1>4, <2>1, FS_Subset, FS_CardinalityType
<1>6. Cardinality((j + 1)..i) <= Cardinality(S) /\ Cardinality((j + 1)..i) \in Nat
  BY <1>3, <1>5, FS_Subset, FS_CardinalityType
<1>7. Cardinality((j + 1)..i) = i - j
  <2>1. j + 1 \in Int /\ i \in Int
    BY <1>1
  <2>2. Cardinality((j + 1)..i) = IF j + 1 > i THEN 0 ELSE i - (j + 1) + 1
    BY <2>1, FS_Interval
  <2> QED BY <1>1, <2>2
<1> QED BY <1>1, <1>2, <1>5, <1>6, <1>7

\* A set of naturals has a least element.
LEMMA LeastOf ==
  ASSUME NEW S, S \subseteq Nat, S # {} PROVE \E i \in S : \A j \in S : i <= j
<1>1. IsWellFoundedOn(OpToRel(<, Nat), Nat)
  BY NatLessThanWellFounded
<1>2. PICK i \in S : \A j \in S : ~ (<<j, i>> \in OpToRel(<, Nat))
  BY <1>1, WFMin
<1>3. \A j \in S : ~ (j < i)
  BY <1>2 DEF OpToRel
<1> QED BY <1>3

\* A message at or behind a rendered one, with no text prompt in between, is
\* in the group of the first such.
LEMMA GroupShown ==
  ASSUME NEW l \in Seq(Entry), NEW i \in 1..Len(l), NEW j0 \in 1..i, Renders(l[j0]),
         \A k \in (j0 + 1)..i : ~IsTextPrompt(l[k]), ~IsTextPrompt(l[i])
  PROVE  \E u \in Units(l) : ShowsIn(u, l, i)
<1>1. Len(l) \in Nat /\ i \in Nat /\ i <= Len(l)
  OBVIOUS
<1> DEFINE S == {j \in 1..i : Renders(l[j]) /\ \A k \in (j + 1)..i : ~IsTextPrompt(l[k])}
<1>2. S \subseteq Nat /\ j0 \in S
  OBVIOUS
<1>3. PICK j \in S : \A x \in S : j <= x
  BY <1>2, LeastOf
<1>4. j \in 1..i /\ Renders(l[j]) /\ \A k \in (j + 1)..i : ~IsTextPrompt(l[k])
  OBVIOUS
<1>5. ~IsTextPrompt(l[j])
  BY <1>4 DEF Renders, IsTextPrompt
<1>6. ASSUME NEW x \in 1..(j - 1), Renders(l[x]) PROVE \E k \in (x + 1)..(j - 1) : IsTextPrompt(l[k])
  <2>1. x \in 1..i /\ x < j
    BY <1>1, <1>4
  <2>2. x \notin S
    BY <1>1, <1>3, <1>4, <2>1
  <2>3. PICK k \in (x + 1)..i : IsTextPrompt(l[k])
    BY <1>6, <2>1, <2>2
  <2>4. k \notin (j + 1)..i /\ k # j
    BY <1>4, <1>5, <2>3
  <2>5. k \in (x + 1)..(j - 1)
    BY <1>1, <1>4, <2>1, <2>3, <2>4
  <2> QED BY <2>3, <2>5
<1>7. j \in Heads(l)
  BY <1>1, <1>4, <1>6 DEF Heads
<1>8. PICK u : u = [lt   |-> Cardinality({x \in Heads(l) : x <= j}),
                    role |-> IF IsTextPrompt(l[j]) THEN "user" ELSE "assistant",
                    from |-> j - 1, seen |-> GroupEnd(l, j)]
  OBVIOUS
<1>9. u \in Units(l)
  BY <1>7, <1>8 DEF Units
<1>10. u.role = "assistant" /\ u.from = j - 1 /\ u.seen = GroupEnd(l, j)
  BY <1>5, <1>8
<1>11. i <= GroupEnd(l, j)
  <2>1. j \in 1..Len(l) /\ i \in j..Len(l)
    BY <1>1, <1>4
  <2> QED BY <1>4, <1>5, <2>1, GroupReaches
<1>12. u.from < i
  BY <1>1, <1>4, <1>10
<1> QED BY <1>9, <1>10, <1>11, <1>12 DEF ShowsIn

\* The units rebuilt from a log show all of it.
LEMMA RebuiltShown ==
  ASSUME NEW l \in Seq(Entry), Led(l) PROVE AllShown(Units(l), l)
<1> SUFFICES ASSUME NEW i \in DOMAIN l, Visible(l, i) PROVE \E u \in Units(l) : ShowsIn(u, l, i)
  BY DEF AllShown
<1>1. i \in 1..Len(l) /\ Len(l) \in Nat /\ i \in Nat
  OBVIOUS
<1>2. CASE IsTextPrompt(l[i])
  <2>1. i \in Heads(l)
    BY <1>2 DEF Heads
  <2>2. PICK u : u = [lt   |-> Cardinality({x \in Heads(l) : x <= i}),
                      role |-> IF IsTextPrompt(l[i]) THEN "user" ELSE "assistant",
                      from |-> i - 1, seen |-> GroupEnd(l, i)]
    OBVIOUS
  <2>3. u \in Units(l)
    BY <2>1, <2>2 DEF Units
  <2>4. u.role = "user" /\ u.from = i - 1 /\ u.seen = i
    BY <1>2, <2>2 DEF GroupEnd
  <2> QED BY <1>1, <1>2, <2>3, <2>4 DEF ShowsIn
<1>3. CASE Renders(l[i])
  <2>1. ~IsTextPrompt(l[i])
    BY <1>3 DEF Renders, IsTextPrompt
  <2>2. i \in 1..i /\ (i + 1)..i = {}
    BY <1>1
  <2> QED BY <1>1, <1>3, <2>1, <2>2, GroupShown
<1>4. CASE l[i].kind = "results" /\ i > 1
  <2>1. Renders(l[i - 1]) /\ ~IsTextPrompt(l[i])
    BY <1>4 DEF Led, IsTextPrompt
  <2>2. i - 1 \in 1..i /\ \A k \in ((i - 1) + 1)..i : k = i
    BY <1>1, <1>4
  <2> QED BY <1>1, <2>1, <2>2, GroupShown
<1> QED BY <1>2, <1>3, <1>4 DEF Visible

-----------------------------------------------------------------------------
(* Why a round fails *)

\* The results messages of the log carry results: after an append,
LEMMA CarryAppend ==
  ASSUME NEW l \in Seq(Entry), NEW e \in Entry, Carry(l), e.kind = "results" => e.calls # {}
  PROVE  Carry(Append(l, e))
<1>1. PICK m : m = Append(l, e)
  OBVIOUS
<1>2. Len(m) = Len(l) + 1 /\ DOMAIN m = 1..(Len(l) + 1) /\ Len(l) \in Nat /\ m[Len(l) + 1] = e
      /\ DOMAIN l = 1..Len(l) /\ \A i \in 1..Len(l) : m[i] = l[i]
  BY <1>1, AppendProperties
<1>3. \A i \in DOMAIN m : (i \in DOMAIN l /\ m[i] = l[i]) \/ m[i] = e
  BY <1>2
<1>4. Carry(m)
  BY <1>3 DEF Carry
<1> QED BY <1>1, <1>4

\* after one that may fail,
LEMMA CarryTry ==
  ASSUME NEW l \in Seq(Entry), NEW b, NEW e \in Entry, NEW w \in TryAppend(l, b, e),
         Carry(l), e.kind = "results" => e.calls # {}
  PROVE  Carry(w.log)
<1>1. w.log = Append(l, e) \/ w.log = l
  BY DEF TryAppend
<1> QED BY <1>1, CarryAppend

\* after a repair,
LEMMA CarryRepair ==
  ASSUME NEW l \in Seq(Entry), NEW b \in Limits, NEW r \in RepairInterruptedTail(l, b), Carry(l)
  PROVE  Carry(r.log) /\ r.log \in Seq(Entry) /\ r.budget \in Limits
<1>1. r.log \in Seq(Entry) /\ r.budget \in Limits
  BY RepairGrown
<1>2. CASE DanglingTail(l)
  <2>1. l[Len(l)] \in Entry /\ l[Len(l)].calls # {}
    BY <1>2, ElementOfSeq, EmptySeq DEF DanglingTail
  <2>2. [c \in Calls |-> "repaired"] \in [Calls -> Outcomes] /\ l[Len(l)].calls \in SUBSET Calls
    BY <2>1 DEF Outcomes, Entry
  <2>3. RepairEntry(l) \in Entry /\ RepairEntry(l).calls # {}
    BY <2>1, <2>2, EntryType DEF RepairEntry, ResultEntry
  <2> QED BY <1>1, <1>2, <2>3, CarryTry DEF RepairInterruptedTail
<1>3. CASE ~DanglingTail(l)
  BY <1>1, <1>3 DEF RepairInterruptedTail, Kept
<1> QED BY <1>2, <1>3

\* and after sealTurn.
LEMMA CarrySeal ==
  ASSUME TypeOK, NEW l \in Seq(Entry), NEW b \in Limits, NEW s \in SealTurn(l, b), Carry(l)
  PROVE  Carry(s.log) /\ s.log \in Seq(Entry) /\ s.budget \in Limits /\ b.struck \subseteq s.budget.struck
<1>0. s \in Outcome
  BY SealTurnType
<1>1. s.log \in Seq(Entry) /\ s.budget \in Limits /\ b.struck \subseteq s.budget.struck
  BY <1>0, SealStruck DEF Outcome
<1>2. PICK e : e = AssistantEntry(turn.text, turn.tools)
  OBVIOUS
<1>3. e \in Entry /\ e.kind = "assistant" /\ SealedResults \in Entry /\ SealedResults.calls = turn.tools
  BY <1>2, SealedType DEF AssistantEntry, SealedResults, ResultEntry
<1>4. CASE s = Kept(l, b)
  BY <1>1, <1>4 DEF Kept
<1>5. CASE turn.tools # {} /\ s \in TryAppend(l, b, SealedResults)
  BY <1>1, <1>3, <1>5, CarryTry
<1>6. ASSUME NEW a \in TryAppend(l, b, e),
             s \in IF a.ok /\ turn.tools # {}
                   THEN {[r EXCEPT !.wrote = TRUE] : r \in TryAppend(a.log, a.budget, SealedResults)}
                   ELSE {a}
      PROVE  Carry(s.log)
  <2>1. Carry(a.log) /\ a \in Outcome
    BY <1>3, CarryTry, TryAppendType
  <2>2. CASE s = a
    BY <2>1, <2>2
  <2>3. CASE turn.tools # {} /\ \E r \in TryAppend(a.log, a.budget, SealedResults) : s = [r EXCEPT !.wrote = TRUE]
    <3>1. PICK r \in TryAppend(a.log, a.budget, SealedResults) : s = [r EXCEPT !.wrote = TRUE]
      BY <2>3
    <3>2. a.log \in Seq(Entry) /\ a.budget \in Limits
      BY <2>1 DEF Outcome
    <3>3. r \in Outcome
      BY <1>3, <3>2, TryAppendType
    <3>4. s.log = r.log
      BY <3>1, <3>3 DEF Outcome
    <3> QED BY <1>3, <2>1, <2>3, <3>2, <3>4, CarryTry
  <2> QED BY <1>6, <2>2, <2>3
<1> QED BY <1>1, <1>2, <1>4, <1>5, <1>6 DEF SealTurn

\* Every step keeps the causes of a failed round, and forgets no strike.
LEMMA CausesNext ==
  ASSUME TypeOK, Causes, Carry(log), [Next]_vars
  PROVE  Causes' /\ Carry(log') /\ budget.struck \subseteq budget'.struck
<1>a. log \in Seq(Entry) /\ budget \in Limits
  BY DEF TypeOK
<1>b. ASSUME budget.struck \subseteq budget'.struck, torn' = torn, rnd' \in {rnd, NoRound},
             interrupted' = interrupted, pc' \in {"collect", "record"} => rnd'.calls # {}, pc' = "boot" => Backed
      PROVE  Causes'
  BY <1>b DEF Causes, Struck, NoRound
<1>c. ASSUME NEW s \in SealTurn(log, budget), log' = s.log, budget' = s.budget,
             torn' = torn, rnd' = NoRound, interrupted' = interrupted, pc' = "recv"
      PROVE  Causes' /\ Carry(log') /\ budget.struck \subseteq budget'.struck
  BY <1>a, <1>b, <1>c, CarrySeal
<1>1. CASE UNCHANGED vars \/ CloseInbox \/ Quiescent \/ \E e \in Events : Send(e)
  BY <1>1 DEF Send, CloseInbox, Quiescent, vars, ctxs, told, Causes, Struck
<1>2. CASE Interrupt \/ Kill
  BY <1>2 DEF Interrupt, Kill, Spend, Strike, told, Causes, Struck
<1>3. CASE Provider \/ ToolRuns
  <2>1. UNCHANGED <<log, rnd, torn, interrupted, pc, budget>>
    BY <1>3 DEF Provider, PushDelta, PushToolReady, PushFigaro, ProviderReturn, ToolRuns, SpecDispatch, ToolEnd,
        ctxs, told
  <2> QED BY <2>1 DEF Causes, Struck
<1>4. CASE RecvPrompt \/ RecvFork \/ RecvClosed
  BY <1>4 DEF RecvPrompt, RecvFork, RecvClosed, ctxs, told, Causes, Struck
<1>5. CASE FirstRound \/ NextRound
  BY <1>5 DEF FirstRound, NextRound, StartProvider, NoRound, ctxs, told, Causes, Struck
<1>6. CASE ForkWhileStreaming \/ FoldStream \/ RefuseAssistant \/ AckAssistant \/ LeaveStream \/ ForkWhileWaiting
  BY <1>6 DEF ForkWhileStreaming, FoldStream, RefuseAssistant, AckAssistant, LeaveStream, ForkWhileWaiting,
      ctxs, told, Causes, Struck
<1>7. CASE BeginCollect \/ ForkWhileCollecting \/ EndCollect \/ \E c \in Calls : FoldTool(c)
  BY <1>7 DEF BeginCollect, ForkWhileCollecting, EndCollect, FoldTool, ctxs, told, Causes, Struck
<1>8. CASE SteerBeforeRound \/ SteerAfterTools
  BY <1>8 DEF SteerBeforeRound, SteerAfterTools, ctxs, told, Causes, Struck
<1>9. CASE StopPanicked \/ Panic
  BY <1>9 DEF StopPanicked, Panic, Spend, Strike, ctxs, told, Causes, Struck
<1>10. CASE RecvSet
  <2>1. CASE Backed
    BY <1>10, <2>1 DEF RecvSet, ctxs, told, Causes, Struck
  <2>2. CASE ~Backed
    <3>1. PICK e : e = PatchEntry(Head(queue))
      OBVIOUS
    <3>2. e \in Entry /\ e.kind = "patch" /\ log' = Append(log, e)
      BY <1>10, <2>2, <3>1, EntryType DEF RecvSet, PatchEntry
    <3>3. Carry(log')
      BY <1>a, <3>2, CarryAppend
    <3>4. Causes' /\ budget' = budget
      BY <1>10 DEF RecvSet, ctxs, told, Causes, Struck
    <3> QED BY <3>3, <3>4
  <2> QED BY <2>1, <2>2
<1>11. CASE BeginTurn
  <2>1. PICK r \in RepairInterruptedTail(log, budget) :
          \E w \in TryAppend(r.log, r.budget, PromptEntry(Head(cur))) : BeginWith(r, w)
    BY <1>11 DEF BeginTurn
  <2>2. PICK w \in TryAppend(r.log, r.budget, PromptEntry(Head(cur))) : BeginWith(r, w)
    BY <2>1
  <2>3. Head(cur) \in Prompts
    BY <1>11 DEF BeginTurn, TypeOK, HeldOK
  <2>4. PromptEntry(Head(cur)) \in Entry /\ PromptEntry(Head(cur)).kind = "prompt"
    BY <2>3, EntryType DEF PromptEntry
  <2>5. Carry(r.log) /\ r.log \in Seq(Entry)
    BY <1>a, CarryRepair
  <2>6. Carry(w.log)
    BY <2>4, <2>5, CarryTry
  <2>7. budget.struck \subseteq r.budget.struck /\ (~r.ok => "fault" \in r.budget.struck)
        /\ r.budget.struck \subseteq w.budget.struck
    BY RepairCalm, AppendCalm
  <2>8. log' = w.log /\ budget' = w.budget /\ torn' = (torn \/ (~r.ok /\ w.ok))
        /\ pc' \in {"round", "recv"} /\ rnd' \in {rnd, NoRound} /\ interrupted' = interrupted
    BY <2>2 DEF BeginWith, Finish, ForgetRound, ctxs
  <2>9. Causes'
    <3>1. torn' => "fault" \in budget'.struck
      <4>1. torn' => torn \/ ~r.ok
        BY <2>8
      <4>2. torn => "fault" \in budget.struck
        BY DEF Causes, Struck
      <4> QED BY <2>7, <2>8, <4>1, <4>2
    <3>2. (interrupted' => "interrupt" \in budget'.struck) /\ (rnd'.err => "fault" \in budget'.struck)
      BY <2>7, <2>8 DEF Causes, Struck, NoRound
    <3> QED BY <2>8, <3>1, <3>2 DEF Causes, Struck
  <2> QED BY <2>6, <2>7, <2>8, <2>9
<1>12. CASE AppendSteering
  <2>1. PICK w \in TryAppend(log, budget, PromptEntry(Head(cur))) : SteerWith(w)
    BY <1>12 DEF AppendSteering
  <2>2. Head(cur) \in Prompts
    BY <1>12 DEF AppendSteering, TypeOK, HeldOK
  <2>3. PromptEntry(Head(cur)) \in Entry /\ PromptEntry(Head(cur)).kind = "prompt"
    BY <2>2, EntryType DEF PromptEntry
  <2>4. Carry(w.log) /\ budget.struck \subseteq w.budget.struck
    BY <1>a, <2>3, CarryTry, AppendCalm
  <2>5. log' = w.log /\ budget' = w.budget /\ torn' = torn /\ rnd' \in {rnd, NoRound} /\ interrupted' = interrupted
        /\ pc' \notin {"collect", "record", "boot"}
    BY <1>12, <2>1 DEF AppendSteering, SteerWith, Finish, ForgetRound, ctxs
  <2> QED BY <1>b, <2>4, <2>5
<1>13. CASE SealAssistant
  <2>1. PICK e : e = AssistantEntry(Head(bus).text, Head(bus).calls)
    OBVIOUS
  <2>2. e \in Entry /\ e.kind = "assistant"
    <3>1. Head(bus) \in BusEvent
      BY <1>13 DEF TypeOK, ProviderOK, SealAssistant
    <3>2. Head(bus).text \in BOOLEAN /\ Head(bus).calls \in SUBSET Calls
      BY <3>1 DEF BusEvent
    <3> QED BY <2>1, <3>2, EntryType DEF AssistantEntry
  <2>9. PICK w \in TryAppend(log, budget, e) :
          \E k \in (IF w.ok THEN CommitCache(w.budget) ELSE {[ok |-> FALSE, budget |-> w.budget]}) :
            SealWith(Head(bus), w, k)
    BY <1>13, <2>1 DEF SealAssistant
  <2>3. PICK k \in (IF w.ok THEN CommitCache(w.budget) ELSE {[ok |-> FALSE, budget |-> w.budget]}) :
          SealWith(Head(bus), w, k)
    BY <2>9
  <2>4. Carry(w.log) /\ budget.struck \subseteq w.budget.struck /\ (~w.ok => "fault" \in w.budget.struck)
    BY <1>a, <2>2, CarryTry, AppendCalm
  <2>5. w.budget.struck \subseteq k.budget.struck /\ (~k.ok => "fault" \in k.budget.struck)
    BY <2>4, CacheCalm
  <2>6. log' = w.log /\ budget' = k.budget /\ rnd'.err = ~k.ok /\ torn' = torn /\ pc' = "sealing"
        /\ interrupted' = interrupted
    BY <1>13, <2>3 DEF SealAssistant, SealWith, told
  <2>7. Causes'
    BY <2>4, <2>5, <2>6 DEF Causes, Struck
  <2> QED BY <2>4, <2>5, <2>6, <2>7
<1>14. CASE StopInterrupted \/ StopSendError \/ EndRoundError \/ RecordInterrupted
  <2>1. PICK s \in SealTurn(log, budget) : log' = s.log /\ budget' = s.budget /\ rnd' = NoRound /\ pc' = "recv"
    BY <1>14 DEF StopInterrupted, StopSendError, EndRoundError, RecordInterrupted, Finish, ForgetRound
  <2>2. torn' = torn /\ interrupted' = interrupted
    BY <1>14 DEF StopInterrupted, StopSendError, EndRoundError, RecordInterrupted
  <2> QED BY <1>c, <2>1, <2>2
<1>15. CASE EndUnsealed
  <2>1. PICK w \in TryAppend(log, budget, AssistantEntry(FALSE, {})) :
          log' = w.log /\ budget' = w.budget /\ rnd' = NoRound /\ pc' = "recv"
    BY <1>15 DEF EndUnsealed, Finish, ForgetRound
  <2>2. AssistantEntry(FALSE, {}) \in Entry /\ AssistantEntry(FALSE, {}).kind = "assistant"
    <3>1. FALSE \in BOOLEAN /\ {} \in SUBSET Calls
      OBVIOUS
    <3> QED BY <3>1, EntryType DEF AssistantEntry
  <2>3. Carry(w.log) /\ budget.struck \subseteq w.budget.struck
    BY <1>a, <2>2, CarryTry, AppendCalm
  <2>4. torn' = torn /\ interrupted' = interrupted
    BY <1>15 DEF EndUnsealed
  <2> QED BY <1>b, <2>1, <2>3, <2>4
<1>16. CASE EndNoCalls \/ SteerInterrupted
  BY <1>b, <1>16 DEF EndNoCalls, SteerInterrupted, Finish, ForgetRound
<1>17. CASE RecordResults
  <2>1. PICK w \in TryAppend(log, budget, AssembledResults) :
          IF w.ok THEN log' = w.log /\ budget' = w.budget /\ pc' = "steer" /\ rnd' = rnd /\ interrupted' = interrupted
          ELSE \E s \in SealTurn(w.log, w.budget) :
                 log' = s.log /\ budget' = s.budget /\ rnd' = NoRound /\ interrupted' = interrupted /\ pc' = "recv"
    BY <1>17 DEF RecordResults, Finish, ForgetRound, ctxs
  <2>2. AssembledResults \in Entry /\ AssembledResults.calls # {}
    BY <1>17, AssembledType DEF AssembledResults, ResultEntry, RecordResults, Causes
  <2>3. Carry(w.log) /\ budget.struck \subseteq w.budget.struck /\ w \in Outcome
    BY <1>a, <2>2, CarryTry, AppendCalm, TryAppendType
  <2>4. torn' = torn
    BY <1>17 DEF RecordResults
  <2>5. CASE w.ok
    BY <1>b, <2>1, <2>3, <2>4, <2>5
  <2>6. CASE ~w.ok
    <3>1. w.log \in Seq(Entry) /\ w.budget \in Limits
      BY <2>3 DEF Outcome
    <3>2. PICK s \in SealTurn(w.log, w.budget) :
            log' = s.log /\ budget' = s.budget /\ rnd' = NoRound /\ interrupted' = interrupted /\ pc' = "recv"
      BY <2>1, <2>6
    <3>3. Carry(s.log) /\ w.budget.struck \subseteq s.budget.struck
      BY <2>3, <3>1, CarrySeal
    <3> QED BY <1>b, <2>3, <2>4, <3>2, <3>3
  <2> QED BY <2>5, <2>6
<1>18. CASE Recover
  <2>1. PICK b : b = IF Backed THEN log ELSE <<>>
    OBVIOUS
  <2>2. b \in Seq(Entry) /\ Carry(b)
    BY <1>a, <2>1, EmptySeq DEF Carry
  <2>8. PICK s \in SealTurn(b, budget) :
          \E r \in RepairInterruptedTail(s.log, s.budget) :
            log' = r.log /\ budget' = r.budget /\ rnd' = NoRound /\ pc' = "recv"
    BY <1>18, <2>1 DEF Recover, Finish, ForgetRound
  <2>3. PICK r \in RepairInterruptedTail(s.log, s.budget) :
          log' = r.log /\ budget' = r.budget /\ rnd' = NoRound /\ pc' = "recv"
    BY <2>8
  <2>4. Carry(s.log) /\ s.log \in Seq(Entry) /\ s.budget \in Limits /\ budget.struck \subseteq s.budget.struck
    BY <1>a, <2>2, CarrySeal
  <2>5. Carry(r.log) /\ s.budget.struck \subseteq r.budget.struck
    BY <2>4, CarryRepair, RepairCalm
  <2>6. torn' = torn /\ interrupted' = FALSE
    BY <1>18 DEF Recover
  <2>7. Causes'
    BY <2>3, <2>4, <2>5, <2>6 DEF Causes, Struck, NoRound
  <2> QED BY <2>3, <2>4, <2>5, <2>7
<1>19. CASE Crash \/ Restart
  <2>1. Carry(log')
    <3>1. CASE log' = log
      BY <3>1
    <3>2. ASSUME NEW k \in 0..Len(log), log' = SubSeq(log, 1, k) PROVE Carry(log')
      <4>1. \A i \in DOMAIN log' : i \in DOMAIN log /\ log'[i] = log[i]
        BY <1>a, <3>2
      <4> QED BY <4>1 DEF Carry
    <3> QED BY <1>19, <3>1, <3>2 DEF Crash, Restart
  <2>2. Forget
    BY <1>19 DEF Crash, Restart
  <2>3. Causes' /\ budget.struck \subseteq budget'.struck
    BY <2>2 DEF Forget, Spend, Strike, ForgetRound, NoRound, told, Causes, Struck
  <2> QED BY <2>1, <2>3
<1>20. CASE Boot
  <2>1. PICK r \in RepairInterruptedTail(log, budget) : log' = r.log /\ budget' = r.budget
    BY <1>20 DEF Boot
  <2>2. Carry(r.log) /\ budget.struck \subseteq r.budget.struck
    BY <1>a, CarryRepair, RepairCalm
  <2>3. torn' = torn /\ interrupted' = interrupted /\ rnd' = rnd /\ pc' = "recv"
    BY <1>20 DEF Boot, ctxs, told
  <2> QED BY <1>b, <2>1, <2>2, <2>3
<1> QED BY <1>1, <1>2, <1>3, <1>4, <1>5, <1>6, <1>7, <1>8, <1>9, <1>10, <1>11, <1>12, <1>13, <1>14, <1>15,
           <1>16, <1>17, <1>18, <1>19, <1>20
    DEF Next, Clients, Between, Rounds, Phase1, Phase2, Drain, Failures
-----------------------------------------------------------------------------
(* The steps of a calm turn *)

\* abandonLive of a unit that has nothing to show.
LEMMA AbandonShown ==
  ASSUME NEW u \in UI, NEW l \in Seq(Entry), Covers(u, l, FALSE), ComposeEmpty(u, l)
  PROVE  AllShown(AbandonUnit(u).closed, l)
<1>1. AbandonUnit(u).closed = u.closed
  BY DEF AbandonUnit, UI
<1>2. u.open.from \in Nat /\ Len(l) \in Nat /\ DOMAIN l = 1..Len(l)
  BY DEF UI, Unit
<1>3. \A j \in DOMAIN l : u.open.from < j => ~Renders(l[j])
  BY <1>2 DEF ComposeEmpty
<1>4. \A j \in DOMAIN l : u.open.from < j => l[j].kind # "results"
  BY <1>3 DEF Covers
<1>5. AllReached(u.closed, l, u.open.from)
  BY ShownReached DEF Covers
<1> QED BY <1>1, <1>3, <1>4, <1>5 DEF AllShown, AllReached, Visible

\* A tail that is no message with calls needs no repair.
LEMMA AppendTail ==
  ASSUME NEW l \in Seq(Entry), NEW e \in Entry, e.kind # "assistant" \/ e.calls = {}
  PROVE  ~DanglingTail(Append(l, e)) /\ Append(l, e) \in Seq(Entry)
<1>1. Append(l, e)[Len(Append(l, e))] = e /\ Append(l, e) \in Seq(Entry)
  BY AppendProperties
<1> QED BY <1>1 DEF DanglingTail

\* A repaired tail needs no repair.
LEMMA RepairTail ==
  ASSUME NEW l \in Seq(Entry), NEW r, r.log = IF DanglingTail(l) THEN Append(l, RepairEntry(l)) ELSE l
  PROVE  ~DanglingTail(r.log) /\ r.log \in Seq(Entry)
<1>1. CASE DanglingTail(l)
  <2>1. l[Len(l)] \in Entry
    BY <1>1, ElementOfSeq, EmptySeq DEF DanglingTail
  <2>2. [c \in Calls |-> "repaired"] \in [Calls -> Outcomes] /\ l[Len(l)].calls \in SUBSET Calls
    BY <2>1 DEF Outcomes, Entry
  <2>3. RepairEntry(l) \in Entry /\ RepairEntry(l).kind = "results"
    BY <2>2, EntryType DEF RepairEntry, ResultEntry
  <2> QED BY <1>1, <2>3, AppendTail
<1>2. CASE ~DanglingTail(l)
  BY <1>2
<1> QED BY <1>1, <1>2

\* The turn ends and everything is shown.
LEMMA FinishCalm ==
  ASSUME NEW u, Finish(u), AllShown(u.closed, log'), ~DanglingTail(log'), ~turn'.committed
  PROVE  CalmRound' /\ CalmUnits'
<1>1. /\ pc' = "recv" /\ ui' = u /\ rnd' = NoRound /\ prov' = "off" /\ bus' = <<>>
      /\ ack' = "none" /\ sendErr' = FALSE
  BY DEF Finish, ForgetRound
<1>2. rnd'.calls = {} /\ ~rnd'.sealed
  BY <1>1 DEF NoRound
<1>3. CalmRound'
  BY <1>1, <1>2 DEF CalmRound
<1>4. CalmUnits'
  BY <1>1 DEF CalmUnits
<1> QED BY <1>3, <1>4

\* The open unit is extended over what sealTurn wrote, and committed.
LEMMA SealedShown ==
  ASSUME NEW u \in UI, NEW l \in Seq(Entry), Covers(u, l, TRUE)
  PROVE  AllShown(CommitUnit(EmitDelta(u, l)).closed, l)
  BY DeltaCovers, CommitShown

\* A new process has nothing to show yet.
LEMMA ForgetCalm ==
  ASSUME Forget PROVE CalmRound' /\ CalmUnits'
<1>1. /\ pc' = "boot" /\ rnd' = NoRound /\ prov' = "off" /\ bus' = <<>>
      /\ ack' = "none" /\ sendErr' = FALSE /\ turn' = NoTurn
  BY DEF Forget, ForgetRound
<1>2. rnd'.calls = {} /\ ~rnd'.sealed /\ ~turn'.committed
  BY <1>1 DEF NoRound, NoTurn
<1>3. CalmRound'
  BY <1>1, <1>2 DEF CalmRound
<1>4. CalmUnits'
  BY <1>1 DEF CalmUnits
<1> QED BY <1>3, <1>4

\* Every step keeps a calm round and its units, one case per action.
LEMMA CalmNext ==
  ASSUME TypeOK, TurnInv, ShownInv, [Next]_vars, Calm'
  PROVE  CalmRound' /\ CalmUnits'
<1>a. log \in Seq(Entry) /\ budget \in Limits /\ ui \in UI /\ bus \in Seq(BusEvent) /\ Len(log) \in Nat
  BY DEF TypeOK, ProviderOK
<1>b. Causes' /\ Carry(log') /\ budget.struck \subseteq budget'.struck /\ TurnInv' /\ TypeOK'
  BY CausesNext, TurnNext, TypeNext DEF ShownInv
<1>c. "fault" \notin budget'.struck /\ "interrupt" \notin budget'.struck /\ ~killed'
  BY DEF Calm, Struck
<1>d. /\ ~interrupted /\ ~rnd.err /\ ~torn /\ ~Struck("fault")
      /\ pc \in {"collect", "record"} => rnd.calls # {}
      /\ ~killed => CalmRound /\ CalmUnits
  BY <1>b, <1>c DEF ShownInv, Causes, Calm, Struck
<1>e. ASSUME ~killed, UNCHANGED <<log, ui, pc, rnd, turn, cancelled, ack, sendErr, prov, bus, cur, split>>
      PROVE  CalmRound' /\ CalmUnits'
  <2>1. CalmRound /\ CalmUnits
    BY <1>d, <1>e
  <2>2. CalmRound'
    BY <1>e, <2>1 DEF CalmRound
  <2>3. CalmUnits'
    BY <1>e, <2>1 DEF CalmUnits
  <2> QED BY <2>2, <2>3
<1>1. CASE UNCHANGED vars \/ CloseInbox \/ Quiescent \/ \E e \in Events : Send(e)
  BY <1>1, <1>c, <1>e DEF Send, CloseInbox, Quiescent, vars, ctxs, held, provider, told
<1>2. CASE ToolRuns \/ \E c \in Calls : FoldTool(c)
  <2>1. UNCHANGED <<log, ui, pc, rnd, turn, cancelled, ack, sendErr, prov, bus, cur, split, killed>>
    <3>1. CASE ToolRuns
      BY <3>1 DEF ToolRuns, SpecDispatch, ToolEnd, ctxs, held, provider
    <3>2. CASE \E c \in Calls : FoldTool(c)
      BY <3>2 DEF FoldTool, ctxs, held, provider
    <3> QED BY <1>2, <3>1, <3>2
  <2> QED BY <2>1, <1>c, <1>e
<1>3. CASE ForkWhileStreaming \/ ForkWhileWaiting \/ ForkWhileCollecting \/ RecvFork
  BY <1>3, <1>c, <1>e DEF ForkWhileStreaming, ForkWhileWaiting, ForkWhileCollecting, RecvFork, ctxs, held, provider, told
<1>4. CASE Interrupt \/ Kill
  BY <1>4, <1>c DEF Interrupt, Kill, Spend, Strike
<1>5. CASE RefuseAssistant \/ StopInterrupted \/ RecordInterrupted \/ SteerInterrupted \/ EndRoundError
  BY <1>5, <1>d DEF RefuseAssistant, StopInterrupted, RecordInterrupted, SteerInterrupted, EndRoundError
<1>6. CASE StopPanicked
  BY <1>6, <1>c DEF StopPanicked, ctxs
<1>7. CASE Crash \/ Restart
  BY <1>7, ForgetCalm DEF Crash, Restart
<1>8. CASE RecvPrompt \/ RecvClosed
  <2>1. ~killed /\ CalmRound /\ CalmUnits
    BY <1>8, <1>c, <1>d DEF RecvPrompt, RecvClosed, ctxs
  <2>2. pc = "recv" /\ pc' \in {"begin", "stopped"} /\ UNCHANGED <<log, ui, rnd, turn, ack, sendErr, prov, bus>>
        /\ (pc' = "begin" => ~cancelled')
    BY <1>8, <2>1 DEF RecvPrompt, RecvClosed, provider
  <2>3. CalmRound'
    BY <2>1, <2>2 DEF CalmRound
  <2>4. CalmUnits'
    BY <2>1, <2>2 DEF CalmUnits
  <2> QED BY <2>3, <2>4
<1>9. CASE RecvSet
  <2>1. ~killed /\ CalmRound /\ CalmUnits /\ pc = "recv"
    BY <1>9, <1>c, <1>d DEF RecvSet, ctxs
  <2>2. CASE Backed
    BY <1>9, <1>e, <2>1, <2>2 DEF RecvSet, ctxs, held, provider
  <2>3. CASE ~Backed
    <3>1. PICK e : e = PatchEntry(Head(queue))
      OBVIOUS
    <3>2. e \in Entry /\ e.kind = "patch" /\ log' = Append(log, e)
          /\ UNCHANGED <<ui, pc, rnd, turn, cancelled, ack, sendErr, prov, bus, cur, split>>
      BY <1>9, <2>3, <3>1, EntryType DEF RecvSet, PatchEntry, ctxs, held, provider
    <3>3. ~Visible(log', Len(log'))
      BY <1>a, <3>2, AppendProperties DEF Visible, IsTextPrompt, Renders
    <3>4. AllShown(ui.closed, log)
      BY <2>1 DEF CalmUnits
    <3>5. AllShown(ui.closed, log') /\ ~DanglingTail(log')
      BY <1>a, <3>2, <3>3, <3>4, ShownAppend, AppendTail
    <3>6. CalmRound'
      BY <2>1, <3>2, <3>5 DEF CalmRound
    <3>7. CalmUnits'
      BY <2>1, <3>2, <3>5 DEF CalmUnits
    <3> QED BY <3>6, <3>7
  <2> QED BY <2>2, <2>3
<1>10. CASE PushDelta \/ \E c \in Calls : PushToolReady(c)
  <2>a. killed' = killed /\ prov = "streaming"
    BY <1>10 DEF PushDelta, PushToolReady, ctxs
  <2>1. ~killed /\ CalmRound /\ CalmUnits /\ prov = "streaming"
    BY <2>a, <1>c, <1>d
  <2>2. UNCHANGED <<log, ui, pc, rnd, turn, cancelled, ack, sendErr, prov, cur, split>>
    BY <1>10 DEF PushDelta, PushToolReady, ctxs, held
  <2>3. CalmRound'
    BY <2>1, <2>2 DEF CalmRound
  <2>4. CalmUnits'
    BY <2>1, <2>2 DEF CalmUnits
  <2> QED BY <2>3, <2>4
<1>11. CASE PushFigaro \/ ProviderReturn
  <2>1. ~killed /\ CalmRound /\ CalmUnits
    BY <1>11, <1>c, <1>d DEF PushFigaro, ProviderReturn, ctxs
  <2>2. UNCHANGED <<log, ui, pc, rnd, turn, cancelled, ack, cur, split>>
    BY <1>11 DEF PushFigaro, ProviderReturn, ctxs, held
  <2>3. CalmUnits'
    BY <2>1, <2>2 DEF CalmUnits
  <2>4. CASE PushFigaro
    <3>1. prov = "streaming" /\ prov' = "awaiting" /\ sendErr' = sendErr
      BY <2>4 DEF PushFigaro
    <3>2. pc = "stream" /\ ~sendErr
      BY <2>1, <3>1 DEF CalmRound, TurnInv, OneMessagePerRound
    <3> QED BY <2>1, <2>2, <2>3, <3>1, <3>2 DEF CalmRound
  <2>5. CASE ProviderReturn
    <3>1. prov \in {"streaming", "awaiting"} /\ prov' = "returned" /\ bus' = bus /\ (sendErr' => prov = "streaming")
      BY <2>1, <2>5 DEF ProviderReturn, CalmRound
    <3>2. prov = "streaming" => rnd = NoRound /\ \A i \in DOMAIN bus : bus[i].kind # "figaro"
      BY DEF TurnInv, OneMessagePerRound
    <3>3. rnd = NoRound => ~rnd.sealed
      BY DEF NoRound
    <3> QED BY <2>1, <2>2, <2>3, <3>1, <3>2, <3>3 DEF CalmRound
  <2> QED BY <1>11, <2>4, <2>5
<1>12. CASE FoldStream
  <2>1. ~killed /\ CalmRound /\ CalmUnits /\ pc = "stream" /\ bus # <<>>
    BY <1>12, <1>c, <1>d DEF FoldStream, ctxs
  <2>2. UNCHANGED <<log, ui, pc, rnd, cancelled, ack, sendErr, prov, cur, split>> /\ bus' = Tail(bus)
    BY <1>12 DEF FoldStream, ctxs, held
  <2>3. turn'.on = turn.on /\ turn'.committed = turn.committed
    BY <1>12 DEF FoldStream, TypeOK, Turn
  <2>4. \A i \in DOMAIN bus' : i + 1 \in DOMAIN bus /\ bus'[i] = bus[i + 1]
    BY <1>a, <2>1, <2>2
  <2>5. CalmRound'
    BY <2>1, <2>2, <2>3, <2>4 DEF CalmRound
  <2>6. CalmUnits'
    BY <2>1, <2>2 DEF CalmUnits
  <2> QED BY <2>5, <2>6
<1>13. CASE FirstRound \/ NextRound
  <2>1. ~killed /\ CalmRound /\ CalmUnits /\ pc = "round" /\ StartProvider /\ UNCHANGED <<log, ui, cancelled>>
    BY <1>13, <1>c, <1>d DEF FirstRound, NextRound, ctxs
  <2>2. pc' = "stream" /\ rnd' = NoRound /\ prov' = "streaming" /\ ack' = "none" /\ ~sendErr' /\ turn' \in {turn, NewTurn}
        /\ turn'.on
    BY <2>1 DEF StartProvider, NewTurn, NoTurn
  <2>3. rnd'.calls = {} /\ ~rnd'.sealed /\ ~turn'.committed
    BY <2>1, <2>2 DEF NoRound, NewTurn, NoTurn, CalmRound
  <2>4. CalmRound'
    BY <2>1, <2>2, <2>3 DEF CalmRound
  <2>5. CalmUnits'
    BY <2>1, <2>2, <2>3 DEF CalmUnits
  <2> QED BY <2>4, <2>5
<1>14. CASE Panic
  <2>1. ~killed /\ CalmRound
    BY <1>14, <1>c, <1>d DEF Panic
  <2>2. pc' = "panicked" /\ prov' = "off" /\ bus' = <<>> /\ UNCHANGED <<ack, sendErr, rnd>>
    BY <1>14 DEF Panic
  <2>3. CalmRound'
    BY <2>1, <2>2 DEF CalmRound
  <2>4. CalmUnits'
    BY <2>2 DEF CalmUnits
  <2> QED BY <2>3, <2>4
<1>15. CASE BeginCollect \/ EndCollect
  <2>1. ~killed /\ CalmRound /\ CalmUnits
    BY <1>15, <1>c, <1>d DEF BeginCollect, EndCollect, ctxs
  <2>2. /\ UNCHANGED <<log, ui, rnd, turn, cancelled, ack, sendErr, prov, bus>>
        /\ pc \in {"waitspec", "collect"} /\ pc' \in {"collect", "record"}
    BY <1>15 DEF BeginCollect, EndCollect, SpecDone, ctxs, held, provider
  <2>3. CalmRound'
    BY <2>1, <2>2 DEF CalmRound
  <2>4. CalmUnits'
    BY <2>1, <2>2 DEF CalmUnits
  <2> QED BY <2>3, <2>4
<1>16. CASE AckAssistant
  <2>1. ~killed /\ CalmRound /\ CalmUnits /\ pc = "sealing"
    BY <1>16, <1>c, <1>d DEF AckAssistant, ctxs
  <2>2. /\ UNCHANGED <<log, rnd, turn, cancelled, sendErr, prov, bus>>
        /\ pc' = "stream" /\ ack' = "ok" /\ ui' = EmitDelta(ui, log)
    BY <1>16, <1>d DEF AckAssistant, ctxs
  <2>3. Covers(ui, log, TRUE) /\ (rnd.calls # {} => Rendered(ui, log))
    BY <2>1 DEF CalmUnits
  <2>4. Covers(ui', log, FALSE) /\ (rnd.calls # {} => Rendered(ui', log))
    BY <1>a, <2>2, <2>3, DeltaCovers
  <2>5. CalmRound'
    BY <2>1, <2>2 DEF CalmRound
  <2>6. CalmUnits'
    BY <2>2, <2>4 DEF CalmUnits
  <2> QED BY <2>5, <2>6
<1>17. CASE LeaveStream
  <2>1. ~killed /\ CalmRound /\ CalmUnits /\ pc = "stream" /\ prov = "returned"
    BY <1>17, <1>c, <1>d DEF LeaveStream, ctxs, Drained
  <2>2. /\ UNCHANGED <<log, rnd, cancelled, ack, sendErr, prov, bus>> /\ pc' = "waitspec"
        /\ ui' \in {ui, EmitDelta(ui, log)} /\ turn' \in {turn, NoTurn}
    BY <1>17 DEF LeaveStream, ctxs, provider
  <2>3. Covers(ui, log, FALSE) /\ (rnd.calls # {} => Rendered(ui, log))
    BY <2>1 DEF CalmUnits
  <2>4. Covers(ui', log, FALSE) /\ (rnd.calls # {} => Rendered(ui', log))
    BY <1>a, <2>2, <2>3, DeltaCovers
  <2>5. turn'.committed => turn.committed
    BY <2>2 DEF NoTurn
  <2>6. CalmRound'
    BY <1>17, <2>1, <2>2, <2>5 DEF CalmRound, LeaveStream, Drained
  <2>7. CalmUnits'
    BY <2>2, <2>4 DEF CalmUnits
  <2> QED BY <2>6, <2>7
<1>18. CASE SteerBeforeRound
  <2>1. ~killed /\ CalmRound /\ CalmUnits /\ pc = "round"
    BY <1>18, <1>c, <1>d DEF SteerBeforeRound, ctxs
  <2>2. /\ UNCHANGED <<log, rnd, turn, cancelled, ack, sendErr, prov, bus>> /\ pc' = "append"
        /\ split' = HasRenderablePrompt(cur')
        /\ ui' = IF ~split' THEN ui ELSE IF ComposeEmpty(ui, log) THEN AbandonUnit(ui) ELSE CommitUnit(ui)
    BY <1>18 DEF SteerBeforeRound, ctxs, provider
  <2>3. Covers(ui, log, FALSE)
    BY <2>1 DEF CalmUnits
  <2>4. IF split' THEN AllShown(ui'.closed, log) ELSE Covers(ui', log, FALSE)
    BY <1>a, <2>2, <2>3, AbandonShown, CommitShown
  <2>5. CalmRound'
    BY <2>1, <2>2 DEF CalmRound
  <2>6. CalmUnits'
    BY <2>2, <2>4 DEF CalmUnits
  <2> QED BY <2>5, <2>6
<1>19. CASE SteerAfterTools
  <2>1. ~killed /\ CalmRound /\ CalmUnits /\ pc = "steer"
    BY <1>19, <1>c, <1>d DEF SteerAfterTools, ctxs
  <2>2. /\ UNCHANGED <<log, rnd, turn, cancelled, ack, sendErr, prov, bus>>
        /\ split' = HasRenderablePrompt(cur')
        /\ ui' = IF split' THEN CommitUnit(EmitDelta(ui, log)) ELSE EmitDelta(ui, log)
        /\ (pc' = "append" \/ (pc' = "round" /\ cur' = SubSeq(queue, 1, 0)))
    BY <1>19 DEF SteerAfterTools, ctxs, provider
  <2>3. Covers(EmitDelta(ui, log), log, FALSE) /\ EmitDelta(ui, log) \in UI
    BY <1>a, <2>1, DeltaCovers DEF CalmUnits
  <2>4. IF split' THEN AllShown(ui'.closed, log) ELSE Covers(ui', log, FALSE)
    BY <2>2, <2>3, CommitShown
  <2>5. pc' = "round" => ~split'
    <3>1. queue \in Seq(Events)
      BY DEF TypeOK, InboxOK
    <3>2. cur' = SubSeq(queue, 1, 0) => DOMAIN cur' = {}
      BY <3>1
    <3> QED BY <2>2, <3>2 DEF HasRenderablePrompt
  <2>6. CalmRound'
    BY <2>1, <2>2 DEF CalmRound
  <2>7. CalmUnits'
    BY <2>2, <2>4, <2>5 DEF CalmUnits
  <2> QED BY <2>6, <2>7
<1>20. CASE BeginTurn
  <2>1. ~killed
    <3>1. killed' = killed
      BY <1>20 DEF BeginTurn, BeginWith, Finish, ctxs
    <3> QED BY <1>c, <3>1
  <2>2. CalmRound /\ CalmUnits /\ pc = "begin"
    BY <1>20, <1>d, <2>1 DEF BeginTurn
  <2>3. PICK r \in RepairInterruptedTail(log, budget) :
          \E w \in TryAppend(r.log, r.budget, PromptEntry(Head(cur))) : BeginWith(r, w)
    BY <1>20 DEF BeginTurn
  <2>4. PICK w \in TryAppend(r.log, r.budget, PromptEntry(Head(cur))) : BeginWith(r, w)
    BY <2>3
  <2>5. Head(cur) \in Prompts
    BY <1>20 DEF BeginTurn, TypeOK, HeldOK
  <2>6. PromptEntry(Head(cur)) \in Entry /\ PromptEntry(Head(cur)).kind = "prompt"
    BY <2>5, EntryType DEF PromptEntry
  <2>7. log' = w.log /\ budget' = w.budget
    BY <2>4 DEF BeginWith
  <2>8. w.ok /\ w.log = Append(r.log, PromptEntry(Head(cur))) /\ w.budget = r.budget
    BY <1>c, <2>7, AppendCalm
  <2>9. r.log = log
    BY <1>c, <2>2, <2>7, <2>8, RepairCalm DEF CalmRound
  <2>10. /\ ui' = OpenUnit(UserUnit(ui, Head(cur), log'), "assistant", log')
         /\ turn' = NewTurn /\ pc' = "round" /\ UNCHANGED <<rnd, cancelled, ack, sendErr, prov, bus>>
    BY <2>4, <2>7, <2>8 DEF BeginWith, ctxs, provider
  <2>11. log' \in Seq(Entry) /\ ~DanglingTail(log')
    BY <1>a, <2>6, <2>7, <2>8, <2>9, AppendTail
  <2>12. AllShown(UserUnit(ui, Head(cur), log').closed, log') /\ UserUnit(ui, Head(cur), log') \in UI
    BY <1>a, <2>2, <2>5, <2>7, <2>8, <2>9, UserShown DEF CalmUnits
  <2>13. Covers(ui', log', FALSE)
    BY <2>10, <2>11, <2>12, OpenCovers
  <2>14. ~turn'.committed
    BY <2>10 DEF NewTurn, NoTurn
  <2>15. CalmRound'
    BY <2>2, <2>10, <2>11, <2>14 DEF CalmRound
  <2>16. CalmUnits'
    BY <2>10, <2>13 DEF CalmUnits
  <2> QED BY <2>15, <2>16
<1>21. CASE AppendSteering
  <2>1. ~killed
    <3>1. killed' = killed
      BY <1>21 DEF AppendSteering, SteerWith, Finish, ctxs
    <3> QED BY <1>c, <3>1
  <2>2. CalmRound /\ CalmUnits /\ pc = "append" /\ split' = split
    BY <1>21, <1>d, <2>1 DEF AppendSteering
  <2>3. PICK w \in TryAppend(log, budget, PromptEntry(Head(cur))) : SteerWith(w)
    BY <1>21 DEF AppendSteering
  <2>4. cur \in Seq(Prompts) /\ cur # <<>> /\ Head(cur) \in Prompts /\ Head(cur) = cur[1] /\ 1 \in DOMAIN cur
    BY <1>21 DEF AppendSteering, TypeOK, HeldOK
  <2>5. PICK e : e = PromptEntry(Head(cur))
    OBVIOUS
  <2>6. e \in Entry /\ e.kind = "prompt" /\ (e.text <=> Head(cur) \notin Silent)
    BY <2>4, <2>5, EntryType DEF PromptEntry
  <2>7. log' = w.log /\ budget' = w.budget
    BY <2>3 DEF SteerWith
  <2>8. w.ok /\ w.log = Append(log, e)
    BY <1>c, <2>5, <2>7, AppendCalm
  <2>9. /\ cur' = Tail(cur) /\ UNCHANGED <<rnd, cancelled, ack, sendErr, prov, bus>>
        /\ turn' \in {turn, NewTurn}
        /\ \/ pc' = "append" /\ ui' = UserUnit(ui, Head(cur), log')
           \/ pc' = "round" /\ ui' = IF split THEN OpenUnit(UserUnit(ui, Head(cur), log'), "assistant", log')
                                     ELSE UserUnit(ui, Head(cur), log')
    BY <2>2, <2>3, <2>7, <2>8 DEF SteerWith, ctxs, provider
  <2>10. log' \in Seq(Entry) /\ ~DanglingTail(log')
    BY <1>a, <2>6, <2>7, <2>8, AppendTail
  <2>11. ~turn'.committed
    BY <2>2, <2>9 DEF CalmRound, NewTurn, NoTurn
  <2>12. CalmRound'
    BY <2>2, <2>9, <2>10, <2>11 DEF CalmRound
  <2>13. HasRenderablePrompt(cur') => split
    <3>1. \A i \in DOMAIN cur' : i + 1 \in DOMAIN cur /\ cur'[i] = cur[i + 1]
      BY <2>4, <2>9
    <3> QED BY <2>2, <3>1 DEF HasRenderablePrompt, CalmUnits
  <2>14. CASE split
    <3>1. AllShown(ui.closed, log)
      BY <2>2, <2>14 DEF CalmUnits
    <3>2. AllShown(UserUnit(ui, Head(cur), log').closed, log') /\ UserUnit(ui, Head(cur), log') \in UI
      BY <1>a, <2>4, <2>5, <2>7, <2>8, <3>1, UserShown
    <3>3. Covers(OpenUnit(UserUnit(ui, Head(cur), log'), "assistant", log'), log', FALSE)
      BY <2>10, <3>2, OpenCovers
    <3>4. CASE pc' = "append"
      <4>1. ui' = UserUnit(ui, Head(cur), log')
        BY <2>9, <3>4
      <4> QED BY <2>2, <2>12, <2>14, <3>2, <3>4, <4>1 DEF CalmUnits
    <3>5. CASE pc' = "round"
      <4>1. ui' = OpenUnit(UserUnit(ui, Head(cur), log'), "assistant", log')
        BY <2>9, <2>14, <3>5
      <4> QED BY <2>12, <3>3, <3>5, <4>1 DEF CalmUnits
    <3> QED BY <2>9, <3>4, <3>5
  <2>15. CASE ~split
    <3>1. Covers(ui, log, FALSE) /\ ~HasRenderablePrompt(cur)
      BY <2>2, <2>15 DEF CalmUnits
    <3>2. Head(cur) \in Silent
      BY <2>4, <3>1 DEF HasRenderablePrompt
    <3>3. ~IsTextPrompt(e) /\ ~Renders(e) /\ e.kind # "results"
      BY <2>6, <3>2 DEF IsTextPrompt, Renders
    <3>4. Covers(ui, log', FALSE)
      BY <1>a, <2>6, <2>7, <2>8, <3>1, <3>3, CoversAppend
    <3>5. ui' = ui
      BY <2>9, <2>15, <3>2 DEF UserUnit
    <3>6. CalmUnits'
      BY <2>2, <2>9, <2>13, <2>15, <3>4, <3>5 DEF CalmUnits
    <3> QED BY <2>12, <3>6
  <2> QED BY <2>14, <2>15
<1>22. CASE SealAssistant
  <2>1. ~killed /\ CalmRound /\ CalmUnits /\ pc = "stream" /\ bus # <<>> /\ Head(bus).kind = "figaro"
    BY <1>22, <1>c, <1>d DEF SealAssistant
  <2>2. PICK e : e = AssistantEntry(Head(bus).text, Head(bus).calls)
    OBVIOUS
  <2>3. e \in Entry /\ e.kind = "assistant" /\ e.calls = Head(bus).calls
    <3>1. Head(bus) \in BusEvent
      BY <1>a, <2>1
    <3>2. Head(bus).text \in BOOLEAN /\ Head(bus).calls \in SUBSET Calls
      BY <3>1 DEF BusEvent
    <3> QED BY <2>2, <3>2, EntryType DEF AssistantEntry
  <2>4. PICK w \in TryAppend(log, budget, e) :
          \E k \in (IF w.ok THEN CommitCache(w.budget) ELSE {[ok |-> FALSE, budget |-> w.budget]}) :
            SealWith(Head(bus), w, k)
    BY <1>22, <2>2 DEF SealAssistant
  <2>5. PICK k \in (IF w.ok THEN CommitCache(w.budget) ELSE {[ok |-> FALSE, budget |-> w.budget]}) :
          SealWith(Head(bus), w, k)
    BY <2>4
  <2>6. ~w.ok => "fault" \in w.budget.struck
    BY AppendCalm
  <2>7. k.ok = TRUE /\ w.ok /\ k.budget = w.budget
    BY <1>c, <2>5, <2>6, CacheCalm DEF SealWith
  <2>8. log' = Append(log, e)
    BY <1>c, <2>5, <2>7, AppendCalm DEF SealWith
  <2>9. /\ rnd' = [err |-> FALSE, sealed |-> TRUE, calls |-> e.calls]
        /\ (e.calls = {} => turn' = NoTurn) /\ (cancelled' => cancelled)
        /\ pc' = "sealing" /\ UNCHANGED <<ui, ack, sendErr, prov>>
    BY <1>22, <2>3, <2>5, <2>7 DEF SealWith, SealAssistant
  <2>10. ~sendErr
    <3>1. 1 \in DOMAIN bus /\ bus[1] = Head(bus)
      BY <1>a, <2>1
    <3> QED BY <2>1, <3>1 DEF CalmRound
  <2>11. rnd'.sealed /\ rnd'.calls = e.calls /\ (e.calls = {} => ~turn'.committed /\ ~DanglingTail(log'))
    BY <1>a, <2>3, <2>8, <2>9, AppendTail DEF NoTurn
  <2>12. CalmRound'
    BY <2>1, <2>9, <2>10, <2>11 DEF CalmRound
  <2>13. ~IsTextPrompt(e) /\ e.kind # "results" /\ (e.calls # {} => Renders(e))
    BY <2>3 DEF IsTextPrompt, Renders
  <2>14. Covers(ui, log, FALSE)
    BY <2>1 DEF CalmUnits
  <2>15. Covers(ui, log', TRUE) /\ (e.calls # {} => Rendered(ui, log'))
    BY <1>a, <2>3, <2>8, <2>13, <2>14, CoversAppend
  <2>16. CalmUnits'
    BY <2>9, <2>11, <2>15 DEF CalmUnits
  <2> QED BY <2>12, <2>16
<1>23. CASE StopSendError
  <2>1. ~killed
    <3>1. killed' = killed
      BY <1>23 DEF StopSendError, Finish
    <3> QED BY <1>c, <3>1
  <2>2. CalmRound /\ CalmUnits /\ pc = "stream" /\ sendErr
    BY <1>23, <1>d, <2>1 DEF StopSendError, Drained
  <2>3. ~rnd.sealed /\ turn.on /\ ~turn.committed /\ ~DanglingTail(log)
    BY <2>2 DEF CalmRound
  <2>4. Covers(ui, log, FALSE)
    BY <2>2 DEF CalmUnits
  <2>5. PICK s \in SealTurn(log, budget) :
          /\ log' = s.log /\ budget' = s.budget
          /\ s.ok /\ s.wrote => Finish(CommitUnit(EmitDelta(ui, s.log)))
          /\ s.ok /\ ~s.wrote => Finish(CommitUnit(ui))
    BY <1>23, <2>3 DEF StopSendError
  <2>6. ~turn'.committed
    BY <1>23 DEF StopSendError, NoTurn
  <2>7. PICK e : e = AssistantEntry(turn.text, turn.tools)
    OBVIOUS
  <2>8. e \in Entry /\ e.kind = "assistant" /\ e.calls = turn.tools /\ SealedResults \in Entry
        /\ SealedResults.kind = "results"
    BY <2>7, SealedType DEF AssistantEntry, SealedResults, ResultEntry
  <2>9. \/ s.ok /\ ~s.wrote /\ s.log = log
        \/ s.ok /\ s.wrote /\ turn.tools = {} /\ s.log = Append(log, e)
        \/ s.ok /\ s.wrote /\ turn.tools # {} /\ s.log = Append(Append(log, e), SealedResults)
    BY <1>a, <1>c, <2>3, <2>5, <2>7, SealCalm
  <2>10. ~IsTextPrompt(e) /\ e.kind # "results" /\ (turn.tools # {} => Renders(e)) /\ ~IsTextPrompt(SealedResults)
    BY <2>8 DEF IsTextPrompt, Renders
  <2>11. CASE s.ok /\ ~s.wrote /\ s.log = log
    BY <1>a, <2>3, <2>4, <2>5, <2>6, <2>11, CommitShown, FinishCalm
  <2>12. CASE s.ok /\ s.wrote /\ turn.tools = {} /\ s.log = Append(log, e)
    <3>a. e.calls = {} /\ s.log = Append(log, e) /\ FALSE \in BOOLEAN
      BY <2>8, <2>12
    <3>b. Covers(ui, s.log, TRUE)
      BY <1>a, <2>4, <2>8, <2>10, <3>a, CoversAppend
    <3>c. s.log \in Seq(Entry) /\ ~DanglingTail(s.log)
      BY <1>a, <2>8, <3>a, AppendTail
    <3>1. Covers(ui, s.log, TRUE) /\ s.log \in Seq(Entry) /\ ~DanglingTail(s.log)
      BY <3>b, <3>c
    <3>2. AllShown(CommitUnit(EmitDelta(ui, s.log)).closed, s.log)
      BY <1>a, <3>1, SealedShown
    <3> QED BY <2>5, <2>6, <2>12, <3>1, <3>2, FinishCalm
  <2>13. CASE s.ok /\ s.wrote /\ turn.tools # {} /\ s.log = Append(Append(log, e), SealedResults)
    <3>1. PICK m : m = Append(log, e)
      OBVIOUS
    <3>2. m \in Seq(Entry) /\ Covers(ui, m, TRUE) /\ Rendered(ui, m)
      BY <1>a, <2>4, <2>8, <2>10, <2>13, <3>1, CoversAppend, AppendProperties
    <3>3. s.log = Append(m, SealedResults)
      BY <2>13, <3>1
    <3>a. Covers(ui, s.log, TRUE)
      BY <1>a, <2>8, <2>10, <3>2, <3>3, TRUE \in BOOLEAN, CoversAppend
    <3>b. s.log \in Seq(Entry) /\ ~DanglingTail(s.log)
      BY <2>8, <3>2, <3>3, AppendTail
    <3>4. Covers(ui, s.log, TRUE) /\ s.log \in Seq(Entry) /\ ~DanglingTail(s.log)
      BY <3>a, <3>b
    <3>5. AllShown(CommitUnit(EmitDelta(ui, s.log)).closed, s.log)
      BY <1>a, <3>4, SealedShown
    <3> QED BY <2>5, <2>6, <2>13, <3>4, <3>5, FinishCalm
  <2> QED BY <2>9, <2>11, <2>12, <2>13
<1>24. CASE EndUnsealed
  <2>1. ~killed
    <3>1. killed' = killed
      BY <1>24 DEF EndUnsealed, Finish
    <3> QED BY <1>c, <3>1
  <2>2. CalmUnits /\ pc = "waitspec"
    BY <1>24, <1>d, <2>1 DEF EndUnsealed, SpecDone
  <2>3. PICK e : e = AssistantEntry(FALSE, {})
    OBVIOUS
  <2>4. e \in Entry /\ e.kind = "assistant" /\ e.calls = {} /\ ~Renders(e) /\ ~IsTextPrompt(e)
    <3>1. FALSE \in BOOLEAN /\ {} \in SUBSET Calls
      OBVIOUS
    <3> QED BY <2>3, <3>1, EntryType DEF AssistantEntry, Renders, IsTextPrompt
  <2>5. PICK w \in TryAppend(log, budget, e) :
          log' = w.log /\ budget' = w.budget /\ (w.ok => Finish(CommitUnit(ui)))
    BY <1>24, <2>3 DEF EndUnsealed
  <2>6. w.ok /\ log' = Append(log, e)
    BY <1>c, <2>5, AppendCalm
  <2>7. Covers(ui, log', FALSE)
    BY <1>a, <2>2, <2>4, <2>6, CoversAppend DEF CalmUnits
  <2>8. AllShown(CommitUnit(ui).closed, log') /\ ~DanglingTail(log')
    BY <1>a, <2>4, <2>6, <2>7, CommitShown, AppendTail
  <2>9. ~turn'.committed
    BY <1>24 DEF EndUnsealed, NoTurn
  <2> QED BY <2>5, <2>6, <2>8, <2>9, FinishCalm
<1>25. CASE EndNoCalls
  <2>1. Finish(CommitUnit(ui)) /\ UNCHANGED <<log, turn, killed>> /\ pc = "waitspec" /\ rnd.calls = {}
    BY <1>25 DEF EndNoCalls, SpecDone, Finish
  <2>2. CalmRound /\ CalmUnits
    BY <1>c, <1>d, <2>1
  <2>3. AllShown(CommitUnit(ui).closed, log) /\ ~DanglingTail(log) /\ ~turn.committed
    BY <1>a, <2>1, <2>2, CommitShown DEF CalmRound, CalmUnits
  <2> QED BY <2>1, <2>3, FinishCalm
<1>26. CASE RecordResults
  <2>1. ~killed
    <3>1. killed' = killed
      BY <1>26 DEF RecordResults, Finish, ctxs
    <3> QED BY <1>c, <3>1
  <2>2. CalmRound /\ CalmUnits /\ pc = "record" /\ rnd.calls # {}
    BY <1>26, <1>d, <2>1 DEF RecordResults
  <2>3. PICK w \in TryAppend(log, budget, AssembledResults) :
          IF w.ok THEN /\ log' = w.log /\ budget' = w.budget /\ pc' = "steer"
                       /\ UNCHANGED <<ctxs, rnd, rounds, provider, exec, folded, ui, done>>
          ELSE \E s \in SealTurn(w.log, w.budget) : log' = s.log /\ budget' = s.budget
    BY <1>26 DEF RecordResults
  <2>4. AssembledResults \in Entry /\ AssembledResults.kind = "results"
    BY AssembledType DEF AssembledResults, ResultEntry
  <2>5. w.ok
    <3> SUFFICES ASSUME ~w.ok PROVE FALSE
      OBVIOUS
    <3>1. w \in Outcome /\ "fault" \in w.budget.struck
      BY <1>a, <2>4, TryAppendType, AppendCalm
    <3>2. w.log \in Seq(Entry) /\ w.budget \in Limits
      BY <3>1 DEF Outcome
    <3>3. PICK s \in SealTurn(w.log, w.budget) : budget' = s.budget
      BY <2>3
    <3>4. w.budget.struck \subseteq s.budget.struck
      BY <3>2, SealStruck
    <3> QED BY <1>c, <3>1, <3>3, <3>4
  <2>6. log' = Append(log, AssembledResults) /\ pc' = "steer" /\ UNCHANGED <<cancelled, rnd, ack, sendErr, prov, bus, ui>>
    BY <2>3, <2>5, AppendCalm DEF ctxs, provider
  <2>7. ~turn'.committed
    BY <1>26 DEF RecordResults, NoTurn
  <2>8. ~DanglingTail(log')
    BY <1>a, <2>4, <2>6, AppendTail
  <2>9. CalmRound'
    BY <2>2, <2>6, <2>7, <2>8 DEF CalmRound
  <2>10. Covers(ui, log, FALSE) /\ Rendered(ui, log)
    BY <2>2 DEF CalmUnits
  <2>11. Covers(ui, log', TRUE)
    <3>1. ~IsTextPrompt(AssembledResults)
      BY <2>4 DEF IsTextPrompt
    <3> QED BY <1>a, <2>4, <2>6, <2>10, <3>1, CoversAppend
  <2>12. CalmUnits'
    BY <2>6, <2>11 DEF CalmUnits
  <2> QED BY <2>9, <2>12
<1>27. ASSUME Backed PROVE Led(log')
  <2>1. Sound'
    BY <1>27, <1>b, <1>c DEF Sound, Causes, Struck
  <2>2. log' \in Seq(Entry) /\ WellPaired(log')
    BY <1>b, <2>1 DEF TurnInv, TypeOK
  <2> QED BY <1>b, <2>2, PairedLed
<1>28. CASE Recover
  <2>1. PICK b : b = IF Backed THEN log ELSE <<>>
    OBVIOUS
  <2>2. b \in Seq(Entry)
    BY <1>a, <2>1
  <2>3. PICK s \in SealTurn(b, budget) :
          \E r \in RepairInterruptedTail(s.log, s.budget) :
            log' = r.log /\ budget' = r.budget /\ Finish(Reconcile(ui, r.log))
    BY <1>28, <2>1 DEF Recover
  <2>4. PICK r \in RepairInterruptedTail(s.log, s.budget) :
          log' = r.log /\ budget' = r.budget /\ Finish(Reconcile(ui, r.log))
    BY <2>3
  <2>5. s \in Outcome
    BY <1>a, <2>2, SealTurnType
  <2>6. s.log \in Seq(Entry) /\ s.budget \in Limits
    BY <2>5 DEF Outcome
  <2>7. /\ "fault" \notin s.budget.struck
        /\ r.log = IF DanglingTail(s.log) THEN Append(s.log, RepairEntry(s.log)) ELSE s.log
    BY <1>c, <2>4, RepairCalm
  <2>8. ~DanglingTail(log') /\ log' \in Seq(Entry)
    BY <2>4, <2>6, <2>7, RepairTail
  <2>9. ~turn'.committed
    BY <1>28 DEF Recover, NoTurn
  <2>10. Led(log')
    <3>1. CASE Backed
      BY <1>27, <3>1
    <3>2. CASE ~Backed
      <4>1. b = <<>>
        BY <2>1, <3>2
      <4>2. PICK e : e = AssistantEntry(turn.text, turn.tools)
        OBVIOUS
      <4>3. e \in Entry /\ e.kind = "assistant" /\ e.calls = turn.tools /\ SealedResults \in Entry
            /\ SealedResults.kind = "results"
        BY <4>2, SealedType DEF AssistantEntry, SealedResults, ResultEntry
      <4>4. \/ s.log = <<>>
            \/ s.log = Append(<<>>, SealedResults)
            \/ turn.tools = {} /\ s.log = Append(<<>>, e)
            \/ turn.tools # {} /\ s.log = Append(Append(<<>>, e), SealedResults)
        BY <1>a, <2>2, <2>7, <4>1, <4>2, SealCalm
      <4>5. <<>> \in Seq(Entry)
        OBVIOUS
      <4>6. ~DanglingTail(s.log)
        <5>1. CASE s.log = <<>>
          BY <5>1 DEF DanglingTail
        <5>2. CASE s.log = Append(<<>>, SealedResults)
          BY <4>3, <4>5, <5>2, AppendTail
        <5>3. CASE turn.tools = {} /\ s.log = Append(<<>>, e)
          BY <4>3, <4>5, <5>3, AppendTail
        <5>4. CASE s.log = Append(Append(<<>>, e), SealedResults)
          <6>1. Append(<<>>, e) \in Seq(Entry)
            BY <4>3, <4>5, AppendProperties
          <6> QED BY <4>3, <5>4, <6>1, AppendTail
        <5> QED BY <4>4, <5>1, <5>2, <5>3, <5>4
      <4>7. log' = s.log
        BY <2>4, <2>7, <4>6
      <4>8. Led(s.log)
        <5>1. CASE s.log = <<>>
          BY <5>1 DEF Led
        <5>2. CASE s.log = Append(<<>>, SealedResults)
          <6>1. DOMAIN s.log = 1..1
            BY <5>2
          <6> QED BY <6>1 DEF Led
        <5>3. CASE s.log = Append(<<>>, e)
          <6>1. DOMAIN s.log = 1..1
            BY <5>3
          <6> QED BY <6>1 DEF Led
        <5>4. CASE turn.tools # {} /\ s.log = Append(Append(<<>>, e), SealedResults)
          <6>1. DOMAIN s.log = 1..2 /\ s.log[1] = e
            BY <5>4
          <6>2. Renders(e)
            BY <4>3, <5>4 DEF Renders
          <6> QED BY <6>1, <6>2 DEF Led
        <5> QED BY <4>4, <5>1, <5>2, <5>3, <5>4
      <4> QED BY <4>7, <4>8
    <3> QED BY <3>1, <3>2
  <2>11. AllShown(Reconcile(ui, r.log).closed, log')
    <3>1. Reconcile(ui, r.log).closed = Units(r.log)
      BY DEF Reconcile
    <3> QED BY <2>4, <2>8, <2>10, <3>1, RebuiltShown
  <2> QED BY <2>4, <2>8, <2>9, <2>11, FinishCalm
<1>29. CASE Boot
  <2>1. PICK r \in RepairInterruptedTail(log, budget) :
          /\ log' = r.log /\ budget' = r.budget
          /\ ui' = [lt |-> Cardinality(Heads(r.log)), open |-> NoUnit, closed |-> Units(r.log)]
    BY <1>29 DEF Boot
  <2>2. ~killed /\ CalmRound /\ pc = "boot" /\ pc' = "recv"
        /\ UNCHANGED <<rnd, turn, cancelled, ack, sendErr, prov, bus>>
    BY <1>29, <1>c, <1>d DEF Boot, ctxs, provider
  <2>3. r.log = IF DanglingTail(log) THEN Append(log, RepairEntry(log)) ELSE log
    BY <1>c, <2>1, RepairCalm
  <2>4. ~DanglingTail(log') /\ log' \in Seq(Entry)
    BY <1>a, <2>1, <2>3, RepairTail
  <2>5. ui'.closed = Units(log')
    BY <2>1
  <2>6. Led(log')
    BY <2>2, <1>27 DEF ShownInv, Causes
  <2>7. AllShown(ui'.closed, log')
    BY <2>4, <2>5, <2>6, RebuiltShown
  <2>8. CalmRound'
    BY <2>2, <2>4 DEF CalmRound
  <2>9. CalmUnits'
    BY <2>2, <2>7 DEF CalmUnits
  <2> QED BY <2>8, <2>9
<1> QED BY <1>1, <1>2, <1>3, <1>4, <1>5, <1>6, <1>7, <1>8, <1>9, <1>10, <1>11, <1>12, <1>13, <1>14, <1>15,
           <1>16, <1>17, <1>18, <1>19, <1>20, <1>21, <1>22, <1>23, <1>24, <1>25, <1>26, <1>28, <1>29
    DEF Next, Clients, Between, Rounds, Phase1, Phase2, Drain, Provider, Failures

\* ShownInv holds at first,
LEMMA ShownStart ==
  Init => ShownInv
<1> SUFFICES ASSUME Init PROVE ShownInv
  OBVIOUS
<1>1. /\ log = <<>> /\ pc = "recv" /\ rnd = NoRound /\ turn = NoTurn /\ bus = <<>> /\ ui.closed = {}
      /\ prov = "off" /\ ack = "none" /\ ~sendErr /\ ~interrupted /\ ~torn /\ ~cancelled
  BY DEF Init
<1>2. DOMAIN log = {} /\ ~DanglingTail(log)
  BY <1>1 DEF DanglingTail
<1>3. Causes /\ CalmRound
  BY <1>1, <1>2 DEF Causes, CalmRound, NoRound, NoTurn
<1>4. Carry(log) /\ CalmUnits
  BY <1>1, <1>2 DEF Carry, CalmUnits, AllShown
<1> QED BY <1>3, <1>4 DEF ShownInv

\* and every step keeps it.
LEMMA ShownNext ==
  TypeOK /\ TurnInv /\ ShownInv /\ [Next]_vars => ShownInv'
  BY CausesNext, CalmNext DEF ShownInv

\* ShownInv is an invariant: in a calm turn what no committed unit shows is
\* reached by the open one (emitSnapshot, emitDelta, emitCommit).
THEOREM ShownInvariant == Spec => []ShownInv
  BY TypeCorrect, TurnInvariant, ShownStart, ShownNext, PTL DEF Spec

\* Between turns the committed units show every message of the log, prompts,
\* text, calls and results, unless an append failed, somebody interrupted or the
\* agent was killed (emitSnapshot, emitDelta, emitCommit, endTurnDiscarding,
\* reconcileAriaServer).
THEOREM NothingUnshown == Spec => []UndisturbedShowLog
<1>1. TypeOK /\ ShownInv => UndisturbedShowLog
  <2> SUFFICES ASSUME TypeOK, ShownInv, Calm, pc = "recv", NEW i \in DOMAIN log, Visible(log, i)
               PROVE  \E u \in ui.closed : Shows(u, i)
    BY DEF UndisturbedShowLog, CommittedShowLog, Calm, Visible
  <2>1. AllShown(ui.closed, log)
    BY DEF ShownInv, CalmUnits
  <2> QED BY <2>1 DEF AllShown, Shows, ShowsIn
<1> QED BY <1>1, ShownInvariant, TypeCorrect, PTL
=============================================================================
