-------------------------- MODULE SendClientProofs --------------------------
(***************************************************************************)
(* A command that prompted the aria is told when to end, for every number  *)
(* of frames, faults and notifications under way.                          *)
(***************************************************************************)
EXTENDS SendClient, TLAPS, SequenceTheorems

Roles    == {"", "user", "assistant"}
Message  == [lt : Nat, role : Roles, v : Nat]
PageType == [committed : Seq([msg : Message, full : BOOLEAN]), live : Message]
Item     == [kind : {"frame", "reply", "done"}, page : PageType, idle : BOOLEAN, err : BOOLEAN]

AgentType ==
  /\ open \in [lt : Nat, role : Roles, v : Nat, for : SUBSET {"other", "mine"}]
  /\ lastLT \in Nat
  /\ serving \subseteq {"other", "mine"}
  /\ inbox \in {<<>>, <<"mine">>}
  /\ ending \in [due : BOOLEAN, idle : BOOLEAN, err : BOOLEAN]
  /\ wire \in Seq(Item)
  /\ missed \in BOOLEAN /\ doneCh \in BOOLEAN

\* Our prompt is not served before it is accepted, and is in one place.
PromptOnce ==
  /\ qua \in {"no", "sent"} => inbox = <<>> /\ "mine" \notin serving
  /\ "mine" \in serving => inbox = <<>>

\* A turn.done that says the agent is idle is under way.
IdleDone(w) == \E i \in DOMAIN w : w[i].kind = "done" /\ w[i].idle

Told == missed \/ doneCh \/ listen \/ mode \in {"listen", "forget"}

\* An accepted prompt still has its end before it: the prompt waits or is served,
\* its idle turn.done is due or under way, or the command was told.
EndOwed ==
  qua \in {"accepted", "replied"} =>
    \/ inbox = <<"mine">> \/ "mine" \in serving
    \/ ending.due /\ ending.idle
    \/ IdleDone(wire)
    \/ Told

\* send --forget does not wait; nothing is asked before the command dialled.
ModeOK ==
  /\ mode \in AllModes
  /\ mode = "forget" => main # "waiting"
  /\ main \in {"opening", "dialled"} => qua = "no"

EndInv == AgentType /\ PromptOnce /\ EndOwed /\ ModeOK

-----------------------------------------------------------------------------
(* The wire *)

LEMMA ItemType ==
  /\ NoMsg \in Message
  /\ \A u \in [lt : Nat, role : Roles, v : Nat, for : SUBSET {"other", "mine"}] :
       /\ Msg(u) \in Message
       /\ Frame(Page(<<>>, Msg(u))) \in Item
       /\ Frame(Page(<<Marker(Msg(u))>>, NoMsg)) \in Item
  /\ Reply \in Item
  /\ \A d \in [due : BOOLEAN, idle : BOOLEAN, err : BOOLEAN] : Done(d) \in Item
<1>1. NoMsg \in Message
  BY DEF NoMsg, Message, Roles
<1>2. \A c \in Seq([msg : Message, full : BOOLEAN]), m \in Message : Page(c, m) \in PageType
  BY DEF Page, PageType
<1>3. <<>> \in Seq([msg : Message, full : BOOLEAN])
  OBVIOUS
<1>4. \A p \in PageType : Frame(p) \in Item
  BY DEF Frame, Item
<1>5. ASSUME NEW u \in [lt : Nat, role : Roles, v : Nat, for : SUBSET {"other", "mine"}]
      PROVE  /\ Msg(u) \in Message
             /\ Frame(Page(<<>>, Msg(u))) \in Item
             /\ Frame(Page(<<Marker(Msg(u))>>, NoMsg)) \in Item
  <2>1. Msg(u) \in Message
    BY DEF Msg, Message
  <2>2. Marker(Msg(u)) \in [msg : Message, full : BOOLEAN]
    BY <2>1 DEF Marker
  <2>3. <<Marker(Msg(u))>> \in Seq([msg : Message, full : BOOLEAN])
    BY <2>2
  <2> QED BY <1>1, <1>2, <1>3, <1>4, <2>1, <2>3
<1>6. Reply \in Item
  BY <1>1, <1>2, <1>3 DEF Reply, Item
<1>7. \A d \in [due : BOOLEAN, idle : BOOLEAN, err : BOOLEAN] : Done(d) \in Item
  BY <1>1, <1>2, <1>3 DEF Done, Item
<1> QED BY <1>1, <1>5, <1>6, <1>7

\* What is sent keeps what is under way.
LEMMA SendKeeps ==
  ASSUME NEW w \in Seq(Item), NEW x \in Seq(Item)
  PROVE  /\ w \o x \in Seq(Item)
         /\ IdleDone(w) => IdleDone(w \o x)
         /\ IdleDone(x) => IdleDone(w \o x)
<1>1. PICK y : y = w \o x
  OBVIOUS
<1>2. /\ y \in Seq(Item) /\ Len(y) = Len(w) + Len(x)
      /\ \A i \in 1..Len(w) : y[i] = w[i]
      /\ \A i \in 1..Len(x) : y[Len(w) + i] = x[i]
  BY <1>1, ConcatProperties
<1>3. /\ Len(w) \in Nat /\ Len(x) \in Nat /\ DOMAIN w = 1..Len(w) /\ DOMAIN x = 1..Len(x)
      /\ DOMAIN y = 1..(Len(w) + Len(x))
  BY <1>2
<1>4. IdleDone(w) => IdleDone(y)
  BY <1>2, <1>3 DEF IdleDone
<1>5. IdleDone(x) => IdleDone(y)
  <2> SUFFICES ASSUME NEW i \in DOMAIN x, x[i].kind = "done" /\ x[i].idle PROVE IdleDone(y)
    BY DEF IdleDone
  <2>1. i \in 1..Len(x) /\ Len(w) + i \in DOMAIN y
    BY <1>3
  <2>2. y[Len(w) + i] = x[i]
    BY <1>2, <2>1
  <2> QED BY <2>1, <2>2 DEF IdleDone
<1> QED BY <1>1, <1>2, <1>4, <1>5

\* What is received is the head: any other idle turn.done stays.
LEMMA PumpKeeps ==
  ASSUME NEW w \in Seq(Item), w # <<>>
  PROVE  /\ Head(w) \in Item /\ Tail(w) \in Seq(Item)
         /\ IdleDone(w) => IdleDone(Tail(w)) \/ (Head(w).kind = "done" /\ Head(w).idle)
<1>1. PICK t : t = Tail(w)
  OBVIOUS
<1>2. /\ Head(w) = w[1] /\ w[1] \in Item /\ t \in Seq(Item) /\ Len(t) = Len(w) - 1
      /\ \A i \in 1..Len(t) : t[i] = w[i + 1]
  BY <1>1, HeadTailProperties
<1>3. Len(w) \in Nat /\ DOMAIN w = 1..Len(w) /\ DOMAIN t = 1..(Len(w) - 1)
  BY <1>2
<1>4. ASSUME NEW i \in DOMAIN w, w[i].kind = "done" /\ w[i].idle, i # 1 PROVE IdleDone(t)
  <2>1. i - 1 \in DOMAIN t /\ (i - 1) + 1 = i
    BY <1>3, <1>4
  <2>2. t[i - 1] = w[i]
    BY <1>2, <1>3, <2>1
  <2> QED BY <1>4, <2>1, <2>2 DEF IdleDone
<1> QED BY <1>1, <1>2, <1>4 DEF IdleDone

-----------------------------------------------------------------------------
(* The steps *)

\* A step of the command's own: the agent and the wire are left alone.
LEMMA OwnStep ==
  ASSUME EndInv, UNCHANGED <<mode, open, lastLT, inbox, serving, ending, wire>>,
         missed' \in BOOLEAN, doneCh' \in BOOLEAN,
         qua' = qua \/ (qua = "no" /\ qua' = "sent"), Told => Told', ModeOK'
  PROVE  EndInv'
<1>1. AgentType'
  BY DEF EndInv, AgentType
<1>2. PromptOnce'
  BY DEF EndInv, PromptOnce
<1>3. EndOwed'
  BY DEF EndInv, EndOwed
<1> QED BY <1>1, <1>2, <1>3 DEF EndInv

LEMMA EndNext == EndInv /\ [Next]_vars => EndInv'
<1> SUFFICES ASSUME EndInv, [Next]_vars PROVE EndInv'
  OBVIOUS
<1> USE DEF agent, flags, given, ghosts
<1>a. AgentType /\ PromptOnce /\ EndOwed /\ ModeOK
  BY DEF EndInv
<1>b. /\ open \in [lt : Nat, role : Roles, v : Nat, for : SUBSET {"other", "mine"}] /\ wire \in Seq(Item)
      /\ lastLT \in Nat /\ serving \subseteq {"other", "mine"} /\ inbox \in {<<>>, <<"mine">>}
      /\ ending \in [due : BOOLEAN, idle : BOOLEAN, err : BOOLEAN]
      /\ missed \in BOOLEAN /\ doneCh \in BOOLEAN
  BY <1>a DEF AgentType
<1>c. inbox # <<>> => inbox = <<"mine">> /\ Head(inbox) = "mine" /\ Tail(inbox) = <<>>
  <2>1. <<"mine">> \in Seq({"mine"}) /\ <<"mine">> # <<>> /\ Len(<<"mine">>) = 1 /\ Head(<<"mine">>) = "mine"
    OBVIOUS
  <2>2. Tail(<<"mine">>) \in Seq({"mine"}) /\ Len(Tail(<<"mine">>)) = 0
    BY <2>1, HeadTailProperties
  <2>3. Tail(<<"mine">>) = <<>>
    BY <2>2, EmptySeq
  <2> QED BY <1>b, <2>1, <2>3
<1>d. <<>> # <<"mine">> /\ Append(<<>>, "mine") = <<"mine">>
  OBVIOUS
<1>e. ASSUME NEW u \in [lt : Nat, role : Roles, v : Nat, for : SUBSET {"other", "mine"}]
      PROVE  /\ Frame(Page(<<>>, Msg(u))) \in Item /\ Frame(Page(<<Marker(Msg(u))>>, NoMsg)) \in Item
  BY ItemType
<1>1. CASE UNCHANGED vars
  BY <1>1, <1>a, <1>b, OwnStep DEF vars, Told, ModeOK
<1>2. CASE Begin
  <2>1. PICK u : u = Unit(lastLT + 1, "user", 1, {Head(inbox)})
    OBVIOUS
  <2>2. PICK x : x = <<Frame(Page(<<>>, Msg(u))), Frame(Page(<<Marker(Msg(u))>>, NoMsg))>>
    OBVIOUS
  <2>3. inbox # <<>> /\ lastLT' = u.lt /\ wire' = wire \o x /\ serving' = {Head(inbox)}
        /\ inbox' = Tail(inbox) /\ UNCHANGED <<mode, open, ending, main, qua, missed, doneCh, listen>>
    BY <1>2, <2>1, <2>2 DEF Begin, Send
  <2>4. inbox = <<"mine">> /\ serving' = {"mine"} /\ inbox' = <<>>
    BY <1>c, <2>3
  <2>5. u \in [lt : Nat, role : Roles, v : Nat, for : SUBSET {"other", "mine"}] /\ u.lt = lastLT + 1
    <3>1. PICK n : n = lastLT + 1
      OBVIOUS
    <3>2. n \in Nat
      BY <1>b, <3>1
    <3>3. Head(inbox) = "mine"
      BY <1>c, <2>3
    <3>4. u = Unit(n, "user", 1, {"mine"})
      BY <2>1, <3>1, <3>3
    <3> QED BY <3>1, <3>2, <3>4 DEF Unit, Roles
  <2>6. x \in Seq(Item)
    BY <1>e, <2>2, <2>5
  <2>7. wire' \in Seq(Item)
    BY <1>b, <2>3, <2>6, SendKeeps
  <2>8. AgentType'
    BY <1>b, <2>3, <2>4, <2>5, <2>7 DEF AgentType
  <2>9. qua \notin {"no", "sent"}
    BY <1>a, <1>d, <2>4 DEF PromptOnce
  <2> QED BY <1>a, <2>3, <2>4, <2>8, <2>9 DEF EndInv, PromptOnce, EndOwed, ModeOK
<1>3. CASE Stream
  <2>1. PICK steer \in {FALSE} \cup {inbox # <<>> /\ open.lt # 0} :
          /\ serving' = IF steer THEN serving \cup {Head(inbox)} ELSE serving
          /\ inbox' = IF steer THEN Tail(inbox) ELSE inbox
    BY <1>3 DEF Stream
  <2>2. PICK u : u = Unit(IF open.lt = 0 THEN lastLT + 1 ELSE open.lt, "assistant", open.v + 1, serving')
    OBVIOUS
  <2>3. /\ open' = u /\ lastLT' = u.lt /\ wire' = wire \o <<Frame(Page(<<>>, Msg(u)))>>
        /\ UNCHANGED <<mode, ending, main, qua, missed, doneCh, listen>>
    BY <1>3, <2>2 DEF Stream, Send
  <2>4. \/ serving' = serving /\ inbox' = inbox
        \/ inbox = <<"mine">> /\ serving' = serving \cup {"mine"} /\ inbox' = <<>>
    BY <1>c, <2>1
  <2>5. serving' \subseteq {"other", "mine"} /\ inbox' \in {<<>>, <<"mine">>}
    BY <1>b, <2>4
  <2>6. u \in [lt : Nat, role : Roles, v : Nat, for : SUBSET {"other", "mine"}] /\ u.lt \in Nat
    <3>1. PICK n : n = IF open.lt = 0 THEN lastLT + 1 ELSE open.lt
      OBVIOUS
    <3>2. PICK k : k = open.v + 1
      OBVIOUS
    <3>3. n \in Nat /\ k \in Nat
      BY <1>b, <3>1, <3>2
    <3>4. u = Unit(n, "assistant", k, serving')
      BY <2>2, <3>1, <3>2
    <3> QED BY <2>5, <3>3, <3>4 DEF Unit, Roles
  <2>7. <<Frame(Page(<<>>, Msg(u)))>> \in Seq(Item)
    <3>1. PICK f : f = Frame(Page(<<>>, Msg(u)))
      OBVIOUS
    <3>2. f \in Item
      BY <1>e, <2>6, <3>1
    <3> QED BY <3>1, <3>2
  <2>8. wire' \in Seq(Item) /\ (IdleDone(wire) => IdleDone(wire'))
    BY <1>b, <2>3, <2>7, SendKeeps
  <2>9. AgentType'
    BY <1>b, <2>3, <2>5, <2>6, <2>8 DEF AgentType
  <2>10. PromptOnce'
    BY <1>a, <1>d, <2>3, <2>4 DEF PromptOnce
  <2>11. EndOwed'
    BY <1>a, <2>3, <2>4, <2>8 DEF EndOwed, Told
  <2> QED BY <1>a, <2>3, <2>9, <2>10, <2>11 DEF EndInv, ModeOK
<1>4. ASSUME NEW e \in BOOLEAN, EndTurn(e) PROVE EndInv'
  <2>1. /\ open' = NoUnit /\ serving' = {} /\ ending' = [due |-> TRUE, idle |-> inbox = <<>>, err |-> e]
        /\ UNCHANGED <<mode, lastLT, inbox, main, qua, missed, doneCh, listen>>
    BY <1>4 DEF EndTurn
  <2>2. wire' = wire \/ wire' = wire \o <<Frame(Page(<<Marker(Msg(open))>>, NoMsg))>>
    BY <1>4 DEF EndTurn, Send
  <2>3. <<Frame(Page(<<Marker(Msg(open))>>, NoMsg))>> \in Seq(Item)
    BY <1>b, <1>e
  <2>4. wire' \in Seq(Item) /\ (IdleDone(wire) => IdleDone(wire'))
    BY <1>b, <2>2, <2>3, SendKeeps
  <2>5. NoUnit \in [lt : Nat, role : Roles, v : Nat, for : SUBSET {"other", "mine"}]
    BY DEF NoUnit, Roles
  <2>6. ending' \in [due : BOOLEAN, idle : BOOLEAN, err : BOOLEAN] /\ ending'.due /\ (ending'.idle <=> inbox = <<>>)
    BY <2>1
  <2>7. AgentType'
    BY <1>b, <2>1, <2>4, <2>5, <2>6 DEF AgentType
  <2>8. PromptOnce'
    BY <1>a, <2>1 DEF PromptOnce
  <2>9. EndOwed'
    BY <1>b, <2>1, <2>6 DEF EndOwed
  <2> QED BY <1>a, <2>1, <2>7, <2>8, <2>9 DEF EndInv, ModeOK
<1>5. CASE FanOutDone
  <2>1. /\ ending.due /\ ending' = NoDone /\ wire' = wire \o <<Done(ending)>>
        /\ UNCHANGED <<mode, open, lastLT, inbox, serving, main, qua, missed, doneCh, listen>>
    BY <1>5 DEF FanOutDone, Send
  <2>2. PICK d : d = Done(ending)
    OBVIOUS
  <2>3. d \in Item /\ d.kind = "done" /\ d.idle = ending.idle
    BY <1>b, <2>2, ItemType DEF Done
  <2>4. <<d>> \in Seq(Item) /\ (ending.idle => IdleDone(<<d>>))
    BY <2>3 DEF IdleDone
  <2>5. wire' \in Seq(Item) /\ (IdleDone(wire) \/ ending.idle => IdleDone(wire'))
    BY <1>b, <2>1, <2>2, <2>4, SendKeeps
  <2>6. AgentType'
    BY <1>b, <2>1, <2>5 DEF AgentType, NoDone
  <2>7. PromptOnce' /\ EndOwed'
    BY <1>a, <2>1, <2>5 DEF PromptOnce, EndOwed, Told
  <2> QED BY <1>a, <2>1, <2>6, <2>7 DEF EndInv, ModeOK
<1>6. CASE Accept
  <2>1. /\ qua = "sent" /\ qua' = "accepted" /\ inbox' = Append(inbox, "mine")
        /\ UNCHANGED <<mode, open, lastLT, serving, ending, wire, main, missed, doneCh, listen>>
    BY <1>6 DEF Accept
  <2>2. inbox' = <<"mine">> /\ "mine" \notin serving
    BY <1>a, <1>d, <2>1 DEF PromptOnce
  <2>3. AgentType'
    BY <1>b, <2>1, <2>2 DEF AgentType
  <2> QED BY <1>a, <2>1, <2>2, <2>3 DEF EndInv, PromptOnce, EndOwed, ModeOK
<1>7. CASE QuaReply
  <2>1. /\ qua = "accepted" /\ qua' = "replied" /\ wire' = wire \o <<Reply>>
        /\ UNCHANGED <<mode, open, lastLT, inbox, serving, ending, main, missed, doneCh, listen>>
    BY <1>7 DEF QuaReply, Send
  <2>2. Reply \in Item
    BY ItemType
  <2>3. <<Reply>> \in Seq(Item)
    BY <2>2
  <2>4. wire' \in Seq(Item) /\ (IdleDone(wire) => IdleDone(wire'))
    BY <1>b, <2>1, <2>3, SendKeeps
  <2>5. AgentType'
    BY <1>b, <2>1, <2>4 DEF AgentType
  <2>6. PromptOnce' /\ EndOwed'
    BY <1>a, <2>1, <2>4 DEF PromptOnce, EndOwed, Told
  <2> QED BY <1>a, <2>1, <2>5, <2>6 DEF EndInv, ModeOK
<1>8. CASE Pump
  <2>1. /\ wire # <<>> /\ wire' = Tail(wire)
        /\ UNCHANGED <<mode, open, lastLT, inbox, serving, ending, qua, listen>>
    BY <1>8 DEF Pump
  <2>2. PICK n : n = Head(wire)
    OBVIOUS
  <2>3. /\ n \in Item /\ Tail(wire) \in Seq(Item)
        /\ IdleDone(wire) => IdleDone(Tail(wire)) \/ (n.kind = "done" /\ n.idle)
    BY <1>b, <2>1, <2>2, PumpKeeps
  <2>9. /\ missed' = missed \/ missed' = (missed \/ Unheard(n))
        /\ doneCh' = doneCh \/ doneCh' = TRUE \/ doneCh' = (doneCh \/ (Settled(n) /\ ~listen))
    BY <1>8, <2>2 DEF Pump, SendDone, TailDone, SinkDone
  <2>10. missed' \in BOOLEAN /\ doneCh' \in BOOLEAN /\ (missed => missed') /\ (doneCh => doneCh')
    <3>1. PICK a \in BOOLEAN : a <=> Unheard(n)
      BY DEF Unheard
    <3>2. PICK b \in BOOLEAN : b <=> Settled(n) /\ ~listen
      BY DEF Settled
    <3>3. missed' = missed \/ missed' = (missed \/ a)
      BY <2>9, <3>1
    <3>4. doneCh' = doneCh \/ doneCh' = TRUE \/ doneCh' = (doneCh \/ b)
      BY <2>9, <3>2
    <3> QED BY <1>b, <3>3, <3>4
  <2>4. AgentType'
    BY <1>b, <2>1, <2>3, <2>10 DEF AgentType
  <2>5. PromptOnce'
    BY <1>a, <2>1 DEF PromptOnce
  <2>6. ModeOK' /\ (Told => Told')
    <3>1. main' = main \/ main' = "answered"
      BY <1>8 DEF Pump
    <3> QED BY <1>a, <2>1, <2>10, <3>1 DEF ModeOK, Told
  <2>7. CASE ~(n.kind = "done" /\ n.idle)
    <3>1. IdleDone(wire) => IdleDone(wire')
      BY <2>1, <2>3, <2>7
    <3> QED BY <1>a, <2>1, <2>4, <2>5, <2>6, <3>1 DEF EndInv, EndOwed
  <2>8. CASE n.kind = "done" /\ n.idle
    <3>1. \/ mode = "send" /\ SendDone(n)
          \/ mode \in {"listen", "forget"}
          \/ mode \in Plain /\ SinkDone(n)
      BY <1>8, <2>2, <2>8 DEF Pump
    <3>2. CASE mode = "send" /\ SendDone(n)
      <4>1. doneCh' = (doneCh \/ (cursor /\ ~listen))
        BY <2>8, <3>2 DEF SendDone, Settled
      <4>2. missed' = (missed \/ Unheard(n))
        BY <3>2 DEF SendDone
      <4>3. ~cursor /\ qua \in {"accepted", "replied"} /\ "mine" \notin serving /\ inbox = <<>> => Unheard(n)
        BY <2>8 DEF Unheard, Range
      <4>4. EndOwed'
        BY <1>a, <1>b, <2>1, <4>1, <4>2, <4>3 DEF EndOwed, Told
      <4> QED BY <2>4, <2>5, <2>6, <4>4 DEF EndInv
    <3>3. CASE mode \in {"listen", "forget"} \/ (mode \in Plain /\ SinkDone(n))
      <4>1. Told'
        BY <2>1, <3>3 DEF Told, SinkDone
      <4> QED BY <2>4, <2>5, <2>6, <4>1 DEF EndInv, EndOwed
    <3> QED BY <3>1, <3>2, <3>3
  <2> QED BY <2>7, <2>8
<1>9. CASE AgentDies \/ Heal \/ Enter
  <2>1. UNCHANGED <<mode, open, lastLT, inbox, serving, ending, wire, qua, main, missed, doneCh, listen>>
    BY <1>9 DEF AgentDies, Heal, AnswerRead, ApplyRead, DropRead, Enter, ReadWindow, ReadTail, EnterTranscript
  <2> QED BY <1>a, <1>b, <2>1, OwnStep DEF Told, ModeOK
<1>10. CASE Key
  <2>1. UNCHANGED <<mode, open, lastLT, inbox, serving, ending, wire, qua, main, missed, doneCh>>
    BY <1>10 DEF Key, KeyPager, KeyDetach, KeyCancel
  <2>2. listen' = listen \/ listen' = TRUE
    BY <1>10 DEF Key, KeyPager, KeyDetach, KeyCancel
  <2> QED BY <1>a, <1>b, <2>1, <2>2, OwnStep DEF Told, ModeOK
<1>11. CASE Main
  <2>1. UNCHANGED <<mode, open, lastLT, inbox, serving, ending, wire, missed, doneCh, listen>>
    BY <1>11 DEF Main, Opened, SendQua, QuaReturns, Forget, QuaFails, TakeDone, PlainDone, TakeDetach,
       TakeLost, TakeCancel, CancelTurn, CancelTail, Settle, PlainSettle, Finish
  <2>2. qua' = qua \/ (main = "dialled" /\ qua' = "sent")
    BY <1>11 DEF Main, Opened, SendQua, QuaReturns, Forget, QuaFails, TakeDone, PlainDone, TakeDetach,
       TakeLost, TakeCancel, CancelTurn, CancelTail, Settle, PlainSettle, Finish
  <2>4. main' \in {"opening", "dialled"} => main = "opening" /\ qua' = qua
    BY <1>11 DEF Main, Opened, SendQua, QuaReturns, Forget, QuaFails, TakeDone, PlainDone, TakeDetach,
       TakeLost, TakeCancel, CancelTurn, CancelTail, Settle, PlainSettle, Finish
  <2>3. main' = "waiting" => mode # "forget"
    BY <1>11 DEF Main, Opened, SendQua, QuaReturns, Forget, QuaFails, TakeDone, PlainDone, TakeDetach,
       TakeLost, TakeCancel, CancelTurn, CancelTail, Settle, PlainSettle, Finish
  <2> QED BY <1>a, <1>b, <2>1, <2>2, <2>3, <2>4, OwnStep DEF Told, ModeOK
<1> QED BY <1>1, <1>2, <1>3, <1>4, <1>5, <1>6, <1>7, <1>8, <1>9, <1>10, <1>11 DEF Next, Agent

-----------------------------------------------------------------------------
LEMMA EndStart == Init => EndInv
<1> SUFFICES ASSUME Init PROVE EndInv
  OBVIOUS
<1>1. mode \in AllModes
  BY SendClientAssumption DEF Init
<1>2. /\ inbox = <<>> /\ wire = <<>> /\ ending = NoDone /\ qua = "no" /\ missed = FALSE /\ doneCh = FALSE
      /\ listen \in {mode = "listen", mode \in Rich} /\ main = IF listen THEN "opening" ELSE "dialled"
  BY DEF Init
<1>3. /\ lastLT \in Nat /\ serving \in {{}, {"other"}}
      /\ open \in [lt : Nat, role : Roles, v : Nat, for : SUBSET {"other", "mine"}]
  <2>1. PICK n \in Prior :
          \/ open = NoUnit /\ lastLT = n /\ serving = {}
          \/ serving = {"other"} /\ open = Unit(n + 2, "assistant", 1, {"other"}) /\ lastLT = n + 2
    BY DEF Init
  <2>2. n \in Nat /\ n + 2 \in Nat
    BY SendClientAssumption
  <2>3. NoUnit \in [lt : Nat, role : Roles, v : Nat, for : SUBSET {"other", "mine"}]
    BY DEF NoUnit, Roles
  <2>4. PICK k : k = n + 2
    OBVIOUS
  <2>5. k \in Nat
    BY <2>2, <2>4
  <2>6. Unit(k, "assistant", 1, {"other"}) \in [lt : Nat, role : Roles, v : Nat, for : SUBSET {"other", "mine"}]
    BY <2>5 DEF Unit, Roles
  <2> QED BY <2>1, <2>2, <2>3, <2>4, <2>6
<1>5. AgentType
  <2>1. ending \in [due : BOOLEAN, idle : BOOLEAN, err : BOOLEAN]
    BY <1>2 DEF NoDone
  <2>2. wire \in Seq(Item)
    BY <1>2
  <2>3. serving \subseteq {"other", "mine"}
    BY <1>3
  <2> QED BY <1>2, <1>3, <2>1, <2>2, <2>3 DEF AgentType
<1>6. "mine" \notin serving
  BY <1>3
<1> QED BY <1>1, <1>2, <1>5, <1>6 DEF EndInv, PromptOnce, EndOwed, ModeOK

\* The end of an accepted prompt is owed until the command was told, whatever
\* the order in which the agent, the pump and the keys run.
THEOREM EndInvariant == Spec => []EndInv
<1> QED BY EndStart, EndNext, PTL DEF Spec

\* A command never waits for an agent that is at rest and has been heard out,
\* whether another prompt was running, its own was taken as steering, or the
\* turn failed; the one case left out is a turn.done that came before Qua had
\* returned (onNotify, plainSink.handle, mustPromptFigaro).
THEOREM NotStrandedCorrect == Spec => []NotStranded
<1>1. EndInv => NotStranded
  <2> SUFFICES ASSUME EndInv, Quiet, mode # "listen", main = "waiting", ~listen, ~missed PROVE doneCh
    BY DEF NotStranded
  <2>1. serving = {} /\ inbox = <<>> /\ ~ending.due /\ wire = <<>> /\ qua = "replied"
    BY DEF Quiet
  <2>2. ~IdleDone(wire)
    BY <2>1 DEF IdleDone
  <2>3. <<>> # <<"mine">>
    OBVIOUS
  <2> QED BY <2>1, <2>2, <2>3 DEF EndInv, EndOwed, ModeOK, Told
<1> QED BY <1>1, EndInvariant, PTL
=============================================================================
