-------------------------- MODULE FigaroTurnProofs --------------------------
(***************************************************************************)
(* Proofs about FigaroTurn, for every value of its constants: the types,   *)
(* and that the log of an agent stays paired: TurnInv is inductive, and it *)
(* implies TranscriptPaired.                                               *)
(***************************************************************************)
EXTENDS FigaroTurn, TLAPS, SequenceTheorems, FiniteSetTheorems

Outcome == [log : Seq(Entry), budget : Limits, ok : BOOLEAN, wrote : BOOLEAN]

-----------------------------------------------------------------------------
(* The operators *)

\* Every message the agent composes is an entry of the log.
LEMMA EntryType ==
  /\ \A p \in Prompts : PromptEntry(p) \in Entry
  /\ \A s \in Sets : PatchEntry(s) \in Entry
  /\ \A t \in BOOLEAN, C \in SUBSET Calls : AssistantEntry(t, C) \in Entry
  /\ \A C \in SUBSET Calls, r \in [Calls -> Outcomes] : ResultEntry(C, r) \in Entry
  BY DEF PromptEntry, PatchEntry, AssistantEntry, ResultEntry, Entry, NoResults, Outcomes

\* The units rebuilt from a log are finitely many, and units.
LEMMA UnitsType ==
  ASSUME NEW l \in Seq(Entry)
  PROVE  /\ Cardinality(Heads(l)) \in Nat
         /\ Units(l) \subseteq Unit
<1>1. Heads(l) \subseteq 1..Len(l)
  BY DEF Heads
<1>2. IsFiniteSet(1..Len(l))
  BY FS_Interval
<1>3. \A S : S \subseteq 1..Len(l) => Cardinality(S) \in Nat
  BY <1>2, FS_Subset, FS_CardinalityType
<1>4. \A i \in Heads(l) : GroupEnd(l, i) \in Nat
  <2> TAKE i \in Heads(l)
  <2>1. i \in Nat
    BY <1>1
  <2> DEFINE S == {j \in (i + 1)..Len(l) : \A k \in (i + 1)..j : ~IsTextPrompt(l[k])}
  <2>2. S \subseteq 1..Len(l)
    BY <2>1
  <2>3. Cardinality(S) \in Nat
    BY <2>2, <1>3
  <2> QED BY <2>1, <2>3 DEF GroupEnd
<1>5. \A i \in Heads(l) : Cardinality({j \in Heads(l) : j <= i}) \in Nat
  <2> TAKE i \in Heads(l)
  <2>1. {j \in Heads(l) : j <= i} \subseteq 1..Len(l)
    BY <1>1
  <2> QED BY <2>1, <1>3
<1>6. \A i \in Heads(l) : i - 1 \in Nat
  BY <1>1
<1>7. Units(l) \subseteq Unit
  <2>1. \A i \in Heads(l) :
         [lt   |-> Cardinality({j \in Heads(l) : j <= i}),
          role |-> IF IsTextPrompt(l[i]) THEN "user" ELSE "assistant",
          from |-> i - 1,
          seen |-> GroupEnd(l, i)] \in Unit
    BY <1>4, <1>5, <1>6 DEF Unit
  <2> QED BY <2>1 DEF Units
<1> QED BY <1>1, <1>3, <1>7

\* An append yields a log and a budget, whether it succeeds or not.
LEMMA TryAppendType ==
  ASSUME NEW l \in Seq(Entry), NEW b \in Limits, NEW e \in Entry
  PROVE  TryAppend(l, b, e) \subseteq Outcome
<1>1. Append(l, e) \in Seq(Entry)
  OBVIOUS
<1>2. CanStrike("fault", b) => Strike("fault", b) \in Limits
  BY DEF CanStrike, Strike, Limits, Disturbances
<1>3. [log |-> Append(l, e), budget |-> b, ok |-> TRUE, wrote |-> TRUE] \in Outcome
  BY <1>1 DEF Outcome
<1>4. CanStrike("fault", b) =>
        [log |-> l, budget |-> Strike("fault", b), ok |-> FALSE, wrote |-> FALSE] \in Outcome
  BY <1>2 DEF Outcome
<1> QED BY <1>3, <1>4 DEF TryAppend

\* repairInterruptedTail yields logs and budgets of their types.
LEMMA RepairType ==
  ASSUME NEW l \in Seq(Entry), NEW b \in Limits
  PROVE  RepairInterruptedTail(l, b) \subseteq Outcome
<1>1. CASE DanglingTail(l)
  <2>1. l[Len(l)] \in Entry
    BY <1>1 DEF DanglingTail
  <2>4. l[Len(l)].calls \in SUBSET Calls
    BY <2>1 DEF Entry
  <2>2. [c \in Calls |-> "repaired"] \in [Calls -> Outcomes]
    BY DEF Outcomes
  <2>3. RepairEntry(l) \in Entry
    BY <2>4, <2>2, EntryType DEF RepairEntry
  <2> QED BY <1>1, <2>3, TryAppendType DEF RepairInterruptedTail
<1>2. CASE ~DanglingTail(l)
  BY <1>2 DEF RepairInterruptedTail, Kept, Outcome
<1> QED BY <1>1, <1>2

\* sealTurn, whichever of its branches it takes, yields logs and budgets of their
\* types.
LEMMA SealTurnType ==
  ASSUME TypeOK, NEW l \in Seq(Entry), NEW b \in Limits
  PROVE  SealTurn(l, b) \subseteq Outcome
<1>1. turn.text \in BOOLEAN /\ turn.tools \in SUBSET Calls
  BY DEF TypeOK, Turn
<1>2. folded \in [Calls -> {"none", "running", "ok", "error"}]
  BY DEF TypeOK, ToolsOK
<1>3. [c \in Calls |-> IF folded[c] \in {"ok", "error"} THEN folded[c] ELSE "interrupted"]
        \in [Calls -> Outcomes]
  BY <1>2 DEF Outcomes
<1>4. SealedResults \in Entry
  BY <1>1, <1>3, EntryType DEF SealedResults
<1>5. AssistantEntry(turn.text, turn.tools) \in Entry
  BY <1>1, EntryType
<1>6. Kept(l, b) \in Outcome
  BY DEF Kept, Outcome
<1>7. TryAppend(l, b, SealedResults) \subseteq Outcome
  BY <1>4, TryAppendType
<1>8. TryAppend(l, b, AssistantEntry(turn.text, turn.tools)) \subseteq Outcome
  BY <1>5, TryAppendType
<1>9. \A a \in Outcome : TryAppend(a.log, a.budget, SealedResults) \subseteq Outcome
  <2> TAKE a \in Outcome
  <2>1. a.log \in Seq(Entry) /\ a.budget \in Limits
    BY DEF Outcome
  <2> QED BY <2>1, <1>4, TryAppendType
<1>10. \A r \in Outcome : [r EXCEPT !.wrote = TRUE] \in Outcome
  BY DEF Outcome
<1> QED BY <1>6, <1>7, <1>8, <1>9, <1>10 DEF SealTurn

\* What the rendering operators yield is again a rendering state.
LEMMA UiType ==
  ASSUME NEW u \in UI, NEW l \in Seq(Entry)
  PROVE  /\ OpenUnit(u, "user", l) \in UI /\ OpenUnit(u, "assistant", l) \in UI
         /\ EmitDelta(u, l) \in UI
         /\ CommitUnit(u) \in UI
         /\ AbandonUnit(u) \in UI
         /\ Reconcile(u, l) \in UI
<1>1. u.lt \in Nat /\ u.open \in Unit /\ u.closed \in SUBSET Unit
  BY DEF UI
<1>2. Len(l) \in Nat
  OBVIOUS
<1>3. \A r \in {"user", "assistant"} : OpenUnit(u, r, l) \in UI
  <2> TAKE r \in {"user", "assistant"}
  <2> DEFINE o == [lt |-> u.lt + 1, role |-> r, from |-> Len(l), seen |-> Len(l)]
  <2>1. o \in Unit
    BY <1>1, <1>2 DEF Unit
  <2> HIDE DEF o
  <2>2. [lt |-> u.lt + 1, open |-> o, closed |-> u.closed] \in UI
    BY <1>1, <2>1 DEF UI
  <2> QED BY <2>2 DEF OpenUnit, o
<1>4. NoUnit \in Unit
  BY DEF NoUnit, Unit
<1>5. [u.open EXCEPT !.seen = Len(l)] \in Unit
  BY <1>1, <1>2 DEF Unit
<1>6. EmitDelta(u, l) \in UI
  <2>1. [u EXCEPT !.open = [u.open EXCEPT !.seen = Len(l)]] \in UI
    BY <1>1, <1>5 DEF UI
  <2> QED BY <2>1 DEF EmitDelta
<1>7. CommitUnit(u) \in UI
  BY <1>1, <1>4 DEF CommitUnit, UI
<1>8. AbandonUnit(u) \in UI
  BY <1>1, <1>4 DEF AbandonUnit, UI
<1>9. Reconcile(u, l) \in UI
  <2> DEFINE n == Cardinality(Heads(l))
  <2>1. n \in Nat /\ Units(l) \subseteq Unit
    BY UnitsType
  <2> HIDE DEF n
  <2>2. [lt     |-> IF HasOpen(u) /\ n <= LastCommittedLT(u) THEN n + 1 ELSE n,
         open   |-> NoUnit,
         closed |-> Units(l)] \in UI
    BY <2>1, <1>4 DEF UI
  <2> QED BY <2>2 DEF Reconcile, n
<1> QED BY <1>3, <1>6, <1>7, <1>8, <1>9

\* The unit of an appended prompt keeps the type of the rendered units.
LEMMA UserUnitType ==
  ASSUME NEW u \in UI, NEW p \in Prompts, NEW l \in Seq(Entry)
  PROVE  UserUnit(u, p, l) \in UI
<1>1. SubSeq(l, 1, Len(l) - 1) \in Seq(Entry)
  OBVIOUS
<1>2. OpenUnit(u, "user", SubSeq(l, 1, Len(l) - 1)) \in UI
  BY <1>1, UiType
<1> QED BY <1>2, UiType DEF UserUnit

\* Taking a prefix of the queue leaves a queue.
LEMMA DropType ==
  ASSUME NEW S, NEW q \in Seq(S), NEW n \in 0..Len(q)
  PROVE  Drop(q, n) \in Seq(S)
  BY DEF Drop

\* serviceForks leaves a queue of events and answers only forks.
LEMMA ServiceForksType ==
  ASSUME TypeOK, ServiceForks
  PROVE  queue' \in Seq(Events) /\ answered' \in SUBSET Forks
<1>1. queue \in Seq(Events) /\ answered \in SUBSET Forks
  BY DEF TypeOK, InboxOK, ToldOK
<1>2. PICK n \in 0..Len(queue) :
        /\ ForkPrefix(queue, n)
        /\ queue' = Drop(queue, n)
        /\ answered' = answered \cup {queue[i] : i \in 1..n}
  BY DEF ServiceForks
<1>3. {queue[i] : i \in 1..n} \subseteq Forks
  BY <1>2 DEF ForkPrefix
<1>4. Drop(queue, n) \in Seq(Events)
  BY <1>1, DropType
<1> QED BY <1>1, <1>2, <1>3, <1>4

\* The locals of driveOneRound and its goroutines have their types when it
\* returns.
LEMMA ForgetRoundType ==
  ASSUME ForgetRound
  PROVE  /\ rnd' \in Round /\ rounds' \in Nat
         /\ ProviderOK'
         /\ exec' \in [Calls -> {"idle", "running", "ok", "error", "silent"}]
         /\ folded' \in [Calls -> {"none", "running", "ok", "error"}]
<1>1. rnd' \in Round /\ rounds' \in Nat
  BY DEF ForgetRound, NoRound, Round
<1>4. Nothing \in [text : BOOLEAN, ready : SUBSET Calls]
  BY DEF Nothing
<1>5. <<>> \in Seq(BusEvent)
  OBVIOUS
<1>2. ProviderOK'
  BY <1>4, <1>5 DEF ForgetRound, ProviderOK
<1>3. /\ exec' \in [Calls -> {"idle", "running", "ok", "error", "silent"}]
      /\ folded' \in [Calls -> {"none", "running", "ok", "error"}]
  BY DEF ForgetRound, AllIdle, NoneSeen
<1> QED BY <1>1, <1>2, <1>3

\* The end of a turn restores every type, if the unit it leaves has its own.
LEMMA FinishType ==
  ASSUME TypeOK, NEW u \in UI, Finish(u), interrupted' \in BOOLEAN
  PROVE  /\ rnd' \in Round /\ rounds' \in Nat
         /\ ProviderOK'
         /\ exec' \in [Calls -> {"idle", "running", "ok", "error", "silent"}]
         /\ folded' \in [Calls -> {"none", "running", "ok", "error"}]
         /\ pc' = "recv" /\ ui' \in UI
         /\ CtxsOK'
         /\ done' \in {"none", "idle", "busy"}
<1>1. ForgetRound /\ pc' = "recv" /\ ui' = u
  BY DEF Finish
<1>2. CtxsOK'
  BY DEF Finish, TypeOK, CtxsOK
<1>3. done' \in {"none", "idle", "busy"}
  BY DEF Finish
<1> QED BY <1>1, <1>2, <1>3, ForgetRoundType

\* The same for a whole step that ends the turn.
LEMMA EndType ==
  ASSUME TypeOK, NEW u \in UI, Finish(u),
         InboxOK', log' \in Seq(Entry), turn' \in Turn, budget' \in Limits,
         interrupted' \in BOOLEAN, answered' \in SUBSET Forks,
         UNCHANGED <<held, readyQ, asked, rejected, torn>>
  PROVE  TypeOK'
<1>1. HeldOK'
  BY FinishType DEF TypeOK, HeldOK, held, Locations
<1>2. ToolsOK'
  BY FinishType DEF TypeOK, ToolsOK
<1>3. AskedOK' /\ ToldOK'
  BY FinishType DEF TypeOK, AskedOK, ToldOK, asked
<1> QED BY <1>1, <1>2, <1>3, FinishType DEF TypeOK

\* A round starts with an empty bus and idle tools of their types.
LEMMA StartProviderType ==
  ASSUME TypeOK, StartProvider
  PROVE  /\ turn' \in Turn /\ rnd' \in Round /\ rounds' \in Nat
         /\ ProviderOK' /\ ToolsOK' /\ pc' = "stream"
<1>1. turn' \in Turn
  BY DEF TypeOK, StartProvider, NewTurn, NoTurn, Turn
<1>2. rnd' \in Round /\ rounds' \in Nat
  BY DEF TypeOK, StartProvider, NoRound, Round
<1>3. Nothing \in [text : BOOLEAN, ready : SUBSET Calls]
  BY DEF Nothing
<1>4. <<>> \in Seq(BusEvent)
  OBVIOUS
<1>5. ProviderOK'
  BY <1>3, <1>4 DEF StartProvider, ProviderOK
<1>6. ToolsOK'
  BY DEF StartProvider, ToolsOK, AllIdle, NoneSeen
<1> QED BY <1>1, <1>2, <1>5, <1>6 DEF StartProvider

\* The prompts taken from the queue are prompts.
LEMMA TakeReadyType ==
  ASSUME TypeOK, NEW q \in Seq(Events), NEW n \in 0..Len(q), TakeReadyUserPrompts(q, n)
  PROVE  /\ queue' \in Seq(Events) /\ wake' \in BOOLEAN
         /\ \A i \in 1..n : q[i] \in Prompts
<1>1. queue' \in Seq(Events)
  BY DropType DEF TakeReadyUserPrompts
<1>2. wake' \in BOOLEAN
  BY DEF TakeReadyUserPrompts, TypeOK, InboxOK
<1>3. \A i \in 1..n : q[i] \in Prompts
  BY DEF TakeReadyUserPrompts, PromptPrefix
<1> QED BY <1>1, <1>2, <1>3

\* What sealTurn may yield, as the log and the budget of the next state.
LEMMA SealStepType ==
  ASSUME TypeOK, NEW s \in SealTurn(log, budget)
  PROVE  s.log \in Seq(Entry) /\ s.budget \in Limits
<1>1. s \in Outcome
  BY SealTurnType DEF TypeOK
<1> QED BY <1>1 DEF Outcome

\* An append of an entry to the log, as the log and the budget of the next state.
LEMMA AppendStepType ==
  ASSUME TypeOK, NEW e \in Entry, NEW w \in TryAppend(log, budget, e)
  PROVE  w.log \in Seq(Entry) /\ w.budget \in Limits
<1>1. w \in Outcome
  BY TryAppendType DEF TypeOK
<1> QED BY <1>1 DEF Outcome

\* Committing the provider's cache costs at most one strike.
LEMMA CommitCacheType ==
  ASSUME NEW ok \in BOOLEAN, NEW b \in Limits,
         NEW k \in (IF ok THEN CommitCache(b) ELSE {[ok |-> FALSE, budget |-> b]})
  PROVE  k.budget \in Limits /\ k.ok \in BOOLEAN
<1>1. CanStrike("fault", b) => Strike("fault", b) \in Limits
  BY DEF CanStrike, Strike, Limits, Disturbances
<1>2. k = [ok |-> TRUE, budget |-> b] \/ k = [ok |-> FALSE, budget |-> b]
      \/ (CanStrike("fault", b) /\ k = [ok |-> FALSE, budget |-> Strike("fault", b)])
  BY DEF CommitCache
<1>3. k.budget \in Limits
  BY <1>1, <1>2
<1>4. k.ok \in BOOLEAN
  <2>1. CASE k = [ok |-> TRUE, budget |-> b]
    BY <2>1
  <2>2. CASE k = [ok |-> FALSE, budget |-> b]
    BY <2>2
  <2>3. CASE k = [ok |-> FALSE, budget |-> Strike("fault", b)]
    BY <2>3
  <2> QED BY <1>2, <2>1, <2>2, <2>3
<1> QED BY <1>3, <1>4

\* A disturbance leaves a budget.
LEMMA SpendType ==
  ASSUME TypeOK, NEW d \in Disturbances, Spend(d)
  PROVE  budget' \in Limits
  BY DEF Spend, CanStrike, Strike, Limits, TypeOK

\* The state a new process starts from has every type, if its log does.
LEMMA ForgetType ==
  ASSUME TypeOK, Forget, log' \in Seq(Entry)
  PROVE  TypeOK'
<1>1. budget' \in Limits
  BY SpendType DEF Forget, Disturbances
<1>0. queue' \in Seq(Events) /\ cur' \in Seq(Prompts)
  BY EmptySeq DEF Forget
<1>2. InboxOK' /\ CtxsOK'
  BY <1>0 DEF Forget, InboxOK, CtxsOK
<1>7. AskedOK' /\ ToldOK'
  BY DEF Forget, TypeOK, AskedOK, ToldOK, asked, told
<1>3. HeldOK'
  BY <1>0 DEF Forget, HeldOK, Locations
<1>4. turn' \in Turn
  BY DEF Forget, NoTurn, Turn
<1>5. ui' \in UI
  BY DEF Forget, NoUnit, Unit, UI
<1>6. ToolsOK'
  BY ForgetRoundType DEF Forget, ToolsOK
<1> QED BY <1>1, <1>2, <1>3, <1>4, <1>5, <1>6, <1>7, ForgetRoundType DEF Forget, TypeOK

\* Every step keeps the types.
LEMMA TypeNext == TypeOK /\ [Next]_vars => TypeOK'
<1> SUFFICES ASSUME TypeOK, [Next]_vars PROVE TypeOK'
  OBVIOUS
<1>1. CASE UNCHANGED vars
  BY <1>1 DEF TypeOK, InboxOK, CtxsOK, HeldOK, ProviderOK, ToolsOK, AskedOK, ToldOK, vars, inbox, ctxs, held, provider, tools, asked, told
<1>2. ASSUME NEW e \in Events, Send(e) PROVE TypeOK'
  <2>1. InboxOK'
    <3>1. CASE closed
      BY <1>2, <3>1 DEF Send, TypeOK, InboxOK
    <3>2. CASE ~closed
      BY <1>2, <3>2 DEF Send, TypeOK, InboxOK
    <3> QED BY <3>1, <3>2
  <2>3. accepted' \in Seq(Events)
    <3>1. accepted' = accepted \/ accepted' = Append(accepted, e)
      BY <1>2 DEF Send
    <3>2. accepted \in Seq(Events)
      BY DEF TypeOK, AskedOK
    <3> QED BY <3>1, <3>2
  <2>2. sent' \in SUBSET Events
    BY <1>2 DEF Send, TypeOK, AskedOK
  <2> QED BY <1>2, <2>1, <2>2, <2>3 DEF Send, TypeOK, InboxOK, CtxsOK, HeldOK, ProviderOK, ToolsOK, AskedOK, ToldOK, vars, inbox, ctxs, held, provider, tools, asked, told
<1>3. CASE Interrupt
  BY <1>3
     DEF TypeOK, InboxOK, CtxsOK, HeldOK, ProviderOK, ToolsOK, AskedOK, ToldOK, vars, inbox, ctxs, held, provider, tools, asked, told, Interrupt, Spend, CanStrike, Strike, Limits, Disturbances
<1>4. CASE Kill
  BY <1>4
     DEF TypeOK, InboxOK, CtxsOK, HeldOK, ProviderOK, ToolsOK, AskedOK, ToldOK, vars, inbox, ctxs, held, provider, tools, asked, told, Kill, Spend, CanStrike, Strike, Limits, Disturbances
<1>5. CASE CloseInbox
  BY <1>5
     DEF TypeOK, InboxOK, CtxsOK, HeldOK, ProviderOK, ToolsOK, AskedOK, ToldOK, vars, inbox, ctxs, held, provider, tools, asked, told, CloseInbox
<1>6. CASE RecvPrompt
  <2>1. queue' \in Seq(Events) /\ cur' \in Seq(Prompts) /\ cur' # <<>>
    BY <1>6 DEF RecvPrompt, TypeOK, InboxOK, Events
  <2>2. InboxOK'
    BY <1>6, <2>1 DEF RecvPrompt, TypeOK, InboxOK
  <2>3. CtxsOK'
    BY <1>6 DEF RecvPrompt, TypeOK, CtxsOK
  <2>4. HeldOK'
    BY <1>6, <2>1 DEF RecvPrompt, TypeOK, HeldOK, Locations
  <2> QED BY <1>6, <2>2, <2>3, <2>4 DEF RecvPrompt, TypeOK, InboxOK, CtxsOK, HeldOK, ProviderOK, ToolsOK, AskedOK, ToldOK, vars, inbox, ctxs, held, provider, tools, asked, told
<1>7. CASE RecvSet
  BY <1>7, EntryType
     DEF TypeOK, InboxOK, CtxsOK, HeldOK, ProviderOK, ToolsOK, AskedOK, ToldOK, vars, inbox, ctxs, held, provider, tools, asked, told, RecvSet, Events
<1>8. CASE RecvFork
  BY <1>8
     DEF TypeOK, InboxOK, CtxsOK, HeldOK, ProviderOK, ToolsOK, AskedOK, ToldOK, vars, inbox, ctxs, held, provider, tools, asked, told, RecvFork, Events
<1>9. CASE RecvClosed
  BY <1>9
     DEF TypeOK, InboxOK, CtxsOK, HeldOK, ProviderOK, ToolsOK, AskedOK, ToldOK, vars, inbox, ctxs, held, provider, tools, asked, told, RecvClosed, Locations
<1>10. CASE BeginTurn
  <2>0. PICK r \in RepairInterruptedTail(log, budget) :
          \E w \in TryAppend(r.log, r.budget, PromptEntry(Head(cur))) : BeginWith(r, w)
    BY <1>10 DEF BeginTurn
  <2>1. PICK w \in TryAppend(r.log, r.budget, PromptEntry(Head(cur))) : BeginWith(r, w)
    BY <2>0
  <2>2. Head(cur) \in Prompts
    BY <1>10 DEF BeginTurn, TypeOK, HeldOK
  <2>3. r \in Outcome
    BY RepairType DEF TypeOK
  <2>4. w \in Outcome
    <3>1. r.log \in Seq(Entry) /\ r.budget \in Limits
      BY <2>3 DEF Outcome
    <3> QED BY <3>1, <2>2, TryAppendType, EntryType
  <2>5. w.log \in Seq(Entry) /\ w.budget \in Limits
    BY <2>4 DEF Outcome
  <2>6. torn' \in BOOLEAN
    BY <2>1, <2>3, <2>4 DEF BeginWith, Outcome, TypeOK, ToldOK
  <2>7. cur' \in Seq(Prompts) /\ split' = split /\ UNCHANGED <<inbox, readyQ, asked, answered>>
    BY <1>10, <2>1 DEF BeginTurn, BeginWith
  <2>8. CASE w.ok
    <3>1. ui' \in UI
      BY <2>1, <2>2, <2>5, <2>8, UserUnitType, UiType DEF BeginWith, TypeOK
    <3>2. turn' \in Turn
      BY <2>1, <2>8 DEF BeginWith, NewTurn, NoTurn, Turn
    <3> QED BY <2>1, <2>5, <2>6, <2>7, <2>8, <3>1, <3>2 DEF BeginWith, TypeOK, InboxOK, CtxsOK, HeldOK, ProviderOK, ToolsOK, AskedOK, ToldOK, vars, inbox, ctxs, held, provider, tools, asked, told, Locations
  <2>9. CASE ~w.ok
    <3>1. Finish(CommitUnit(ui)) /\ interrupted' \in BOOLEAN /\ CommitUnit(ui) \in UI
      BY <2>1, <2>9, UiType DEF BeginWith, TypeOK, CtxsOK
    <3>2. rejected' \in SUBSET Prompts /\ turn' \in Turn
      BY <2>1, <2>2, <2>9 DEF BeginWith, TypeOK, ToldOK
    <3>3. ToolsOK' /\ AskedOK' /\ InboxOK'
      BY <2>7, <3>1, FinishType DEF TypeOK, ToolsOK, AskedOK, InboxOK, vars, inbox, ctxs, held, provider, tools, asked, told
    <3> QED BY <2>1, <2>5, <2>6, <2>7, <3>1, <3>2, <3>3, FinishType DEF BeginWith, TypeOK, HeldOK, ToldOK, Locations
  <2> QED BY <2>8, <2>9
<1>11. CASE FirstRound
  <2>1. ServiceForks /\ StartProvider
    BY <1>11 DEF FirstRound
  <2>2. InboxOK' /\ ToldOK'
    BY <1>11, <2>1, ServiceForksType DEF FirstRound, TypeOK, InboxOK, ToldOK
  <2>3. HeldOK' /\ AskedOK' /\ CtxsOK'
    BY <1>11, <2>1, StartProviderType DEF FirstRound, TypeOK, HeldOK, AskedOK, CtxsOK, Locations, ctxs, held, asked
  <2> QED BY <1>11, <2>1, <2>2, <2>3, StartProviderType DEF FirstRound, TypeOK
<1>12. CASE NextRound
  <2>1. StartProvider
    BY <1>12 DEF NextRound
  <2>2. PICK n \in 0..Len(queue) :
          /\ ForkPrefix(queue, n)
          /\ answered' = answered \cup {queue[i] : i \in 1..n}
          /\ TakeReadyUserPrompts(Drop(queue, n), 0)
    BY <1>12 DEF NextRound
  <2>3. Drop(queue, n) \in Seq(Events) /\ 0 \in 0..Len(Drop(queue, n))
    BY DropType DEF TypeOK, InboxOK, Drop
  <2>4. {queue[i] : i \in 1..n} \subseteq Forks
    BY <2>2 DEF ForkPrefix
  <2>5. InboxOK' /\ ToldOK'
    BY <1>12, <2>2, <2>3, <2>4, TakeReadyType DEF NextRound, TypeOK, InboxOK, ToldOK
  <2>6. HeldOK' /\ AskedOK' /\ CtxsOK'
    BY <1>12, <2>1, StartProviderType DEF NextRound, TypeOK, HeldOK, AskedOK, CtxsOK, Locations, ctxs, held, asked
  <2> QED BY <1>12, <2>1, <2>5, <2>6, StartProviderType DEF NextRound, TypeOK
<1>13. CASE SteerBeforeRound
  <2>1. PICK n \in 0..Len(queue), m \in 1..Len(queue) :
          /\ ForkPrefix(queue, n)
          /\ m <= Len(queue) - n
          /\ answered' = answered \cup {queue[i] : i \in 1..n}
          /\ TakeReadyUserPrompts(Drop(queue, n), m)
          /\ cur' = SubSeq(queue, n + 1, n + m)
          /\ split' = HasRenderablePrompt(cur')
          /\ ui' = IF ~split' THEN ui
                   ELSE IF ComposeEmpty(ui, log) THEN AbandonUnit(ui) ELSE CommitUnit(ui)
    BY <1>13 DEF SteerBeforeRound
  <2>2. queue \in Seq(Events)
    BY DEF TypeOK, InboxOK
  <2>3. Drop(queue, n) \in Seq(Events) /\ m \in 0..Len(Drop(queue, n))
    BY <2>1, <2>2, DropType DEF Drop
  <2>4. {queue[i] : i \in 1..n} \subseteq Forks
    BY <2>1 DEF ForkPrefix
  <2>5. InboxOK' /\ ToldOK'
    BY <1>13, <2>1, <2>3, <2>4, TakeReadyType DEF SteerBeforeRound, TypeOK, InboxOK, ToldOK
  <2>6. \A i \in 1..m : Drop(queue, n)[i] \in Prompts
    BY <2>1, <2>3, TakeReadyType
  <2>7. cur' \in Seq(Prompts) /\ cur' # <<>>
    <3>1. \A i \in (n + 1)..(n + m) : queue[i] = Drop(queue, n)[i - n] /\ i - n \in 1..m
      BY <2>1, <2>2 DEF Drop
    <3>2. \A i \in (n + 1)..(n + m) : queue[i] \in Prompts
      BY <2>6, <3>1
    <3>3. n + 1 \in Int /\ n + m \in Int /\ m > 0
      BY <2>1
    <3>4. SubSeq(queue, n + 1, n + m) \in Seq(Prompts) /\ Len(SubSeq(queue, n + 1, n + m)) = m
      BY <3>2, <3>3, SubSeqProperties
    <3>5. cur' = SubSeq(queue, n + 1, n + m)
      BY <2>1
    <3>6. cur' \in Seq(Prompts) /\ Len(cur') = m
      BY <3>4, <3>5
    <3> QED BY <3>3, <3>6
  <2>8. split' \in BOOLEAN
    BY <2>1 DEF HasRenderablePrompt
  <2>9. ui' \in UI
    BY <2>1, UiType DEF TypeOK
  <2>10. HeldOK' /\ AskedOK' /\ CtxsOK'
    BY <1>13, <2>7, <2>8 DEF SteerBeforeRound, TypeOK, HeldOK, AskedOK, CtxsOK, Locations, ctxs, asked
  <2>11. ProviderOK' /\ ToolsOK'
    BY <1>13 DEF SteerBeforeRound, TypeOK, ProviderOK, ToolsOK, provider, tools
  <2> QED BY <1>13, <2>5, <2>9, <2>10, <2>11 DEF SteerBeforeRound, TypeOK
<1>14. CASE SteerAfterTools
  <2>1. PICK m \in 0..Len(queue) :
          /\ TakeReadyUserPrompts(queue, m)
          /\ cur' = SubSeq(queue, 1, m)
          /\ split' = HasRenderablePrompt(cur')
          /\ ui' = IF split' THEN CommitUnit(EmitDelta(ui, log)) ELSE EmitDelta(ui, log)
          /\ pc' = IF m = 0 THEN "round" ELSE "append"
    BY <1>14 DEF SteerAfterTools
  <2>2. queue \in Seq(Events)
    BY DEF TypeOK, InboxOK
  <2>3. InboxOK' /\ \A i \in 1..m : queue[i] \in Prompts
    BY <1>14, <2>1, <2>2, TakeReadyType DEF SteerAfterTools, TypeOK, InboxOK
  <2>4. cur' \in Seq(Prompts) /\ (m # 0 => cur' # <<>>)
    <3>1. m \in Int /\ m >= 0
      BY <2>1
    <3>2. SubSeq(queue, 1, m) \in Seq(Prompts) /\ Len(SubSeq(queue, 1, m)) = m
      BY <2>3, <3>1, SubSeqProperties
    <3> QED BY <2>1, <3>2
  <2>5. split' \in BOOLEAN
    BY <2>1 DEF HasRenderablePrompt
  <2>6. ui' \in UI
    BY <2>1, UiType DEF TypeOK
  <2>7. HeldOK' /\ AskedOK' /\ CtxsOK'
    BY <1>14, <2>1, <2>4, <2>5 DEF SteerAfterTools, TypeOK, HeldOK, AskedOK, CtxsOK, Locations, ctxs, asked
  <2>8. ProviderOK' /\ ToolsOK' /\ ToldOK'
    BY <1>14 DEF SteerAfterTools, TypeOK, ProviderOK, ToolsOK, ToldOK, provider, tools, told
  <2> QED BY <1>14, <2>3, <2>6, <2>7, <2>8 DEF SteerAfterTools, TypeOK
<1>15. CASE AppendSteering
  <2>1. PICK w \in TryAppend(log, budget, PromptEntry(Head(cur))) : SteerWith(w)
    BY <1>15 DEF AppendSteering
  <2>2. cur \in Seq(Prompts) /\ cur # <<>>
    BY <1>15 DEF AppendSteering, TypeOK, HeldOK
  <2>3. Head(cur) \in Prompts /\ Tail(cur) \in Seq(Prompts)
    BY <2>2
  <2>4. w.log \in Seq(Entry) /\ w.budget \in Limits
    BY <2>3, EntryType, AppendStepType
  <2>5. CASE w.ok
    <3>1. UserUnit(ui, Head(cur), w.log) \in UI
      BY <2>3, <2>4, UserUnitType DEF TypeOK
    <3>2. ui' \in UI
      BY <2>1, <2>4, <2>5, <3>1, UiType DEF SteerWith
    <3>3. turn' \in Turn
      BY <2>1, <2>5 DEF SteerWith, TypeOK, NewTurn, NoTurn, Turn
    <3>4. HeldOK'
      <4>1. pc' = "append" => Len(cur) # 1
        BY <2>1, <2>5 DEF SteerWith
      <4>2. Len(cur) # 1 => Tail(cur) # <<>>
        <5>1. Len(cur) \in Nat \ {0} /\ Len(Tail(cur)) = Len(cur) - 1
          BY <2>2, HeadTailProperties, EmptySeq
        <5>2. Len(cur) # 1 => Len(Tail(cur)) # 0
          BY <5>1
        <5> QED BY <5>2, EmptySeq
      <4>3. cur' = Tail(cur) /\ pc' \in {"round", "append"} /\ split' = split
        BY <1>15, <2>1, <2>5 DEF SteerWith, AppendSteering
      <4> QED BY <2>3, <4>1, <4>2, <4>3 DEF TypeOK, HeldOK, Locations
    <3> QED BY <1>15, <2>1, <2>4, <2>5, <3>2, <3>3, <3>4 DEF SteerWith, AppendSteering, TypeOK, InboxOK, CtxsOK, HeldOK, ProviderOK, ToolsOK, AskedOK, ToldOK, vars, inbox, ctxs, held, provider, tools, asked, told
  <2>6. CASE ~w.ok
    <3>1. /\ Finish(CommitUnit(ui)) /\ interrupted' = interrupted /\ turn' = turn
          /\ Prepend(cur) /\ cur' = <<>> /\ log' = w.log /\ budget' = w.budget
      BY <2>1, <2>6 DEF SteerWith
    <3>2. CommitUnit(ui) \in UI
      BY UiType DEF TypeOK
    <3>3. cur \o queue \in Seq(Events)
      BY <2>2 DEF TypeOK, InboxOK, Events
    <3>4. InboxOK'
      BY <1>15, <3>1, <3>3 DEF AppendSteering, Prepend, TypeOK, InboxOK
    <3>5. interrupted' \in BOOLEAN
      BY <3>1 DEF TypeOK, CtxsOK
    <3>6. HeldOK' /\ ToolsOK' /\ AskedOK' /\ ToldOK'
      BY <1>15, <3>1, <3>2, <3>5, FinishType DEF AppendSteering, TypeOK, HeldOK, ToolsOK, AskedOK, ToldOK, Locations, asked
    <3> QED BY <2>4, <3>1, <3>2, <3>4, <3>5, <3>6, FinishType DEF TypeOK
  <2> QED BY <2>5, <2>6
<1>16. CASE PushDelta
  <2>1. bus' \in Seq(BusEvent)
    BY <1>16 DEF PushDelta, Push, BusEvent, TypeOK, ProviderOK
  <2>2. streamed' \in [text : BOOLEAN, ready : SUBSET Calls]
    BY <1>16 DEF PushDelta, TypeOK, ProviderOK
  <2>3. ProviderOK'
    BY <1>16, <2>1, <2>2 DEF PushDelta, TypeOK, ProviderOK
  <2>4. InboxOK' /\ CtxsOK' /\ HeldOK'
    BY <1>16 DEF PushDelta, TypeOK, InboxOK, CtxsOK, HeldOK, inbox, ctxs, held
  <2>5. ToolsOK' /\ AskedOK' /\ ToldOK'
    BY <1>16 DEF PushDelta, TypeOK, ToolsOK, AskedOK, ToldOK, tools, asked, told
  <2> QED BY <1>16, <2>3, <2>4, <2>5 DEF PushDelta, TypeOK
<1>17. ASSUME NEW c \in Calls, PushToolReady(c) PROVE TypeOK'
  <2>1. bus' \in Seq(BusEvent)
    BY <1>17 DEF PushToolReady, Push, BusEvent, TypeOK, ProviderOK
  <2>2. streamed' \in [text : BOOLEAN, ready : SUBSET Calls]
    BY <1>17 DEF PushToolReady, TypeOK, ProviderOK
  <2>3. ProviderOK'
    BY <1>17, <2>1, <2>2 DEF PushToolReady, TypeOK, ProviderOK
  <2>4. ToolsOK'
    BY <1>17 DEF PushToolReady, TypeOK, ToolsOK
  <2> QED BY <1>17, <2>3, <2>4 DEF PushToolReady, TypeOK, InboxOK, CtxsOK, HeldOK, AskedOK, ToldOK, vars, inbox, ctxs, held, provider, tools, asked, told
<1>18. CASE PushFigaro
  <2>1. PICK bad \in SUBSET Malformed : Push("figaro", streamed.text, streamed.ready \cup bad)
    BY <1>18 DEF PushFigaro
  <2>2. bad \subseteq Calls
    BY TranscriptAssumption
  <2>3. streamed.text \in BOOLEAN /\ streamed.ready \cup bad \in SUBSET Calls
    BY <2>2 DEF TypeOK, ProviderOK
  <2>4. [kind |-> "figaro", text |-> streamed.text, calls |-> streamed.ready \cup bad] \in BusEvent
    BY <2>3 DEF BusEvent
  <2>5. bus' \in Seq(BusEvent)
    BY <2>1, <2>4 DEF Push, TypeOK, ProviderOK
  <2>6. ProviderOK'
    BY <1>18, <2>5 DEF PushFigaro, TypeOK, ProviderOK
  <2> QED BY <1>18, <2>6 DEF PushFigaro, TypeOK, InboxOK, CtxsOK, HeldOK, ProviderOK, ToolsOK, AskedOK, ToldOK, vars, inbox, ctxs, held, provider, tools, asked, told
<1>19. CASE ProviderReturn
  <2>1. sendErr' \in BOOLEAN
    BY <1>19 DEF ProviderReturn
  <2>2. ProviderOK'
    BY <1>19, <2>1 DEF ProviderReturn, TypeOK, ProviderOK
  <2> QED BY <1>19, <2>2 DEF ProviderReturn, TypeOK, InboxOK, CtxsOK, HeldOK, ProviderOK, ToolsOK, AskedOK, ToldOK, vars, inbox, ctxs, held, provider, tools, asked, told
<1>20. ASSUME NEW c \in Calls, SpecDispatch(c) PROVE TypeOK'
  <2>1. ToolsOK'
    BY <1>20 DEF SpecDispatch, Dispatch, TypeOK, ToolsOK
  <2> QED BY <1>20, <2>1 DEF SpecDispatch, TypeOK, InboxOK, CtxsOK, HeldOK, ProviderOK, ToolsOK, AskedOK, ToldOK, vars, inbox, ctxs, held, provider, tools, asked, told
<1>21. ASSUME NEW c \in Calls, ToolEnd(c) PROVE TypeOK'
  <2>1. ToolsOK'
    BY <1>21 DEF ToolEnd, TypeOK, ToolsOK
  <2> QED BY <1>21, <2>1 DEF ToolEnd, TypeOK, InboxOK, CtxsOK, HeldOK, ProviderOK, ToolsOK, AskedOK, ToldOK, vars, inbox, ctxs, held, provider, tools, asked, told
<1>22. CASE ForkWhileStreaming
  <2>1. InboxOK' /\ ToldOK'
    BY <1>22, ServiceForksType DEF ForkWhileStreaming, TypeOK, InboxOK, ToldOK
  <2> QED BY <1>22, <2>1 DEF ForkWhileStreaming, TypeOK, CtxsOK, HeldOK, ProviderOK, ToolsOK, AskedOK, vars, inbox, ctxs, held, provider, tools, asked, told
<1>23. CASE ForkWhileWaiting
  <2>1. InboxOK' /\ ToldOK'
    BY <1>23, ServiceForksType DEF ForkWhileWaiting, TypeOK, InboxOK, ToldOK
  <2> QED BY <1>23, <2>1 DEF ForkWhileWaiting, TypeOK, CtxsOK, HeldOK, ProviderOK, ToolsOK, AskedOK, vars, inbox, ctxs, held, provider, tools, asked, told
<1>24. CASE ForkWhileCollecting
  <2>1. InboxOK' /\ ToldOK'
    BY <1>24, ServiceForksType DEF ForkWhileCollecting, TypeOK, InboxOK, ToldOK
  <2> QED BY <1>24, <2>1 DEF ForkWhileCollecting, TypeOK, CtxsOK, HeldOK, ProviderOK, ToolsOK, AskedOK, vars, inbox, ctxs, held, provider, tools, asked, told
<1>25. CASE FoldStream
  <2>1. bus \in Seq(BusEvent) /\ bus # <<>>
    BY <1>25 DEF FoldStream, TypeOK, ProviderOK
  <2>2. Head(bus) \in BusEvent /\ bus' \in Seq(BusEvent)
    BY <1>25, <2>1 DEF FoldStream
  <2>3. turn' \in Turn
    <3>1. Head(bus).text \in BOOLEAN /\ Head(bus).calls \in SUBSET Calls
      BY <2>2 DEF BusEvent
    <3> QED BY <1>25, <3>1 DEF FoldStream, TypeOK, Turn
  <2>4. ProviderOK'
    BY <1>25, <2>2 DEF FoldStream, TypeOK, ProviderOK
  <2> QED BY <1>25, <2>3, <2>4 DEF FoldStream, TypeOK, InboxOK, CtxsOK, HeldOK, ProviderOK, ToolsOK, AskedOK, ToldOK, vars, inbox, ctxs, held, provider, tools, asked, told
<1>26. ASSUME NEW c \in Calls, FoldTool(c) PROVE TypeOK'
  <2>1. ToolsOK'
    BY <1>26 DEF FoldTool, TypeOK, ToolsOK
  <2> QED BY <1>26, <2>1 DEF FoldTool, TypeOK, InboxOK, CtxsOK, HeldOK, ProviderOK, ToolsOK, AskedOK, ToldOK, vars, inbox, ctxs, held, provider, tools, asked, told
<1>27. CASE SealAssistant
  <2> DEFINE m == Head(bus)
  <2>1. bus \in Seq(BusEvent) /\ bus # <<>>
    BY <1>27 DEF SealAssistant, TypeOK, ProviderOK
  <2>2. m \in BusEvent /\ bus' \in Seq(BusEvent)
    BY <1>27, <2>1 DEF SealAssistant
  <2>3. m.text \in BOOLEAN /\ m.calls \in SUBSET Calls
    BY <2>2 DEF BusEvent
  <2>4. PICK w \in TryAppend(log, budget, AssistantEntry(m.text, m.calls)) :
          \E k \in (IF w.ok THEN CommitCache(w.budget) ELSE {[ok |-> FALSE, budget |-> w.budget]}) :
            SealWith(m, w, k)
    BY <1>27 DEF SealAssistant
  <2>5. PICK k \in (IF w.ok THEN CommitCache(w.budget) ELSE {[ok |-> FALSE, budget |-> w.budget]}) :
          SealWith(m, w, k)
    BY <2>4
  <2>6. w \in Outcome
    BY <2>3, EntryType, TryAppendType DEF TypeOK
  <2>7. w.log \in Seq(Entry) /\ w.budget \in Limits /\ w.ok \in BOOLEAN
    BY <2>6 DEF Outcome
  <2>8. k.budget \in Limits /\ k.ok \in BOOLEAN
    BY <2>5, <2>7, CommitCacheType
  <2> HIDE DEF m
  <2>9. turn' \in Turn
    <3>1. turn \in Turn
      BY DEF TypeOK
    <3>2. turn' = NoTurn \/ turn' = [turn EXCEPT !.text = m.text, !.tools = m.calls \ Malformed, !.committed = w.ok]
      BY <2>5 DEF SealWith
    <3>3. [turn EXCEPT !.text = m.text, !.tools = m.calls \ Malformed, !.committed = w.ok] \in Turn
      BY <2>3, <2>7, <3>1 DEF Turn
    <3>4. NoTurn \in Turn
      BY DEF NoTurn, Turn
    <3> QED BY <3>2, <3>3, <3>4
  <2>10. rnd' \in Round
    BY <2>3, <2>5, <2>8 DEF SealWith, Round
  <2>11. CtxsOK'
    BY <1>27, <2>5 DEF SealAssistant, SealWith, TypeOK, CtxsOK
  <2>12. ProviderOK'
    BY <1>27, <2>2 DEF SealAssistant, TypeOK, ProviderOK
  <2>13. log' \in Seq(Entry) /\ budget' \in Limits
    BY <2>5, <2>7, <2>8 DEF SealWith
  <2>14. HeldOK'
    BY <1>27 DEF SealAssistant, TypeOK, HeldOK, held, Locations
  <2> QED BY <1>27, <2>9, <2>10, <2>11, <2>12, <2>13, <2>14 DEF SealAssistant, TypeOK, InboxOK, ToolsOK, AskedOK, ToldOK, vars, inbox, ctxs, held, provider, tools, asked, told
<1>28. CASE AckAssistant
  <2>1. ui' \in UI
    BY <1>28, UiType DEF AckAssistant, TypeOK
  <2>2. HeldOK' /\ ProviderOK'
    BY <1>28 DEF AckAssistant, TypeOK, HeldOK, ProviderOK, Locations, held
  <2> QED BY <1>28, <2>1, <2>2 DEF AckAssistant, TypeOK, InboxOK, CtxsOK, ToolsOK, AskedOK, ToldOK, vars, inbox, ctxs, held, provider, tools, asked, told
<1>29. CASE RefuseAssistant
  <2>1. ProviderOK'
    BY <1>29 DEF RefuseAssistant, TypeOK, ProviderOK
  <2> QED BY <1>29, <2>1 DEF RefuseAssistant, TypeOK, InboxOK, CtxsOK, HeldOK, ProviderOK, ToolsOK, AskedOK, ToldOK, vars, inbox, ctxs, held, provider, tools, asked, told
<1>30. CASE StopInterrupted
  <2>1. PICK s \in SealTurn(log, budget) :
          /\ log' = s.log /\ budget' = s.budget
          /\ IF s.ok
             THEN /\ ServiceForks
                  /\ Finish(CommitUnit(IF s.wrote THEN EmitDelta(ui, s.log) ELSE ui))
             ELSE /\ UNCHANGED <<queue, answered>>
                  /\ Finish(Reconcile(ui, s.log))
    BY <1>30 DEF StopInterrupted
  <2>2. s.log \in Seq(Entry) /\ s.budget \in Limits
    BY SealStepType
  <2>3. /\ CommitUnit(IF s.wrote THEN EmitDelta(ui, s.log) ELSE ui) \in UI
        /\ Reconcile(ui, s.log) \in UI
    BY <2>2, UiType DEF TypeOK
  <2>4. InboxOK' /\ answered' \in SUBSET Forks
    BY <1>30, <2>1, ServiceForksType DEF StopInterrupted, TypeOK, InboxOK, ToldOK
  <2>5. PICK u \in UI : Finish(u)
    BY <2>1, <2>3
  <2>6. interrupted' \in BOOLEAN /\ turn' \in Turn
    BY <1>30 DEF StopInterrupted, TypeOK, CtxsOK, NoTurn, Turn
  <2> QED BY <1>30, <2>1, <2>2, <2>4, <2>5, <2>6, EndType DEF StopInterrupted
<1>31. CASE StopSendError
  <2>0. PICK s \in SealTurn(log, budget) :
          /\ log' = s.log /\ budget' = s.budget
          /\ LET u == IF s.wrote THEN EmitDelta(ui, s.log)
                      ELSE IF ~s.ok THEN Reconcile(ui, s.log)
                      ELSE IF rnd.sealed THEN EmitDelta(ui, log) ELSE ui
             IN Finish(IF ~turn.on /\ ~rnd.sealed THEN AbandonUnit(ui)
                       ELSE IF s.ok THEN CommitUnit(u) ELSE u)
    BY <1>31 DEF StopSendError
  <2> DEFINE u == IF s.wrote THEN EmitDelta(ui, s.log)
                  ELSE IF ~s.ok THEN Reconcile(ui, s.log)
                  ELSE IF rnd.sealed THEN EmitDelta(ui, log) ELSE ui
             v == IF ~turn.on /\ ~rnd.sealed THEN AbandonUnit(ui)
                  ELSE IF s.ok THEN CommitUnit(u) ELSE u
  <2>1. log' = s.log /\ budget' = s.budget /\ Finish(v)
    BY <2>0
  <2>2. s.log \in Seq(Entry) /\ s.budget \in Limits
    BY SealStepType
  <2>3. u \in UI
    BY <2>2, UiType DEF TypeOK
  <2> HIDE DEF u
  <2>4. v \in UI
    BY <2>3, UiType DEF TypeOK
  <2> HIDE DEF v
  <2>5. InboxOK' /\ answered' \in SUBSET Forks
    BY <1>31, ServiceForksType DEF StopSendError, TypeOK, InboxOK, ToldOK
  <2>6. interrupted' \in BOOLEAN /\ turn' \in Turn
    BY <1>31 DEF StopSendError, TypeOK, CtxsOK, NoTurn, Turn
  <2> QED BY <1>31, <2>1, <2>2, <2>4, <2>5, <2>6, EndType DEF StopSendError
<1>32. CASE LeaveStream
  <2>1. InboxOK' /\ ToldOK'
    BY <1>32, ServiceForksType DEF LeaveStream, TypeOK, InboxOK, ToldOK
  <2>2. turn' \in Turn
    BY <1>32 DEF LeaveStream, TypeOK, NoTurn, Turn
  <2>3. ui' \in UI
    BY <1>32, UiType DEF LeaveStream, TypeOK
  <2>4. HeldOK'
    BY <1>32 DEF LeaveStream, TypeOK, HeldOK, held, Locations
  <2> QED BY <1>32, <2>1, <2>2, <2>3, <2>4 DEF LeaveStream, TypeOK, CtxsOK, ProviderOK, ToolsOK, AskedOK, vars, inbox, ctxs, held, provider, tools, asked, told
<1>33. CASE EndRoundError
  <2>1. PICK s \in SealTurn(log, budget) :
          /\ log' = s.log /\ budget' = s.budget
          /\ Finish((IF s.wrote THEN CommitUnit(EmitDelta(ui, s.log)) ELSE Reconcile(ui, s.log)))
    BY <1>33 DEF EndRoundError
  <2>2. s.log \in Seq(Entry) /\ s.budget \in Limits
    BY SealStepType
  <2>3. (IF s.wrote THEN CommitUnit(EmitDelta(ui, s.log)) ELSE Reconcile(ui, s.log)) \in UI
    BY <2>2, UiType DEF TypeOK
  <2>4. InboxOK' /\ answered' \in SUBSET Forks
    BY <1>33, ServiceForksType DEF EndRoundError, TypeOK, InboxOK, ToldOK
  <2>5. interrupted' \in BOOLEAN /\ turn' \in Turn
    BY <1>33 DEF EndRoundError, TypeOK, CtxsOK, NoTurn, Turn
  <2> QED BY <1>33, <2>1, <2>2, <2>3, <2>4, <2>5, EndType DEF EndRoundError
<1>34. CASE EndUnsealed
  <2>1. PICK w \in TryAppend(log, budget, AssistantEntry(FALSE, {})) :
          /\ log' = w.log /\ budget' = w.budget
          /\ IF w.ok THEN ServiceForks /\ Finish(CommitUnit(ui))
             ELSE UNCHANGED <<queue, answered>> /\ Finish(Reconcile(ui, w.log))
    BY <1>34 DEF EndUnsealed
  <2>2. w.log \in Seq(Entry) /\ w.budget \in Limits
    BY EntryType, AppendStepType
  <2>3. CommitUnit(ui) \in UI /\ Reconcile(ui, w.log) \in UI
    BY <2>2, UiType DEF TypeOK
  <2>4. InboxOK' /\ answered' \in SUBSET Forks
    BY <1>34, <2>1, ServiceForksType DEF EndUnsealed, TypeOK, InboxOK, ToldOK
  <2>5. PICK u \in UI : Finish(u)
    BY <2>1, <2>3
  <2>6. interrupted' \in BOOLEAN /\ turn' \in Turn
    BY <1>34 DEF EndUnsealed, TypeOK, CtxsOK, NoTurn, Turn
  <2> QED BY <1>34, <2>1, <2>2, <2>4, <2>5, <2>6, EndType DEF EndUnsealed
<1>35. CASE EndNoCalls
  <2>1. CommitUnit(ui) \in UI /\ Finish(CommitUnit(ui))
    BY <1>35, UiType DEF EndNoCalls, TypeOK
  <2>2. InboxOK' /\ answered' \in SUBSET Forks
    BY <1>35, ServiceForksType DEF EndNoCalls, TypeOK, InboxOK, ToldOK
  <2>3. interrupted' \in BOOLEAN /\ turn' \in Turn /\ log' \in Seq(Entry) /\ budget' \in Limits
    BY <1>35 DEF EndNoCalls, TypeOK, CtxsOK
  <2> QED BY <1>35, <2>1, <2>2, <2>3, EndType DEF EndNoCalls
<1>36. CASE BeginCollect
  <2>1. ToolsOK' /\ HeldOK'
    BY <1>36 DEF BeginCollect, Dispatch, TypeOK, ToolsOK, HeldOK, held, Locations
  <2> QED BY <1>36, <2>1 DEF BeginCollect, TypeOK, InboxOK, CtxsOK, ProviderOK, AskedOK, ToldOK, vars, inbox, ctxs, held, provider, tools, asked, told
<1>37. CASE EndCollect
  BY <1>37
     DEF TypeOK, InboxOK, CtxsOK, HeldOK, ProviderOK, ToolsOK, AskedOK, ToldOK, vars, inbox, ctxs, held, provider, tools, asked, told, EndCollect, Locations
<1>38. CASE RecordResults
  <2>1. PICK w \in TryAppend(log, budget, AssembledResults) :
          IF w.ok
          THEN /\ log' = w.log /\ budget' = w.budget
               /\ pc' = "steer"
               /\ UNCHANGED <<ctxs, rnd, rounds, provider, exec, folded, ui, done>>
          ELSE \E s \in SealTurn(w.log, w.budget) :
                 /\ log' = s.log /\ budget' = s.budget
                 /\ UNCHANGED <<queue, interrupted>>
                 /\ Finish(IF s.wrote THEN CommitUnit(EmitDelta(ui, s.log)) ELSE Reconcile(ui, s.log))
    BY <1>38 DEF RecordResults
  <2>2. AssembledResults \in Entry
    <3>1. [c \in Calls |-> IF folded[c] \in {"ok", "error"} THEN folded[c] ELSE "empty"] \in [Calls -> Outcomes]
      BY DEF Outcomes
    <3>2. rnd.calls \in SUBSET Calls
      BY DEF TypeOK, Round
    <3> QED BY <3>1, <3>2, EntryType DEF AssembledResults
  <2>3. w.log \in Seq(Entry) /\ w.budget \in Limits
    BY <2>2, AppendStepType
  <2>4. turn' \in Turn /\ InboxOK' /\ answered' \in SUBSET Forks
    BY <1>38 DEF RecordResults, NoTurn, Turn, TypeOK, InboxOK, ToldOK, inbox
  <2>5. CASE w.ok
    <3>1. HeldOK'
      BY <1>38, <2>1, <2>5 DEF RecordResults, TypeOK, HeldOK, held, Locations
    <3> QED BY <1>38, <2>1, <2>3, <2>4, <2>5, <3>1 DEF RecordResults, TypeOK, CtxsOK, ProviderOK, ToolsOK, AskedOK, ToldOK, vars, inbox, ctxs, held, provider, tools, asked, told
  <2>6. CASE ~w.ok
    <3>1. PICK s \in SealTurn(w.log, w.budget) :
            /\ log' = s.log /\ budget' = s.budget
            /\ UNCHANGED <<queue, interrupted>>
            /\ Finish(IF s.wrote THEN CommitUnit(EmitDelta(ui, s.log)) ELSE Reconcile(ui, s.log))
      BY <2>1, <2>6
    <3>2. s \in Outcome
      BY <2>3, SealTurnType
    <3>3. s.log \in Seq(Entry) /\ s.budget \in Limits
      BY <3>2 DEF Outcome
    <3>4. (IF s.wrote THEN CommitUnit(EmitDelta(ui, s.log)) ELSE Reconcile(ui, s.log)) \in UI
      BY <3>3, UiType DEF TypeOK
    <3>5. interrupted' \in BOOLEAN
      BY <3>1 DEF TypeOK, CtxsOK
    <3> QED BY <1>38, <2>4, <3>1, <3>3, <3>4, <3>5, EndType DEF RecordResults
  <2> QED BY <2>5, <2>6
<1>39. CASE RecordInterrupted
  <2>1. PICK s \in SealTurn(log, budget) :
          /\ log' = s.log /\ budget' = s.budget
          /\ Finish((IF ~s.ok THEN Reconcile(ui, s.log) ELSE CommitUnit(IF s.wrote THEN EmitDelta(ui, s.log) ELSE ui)))
    BY <1>39 DEF RecordInterrupted
  <2>2. s.log \in Seq(Entry) /\ s.budget \in Limits
    BY SealStepType
  <2>3. (IF ~s.ok THEN Reconcile(ui, s.log) ELSE CommitUnit(IF s.wrote THEN EmitDelta(ui, s.log) ELSE ui)) \in UI
    BY <2>2, UiType DEF TypeOK
  <2>4. InboxOK' /\ answered' \in SUBSET Forks
    BY <1>39 DEF RecordInterrupted, TypeOK, InboxOK, ToldOK
  <2>5. interrupted' \in BOOLEAN /\ turn' \in Turn
    BY <1>39 DEF RecordInterrupted, TypeOK, CtxsOK, NoTurn, Turn
  <2> QED BY <1>39, <2>1, <2>2, <2>3, <2>4, <2>5, EndType DEF RecordInterrupted
<1>40. CASE SteerInterrupted
  <2>1. CommitUnit(ui) \in UI /\ Finish(CommitUnit(ui))
    BY <1>40, UiType DEF SteerInterrupted, TypeOK
  <2>2. InboxOK' /\ answered' \in SUBSET Forks
    BY <1>40 DEF SteerInterrupted, TypeOK, InboxOK, ToldOK
  <2>3. interrupted' \in BOOLEAN /\ turn' \in Turn /\ log' \in Seq(Entry) /\ budget' \in Limits
    BY <1>40 DEF SteerInterrupted, TypeOK, CtxsOK
  <2> QED BY <1>40, <2>1, <2>2, <2>3, EndType DEF SteerInterrupted
<1>41. CASE Panic
  <2>0. cur' \in Seq(Prompts)
    BY <1>41, EmptySeq DEF Panic
  <2>1. HeldOK'
    BY <1>41, <2>0 DEF Panic, TypeOK, HeldOK, Locations
  <2>4. CtxsOK'
    BY <1>41 DEF Panic, TypeOK, CtxsOK
  <2>2. ProviderOK' /\ ToolsOK'
    BY <1>41 DEF Panic, TypeOK, ProviderOK, ToolsOK
  <2>3. budget' \in Limits
    BY <1>41, SpendType DEF Panic, Disturbances
  <2> QED BY <1>41, <2>1, <2>2, <2>3, <2>4 DEF Panic, TypeOK, InboxOK, AskedOK, ToldOK, vars, inbox, ctxs, held, provider, tools, asked, told
<1>42. CASE Recover
  <2> DEFINE l == IF Backed THEN log ELSE <<>>
  <2>1. PICK s \in SealTurn(l, budget) :
          \E r \in RepairInterruptedTail(s.log, s.budget) :
            /\ log' = r.log /\ budget' = r.budget
            /\ Finish(Reconcile(ui, r.log))
    BY <1>42 DEF Recover
  <2>2. PICK r \in RepairInterruptedTail(s.log, s.budget) :
          /\ log' = r.log /\ budget' = r.budget
          /\ Finish(Reconcile(ui, r.log))
    BY <2>1
  <2>3. l \in Seq(Entry) /\ budget \in Limits
    BY DEF TypeOK
  <2> HIDE DEF l
  <2>4. s \in Outcome
    BY <2>3, SealTurnType
  <2>5. s.log \in Seq(Entry) /\ s.budget \in Limits
    BY <2>4 DEF Outcome
  <2>6. r \in Outcome
    BY <2>5, RepairType
  <2>7. r.log \in Seq(Entry) /\ r.budget \in Limits
    BY <2>6 DEF Outcome
  <2>8. Reconcile(ui, r.log) \in UI
    BY <2>7, UiType DEF TypeOK
  <2>9. InboxOK' /\ answered' \in SUBSET Forks
    BY <1>42 DEF Recover, TypeOK, InboxOK, ToldOK
  <2>10. interrupted' \in BOOLEAN /\ turn' \in Turn
    BY <1>42 DEF Recover, NoTurn, Turn
  <2> QED BY <1>42, <2>2, <2>7, <2>8, <2>9, <2>10, EndType DEF Recover
<1>43. CASE StopPanicked
  BY <1>43
     DEF TypeOK, InboxOK, CtxsOK, HeldOK, ProviderOK, ToolsOK, AskedOK, ToldOK, vars, inbox, ctxs, held, provider, tools, asked, told, StopPanicked, Locations
<1>44. CASE Crash
  <2>1. log' \in Seq(Entry)
    BY <1>44 DEF Crash, TypeOK
  <2> QED BY <1>44, <2>1, ForgetType DEF Crash
<1>45. CASE Restart
  <2>1. log' \in Seq(Entry)
    BY <1>45 DEF Restart, TypeOK
  <2> QED BY <1>45, <2>1, ForgetType DEF Restart
<1>46. CASE Boot
  <2>1. PICK r \in RepairInterruptedTail(log, budget) :
          /\ log' = r.log /\ budget' = r.budget
          /\ ui' = [lt |-> Cardinality(Heads(r.log)), open |-> NoUnit, closed |-> Units(r.log)]
    BY <1>46 DEF Boot
  <2>2. r \in Outcome
    BY RepairType DEF TypeOK
  <2>3. r.log \in Seq(Entry) /\ r.budget \in Limits
    BY <2>2 DEF Outcome
  <2>4. ui' \in UI
    <3>1. Cardinality(Heads(r.log)) \in Nat /\ Units(r.log) \subseteq Unit
      BY <2>3, UnitsType
    <3>2. NoUnit \in Unit
      BY DEF NoUnit, Unit
    <3> QED BY <2>1, <3>1, <3>2 DEF UI
  <2>5. HeldOK'
    BY <1>46 DEF Boot, TypeOK, HeldOK, held, Locations
  <2> QED BY <1>46, <2>1, <2>3, <2>4, <2>5 DEF Boot, TypeOK, InboxOK, CtxsOK, ProviderOK, ToolsOK, AskedOK, ToldOK, vars, inbox, ctxs, held, provider, tools, asked, told
<1>47. CASE Quiescent
  BY <1>47, <1>1 DEF Quiescent
<1> QED
  BY <1>1, <1>2, <1>3, <1>4, <1>5, <1>6, <1>7, <1>8, <1>9, <1>10, <1>11, <1>12, <1>13, <1>14, <1>15, <1>16, <1>17, <1>18, <1>19, <1>20, <1>21, <1>22, <1>23, <1>24, <1>25, <1>26, <1>27, <1>28, <1>29, <1>30, <1>31, <1>32, <1>33, <1>34, <1>35, <1>36, <1>37, <1>38, <1>39, <1>40, <1>41, <1>42, <1>43, <1>44, <1>45, <1>46, <1>47
     DEF Next, Clients, Between, Rounds, Phase1, Phase2, Drain, Provider, ToolRuns, Failures

\* The agent starts with every variable of its type.
LEMMA TypeInit == Init => TypeOK
<1> SUFFICES ASSUME Init PROVE TypeOK
  OBVIOUS
<1>1. queue \in Seq(Events) /\ log \in Seq(Entry) /\ cur \in Seq(Prompts)
      /\ bus \in Seq(BusEvent) /\ accepted \in Seq(Events)
  BY EmptySeq DEF Init
<1>2. InboxOK /\ CtxsOK
  BY <1>1 DEF Init, InboxOK, CtxsOK
<1>3. HeldOK
  BY <1>1 DEF Init, HeldOK, Locations
<1>4. ProviderOK
  <2>1. Nothing \in [text : BOOLEAN, ready : SUBSET Calls]
    BY DEF Nothing
  <2> QED BY <1>1, <2>1 DEF Init, ProviderOK
<1>5. ToolsOK
  BY DEF Init, ToolsOK, AllIdle, NoneSeen
<1>6. AskedOK /\ ToldOK
  BY <1>1 DEF Init, AskedOK, ToldOK
<1>7. turn \in Turn /\ rnd \in Round /\ rounds \in Nat
  BY DEF Init, NoTurn, NoRound, Turn, Round
<1>8. ui \in UI
  BY DEF Init, NoUnit, Unit, UI
<1>9. budget \in Limits
  BY FigaroTurnAssumption DEF Init, Limits
<1> QED BY <1>1, <1>2, <1>3, <1>4, <1>5, <1>6, <1>7, <1>8, <1>9 DEF TypeOK

\* Type correctness of the agent, for any number of prompts, patches, forks,
\* calls and disturbances: in particular runTurn and appendPromptEvents never
\* take the head of an empty batch.
THEOREM TypeCorrect == Spec => []TypeOK
  BY TypeInit, TypeNext, PTL DEF Spec

-----------------------------------------------------------------------------
(* Logs *)

\* A paired log stays paired when a message is appended that answers what the
\* tail owes, and is a results message only if it answers the tail.
LEMMA AppendPaired ==
  ASSUME NEW l \in Seq(Entry), NEW e \in Entry, WellPaired(l),
         Owes(l) => Answers(e, l[Len(l)]),
         e.kind = "results" =>
           l # <<>> /\ l[Len(l)].kind = "assistant" /\ Answers(e, l[Len(l)])
  PROVE  WellPaired(Append(l, e))
<1> DEFINE m == Append(l, e)
<1>1. Len(m) = Len(l) + 1 /\ m[Len(l) + 1] = e /\ \A i \in 1..Len(l) : m[i] = l[i]
  OBVIOUS
<1>2. Len(l) \in Nat /\ (l # <<>> => Len(l) > 0)
  BY EmptySeq
<1> HIDE DEF m
<1> SUFFICES ASSUME NEW i \in 1..Len(m)
             PROVE  /\ (i < Len(m) /\ m[i].kind = "assistant" /\ m[i].calls \ Malformed # {})
                         => Answers(m[i + 1], m[i])
                    /\ m[i].kind = "results" =>
                         i > 1 /\ m[i - 1].kind = "assistant" /\ Answers(m[i], m[i - 1])
  BY DEF WellPaired, m
<1>3. CASE i < Len(l)
  BY <1>1, <1>2, <1>3 DEF WellPaired
<1>4. CASE i = Len(l)
  <2>1. l # <<>> /\ m[i] = l[Len(l)] /\ m[i + 1] = e
    BY <1>1, <1>4
  <2> QED BY <1>1, <1>2, <1>4, <2>1 DEF WellPaired, Owes
<1>5. CASE i = Len(l) + 1
  BY <1>1, <1>2, <1>5
<1> QED BY <1>1, <1>2, <1>3, <1>4, <1>5

\* A prefix of a paired log is paired: whatever the store had flushed.
LEMMA PrefixPaired ==
  ASSUME NEW l \in Seq(Entry), WellPaired(l), NEW k \in 0..Len(l)
  PROVE  WellPaired(SubSeq(l, 1, k))
<1> DEFINE m == SubSeq(l, 1, k)
<1>1. Len(m) = k /\ \A i \in 1..k : m[i] = l[i]
  OBVIOUS
<1> HIDE DEF m
<1>2. k \in Nat /\ Len(l) \in Nat /\ k <= Len(l)
  OBVIOUS
<1>3. WellPaired(m)
  BY <1>1, <1>2 DEF WellPaired
<1> QED BY <1>3 DEF m

\* Nothing is owed after a message without calls that need an answer.
LEMMA AppendSettles ==
  ASSUME NEW l \in Seq(Entry), NEW e \in Entry,
         e.kind # "assistant" \/ e.calls \ Malformed = {}
  PROVE  ~Owes(Append(l, e))
<1>1. Append(l, e)[Len(Append(l, e))] = e
  OBVIOUS
<1> QED BY <1>1 DEF Owes

\* An append either happens, or fails on a backed log and leaves it alone; the
\* strikes of the budget only grow.
LEMMA TryAppendCases ==
  ASSUME NEW l \in Seq(Entry), NEW b \in Limits, NEW e \in Entry, NEW w \in TryAppend(l, b, e)
  PROVE  /\ \/ w.ok /\ w.log = Append(l, e)
            \/ ~w.ok /\ Backed /\ w.log = l
         /\ b.struck \subseteq w.budget.struck
<1>1. CASE w = [log |-> Append(l, e), budget |-> b, ok |-> TRUE, wrote |-> TRUE]
  BY <1>1
<1>2. CASE /\ Backed
           /\ w = [log |-> l, budget |-> Strike("fault", b), ok |-> FALSE, wrote |-> FALSE]
  BY <1>2 DEF Strike
<1> QED BY <1>1, <1>2 DEF TryAppend

\* What sealTurn writes are entries of the log.
LEMMA SealedType ==
  ASSUME TypeOK
  PROVE  /\ SealedResults \in Entry
         /\ AssistantEntry(turn.text, turn.tools) \in Entry
<1>1. turn.text \in BOOLEAN /\ turn.tools \in SUBSET Calls
  BY DEF TypeOK, Turn
<1>2. [c \in Calls |-> IF folded[c] \in {"ok", "error"} THEN folded[c] ELSE "interrupted"]
        \in [Calls -> Outcomes]
  BY DEF Outcomes
<1> QED BY <1>1, <1>2, EntryType DEF SealedResults

\* The outcomes of sealTurn: nothing to write; the results of the committed
\* message; the partial message, and then its results when it made calls.
LEMMA SealTurnCases ==
  ASSUME TypeOK, NEW l \in Seq(Entry), NEW b \in Limits, NEW s \in SealTurn(l, b)
  PROVE  \/ /\ s.log = l /\ s.budget = b
            /\ ~turn.on \/ turn.tools = {}
            /\ turn.on /\ ~turn.committed => TurnEmpty
         \/ /\ turn.on /\ turn.committed
            /\ s \in TryAppend(l, b, SealedResults)
         \/ /\ turn.on /\ ~turn.committed /\ ~TurnEmpty
            /\ \E a \in TryAppend(l, b, AssistantEntry(turn.text, turn.tools)) :
                 \/ s = a /\ (~a.ok \/ turn.tools = {})
                 \/ /\ a.ok
                    /\ \E r \in TryAppend(a.log, a.budget, SealedResults) :
                         s.log = r.log /\ s.budget = r.budget
<1>1. CASE ~turn.on \/ (turn.committed /\ turn.tools = {}) \/ TurnEmpty
  <2>1. s = Kept(l, b)
    BY <1>1 DEF SealTurn, TurnEmpty
  <2> QED BY <1>1, <2>1 DEF Kept, TurnEmpty
<1>2. CASE turn.on /\ turn.committed /\ turn.tools # {}
  BY <1>2 DEF SealTurn
<1>3. CASE turn.on /\ ~turn.committed /\ ~TurnEmpty
  <2> DEFINE As == TryAppend(l, b, AssistantEntry(turn.text, turn.tools))
             F(a) == IF a.ok /\ turn.tools # {}
                     THEN {[r EXCEPT !.wrote = TRUE] : r \in TryAppend(a.log, a.budget, SealedResults)}
                     ELSE {a}
  <2>1. s \in UNION {F(a) : a \in As}
    BY <1>3 DEF SealTurn, TurnEmpty
  <2>2. PICK a \in As : s \in F(a)
    BY <2>1
  <2>3. CASE ~(a.ok /\ turn.tools # {})
    BY <1>3, <2>2, <2>3
  <2>4. CASE a.ok /\ turn.tools # {}
    <3>1. PICK r \in TryAppend(a.log, a.budget, SealedResults) : s = [r EXCEPT !.wrote = TRUE]
      BY <2>2, <2>4
    <3>2. a \in Outcome
      <4>1. AssistantEntry(turn.text, turn.tools) \in Entry
        BY EntryType DEF TypeOK, Turn
      <4> QED BY <4>1, TryAppendType
    <3>3. a.log \in Seq(Entry) /\ a.budget \in Limits
      BY <3>2 DEF Outcome
    <3>4. r \in Outcome
      BY <3>3, SealedType, TryAppendType
    <3>5. s.log = r.log /\ s.budget = r.budget
      BY <3>1, <3>4 DEF Outcome
    <3> QED BY <1>3, <2>2, <2>4, <3>1, <3>5
  <2> QED BY <2>3, <2>4
<1> QED BY <1>1, <1>2, <1>3

\* The strikes recorded only grow while a turn is sealed.
LEMMA SealStruck ==
  ASSUME TypeOK, NEW l \in Seq(Entry), NEW b \in Limits, NEW s \in SealTurn(l, b)
  PROVE  b.struck \subseteq s.budget.struck
<1>1. CASE s.budget = b
  BY <1>1
<1>2. CASE s \in TryAppend(l, b, SealedResults)
  BY <1>2, SealedType, TryAppendCases
<1>3. ASSUME NEW a \in TryAppend(l, b, AssistantEntry(turn.text, turn.tools)),
             s = a \/ \E r \in TryAppend(a.log, a.budget, SealedResults) : s.budget = r.budget
      PROVE  b.struck \subseteq s.budget.struck
  <2>1. a \in Outcome
    BY SealedType, TryAppendType
  <2>2. a.log \in Seq(Entry) /\ a.budget \in Limits
    BY <2>1 DEF Outcome
  <2>3. b.struck \subseteq a.budget.struck
    BY SealedType, TryAppendCases
  <2>4. \A r \in TryAppend(a.log, a.budget, SealedResults) : a.budget.struck \subseteq r.budget.struck
    BY <2>2, SealedType, TryAppendCases
  <2> QED BY <1>3, <2>3, <2>4
<1> QED BY <1>1, <1>2, <1>3, SealTurnCases

\* The results sealTurn writes answer a message that made the turn's calls.
LEMMA SealedAnswers ==
  ASSUME TypeOK, NEW a \in Entry,
         turn.tools = a.calls \/ turn.tools = a.calls \ Malformed
  PROVE  /\ Answers(SealedResults, a)
         /\ SealedResults.kind = "results"
  BY DEF SealedResults, ResultEntry, Answers

\* sealTurn keeps the log paired, and an append that cannot fail leaves nothing
\* owed, given what the turn knows of the tail.
LEMMA SealPaired ==
  ASSUME TypeOK, NEW b \in Limits, NEW s \in SealTurn(log, b), WellPaired(log), SealKnowsTail
  PROVE  /\ WellPaired(s.log)
         /\ (~Backed /\ (~turn.committed => ~Owes(log))) => ~Owes(s.log)
<1>1. log \in Seq(Entry)
  BY DEF TypeOK
<1>2. CASE /\ s.log = log
           /\ ~turn.on \/ turn.tools = {}
           /\ turn.on /\ ~turn.committed => TurnEmpty
  <2>1. turn.committed => ~Owes(log)
    BY <1>2 DEF SealKnowsTail, Owes
  <2> QED BY <1>2, <2>1
<1>3. CASE turn.on /\ turn.committed /\ s \in TryAppend(log, b, SealedResults)
  <2>1. log # <<>> /\ log[Len(log)] \in Entry /\ log[Len(log)].kind = "assistant"
        /\ turn.tools = log[Len(log)].calls \ Malformed
    BY <1>1, <1>3, ElementOfSeq, EmptySeq DEF SealKnowsTail
  <2>2. Answers(SealedResults, log[Len(log)]) /\ SealedResults.kind = "results"
    BY <2>1, SealedAnswers
  <2>3. WellPaired(Append(log, SealedResults)) /\ ~Owes(Append(log, SealedResults))
    BY <1>1, <2>1, <2>2, SealedType, AppendPaired, AppendSettles
  <2> QED BY <1>1, <1>3, <2>3, SealedType, TryAppendCases
<1>4. CASE turn.on /\ ~turn.committed /\ ~TurnEmpty
           /\ \E a \in TryAppend(log, b, AssistantEntry(turn.text, turn.tools)) :
                \/ s = a /\ (~a.ok \/ turn.tools = {})
                \/ /\ a.ok
                   /\ \E r \in TryAppend(a.log, a.budget, SealedResults) :
                        s.log = r.log /\ s.budget = r.budget
  <2> DEFINE e == AssistantEntry(turn.text, turn.tools)
             l == Append(log, e)
  <2>1. PICK a \in TryAppend(log, b, e) :
                \/ s = a /\ (~a.ok \/ turn.tools = {})
                \/ /\ a.ok
                   /\ \E r \in TryAppend(a.log, a.budget, SealedResults) :
                        s.log = r.log /\ s.budget = r.budget
    BY <1>4
  <2>2. e \in Entry /\ e.kind = "assistant" /\ e.calls = turn.tools
    BY SealedType DEF AssistantEntry
  <2>3. a \in Outcome
    BY <2>2, <1>1, TryAppendType
  <2>4. a.budget \in Limits
    BY <2>3 DEF Outcome
  <2>5. (a.ok /\ a.log = l) \/ (~a.ok /\ Backed /\ a.log = log)
    BY <2>2, <1>1, TryAppendCases
  <2> HIDE DEF e
  <2>6. l \in Seq(Entry) /\ l # <<>> /\ l[Len(l)] = e
    BY <1>1, <2>2
  <2>7. ~Owes(log)
    BY <1>4 DEF SealKnowsTail
  <2>8. WellPaired(l)
    BY <1>1, <2>2, <2>7, AppendPaired
  <2> HIDE DEF l
  <2>9. CASE s = a /\ (~a.ok \/ turn.tools = {})
    <3>1. turn.tools = {} => ~Owes(l)
      BY <2>2, <2>6 DEF Owes
    <3> QED BY <2>5, <2>8, <2>9, <3>1
  <2>10. CASE a.ok /\ \E r \in TryAppend(a.log, a.budget, SealedResults) :
                        s.log = r.log /\ s.budget = r.budget
    <3>1. PICK r \in TryAppend(l, a.budget, SealedResults) : s.log = r.log
      BY <2>5, <2>10
    <3>2. Answers(SealedResults, e) /\ SealedResults.kind = "results"
      BY <2>2, SealedAnswers
    <3>3. WellPaired(Append(l, SealedResults)) /\ ~Owes(Append(l, SealedResults))
      BY <2>2, <2>6, <2>8, <3>2, SealedType, AppendPaired, AppendSettles
    <3>4. (r.ok /\ r.log = Append(l, SealedResults)) \/ (~r.ok /\ Backed /\ r.log = l)
      BY <2>4, <2>6, SealedType, TryAppendCases
    <3> QED BY <2>8, <3>1, <3>3, <3>4
  <2> QED BY <2>1, <2>9, <2>10
<1> QED BY <1>1, <1>2, <1>3, <1>4, SealTurnCases

\* repairInterruptedTail keeps the log paired; unless its append failed, which
\* only a backed log can do, nothing is owed after it.
LEMMA RepairPaired ==
  ASSUME NEW l \in Seq(Entry), NEW b \in Limits, NEW r \in RepairInterruptedTail(l, b)
  PROVE  /\ b.struck \subseteq r.budget.struck
         /\ WellPaired(l) => WellPaired(r.log)
         /\ r.ok \/ ~Backed => ~Owes(r.log)
<1>1. CASE DanglingTail(l)
  <2>1. l[Len(l)] \in Entry /\ l # <<>> /\ l[Len(l)].kind = "assistant"
    BY <1>1, ElementOfSeq, EmptySeq DEF DanglingTail
  <2>2. [c \in Calls |-> "repaired"] \in [Calls -> Outcomes] /\ l[Len(l)].calls \in SUBSET Calls
    BY <2>1 DEF Outcomes, Entry
  <2>3. RepairEntry(l) \in Entry
    BY <2>2, EntryType DEF RepairEntry
  <2>4. RepairEntry(l).kind = "results" /\ Answers(RepairEntry(l), l[Len(l)])
    BY DEF RepairEntry, ResultEntry, Answers
  <2>5. ~Owes(Append(l, RepairEntry(l)))
    BY <2>3, <2>4, AppendSettles
  <2>6. WellPaired(l) => WellPaired(Append(l, RepairEntry(l)))
    BY <2>1, <2>3, <2>4, AppendPaired
  <2>7. r \in TryAppend(l, b, RepairEntry(l))
    BY <1>1 DEF RepairInterruptedTail
  <2>8. /\ \/ r.ok /\ r.log = Append(l, RepairEntry(l))
           \/ ~r.ok /\ Backed /\ r.log = l
        /\ b.struck \subseteq r.budget.struck
    BY <2>3, <2>7, TryAppendCases
  <2> QED BY <2>5, <2>6, <2>8
<1>2. CASE ~DanglingTail(l)
  <2>1. ~Owes(l)
    BY <1>2 DEF DanglingTail, Owes
  <2> QED BY <1>2, <2>1 DEF RepairInterruptedTail, Kept
<1> QED BY <1>1, <1>2

-----------------------------------------------------------------------------
(* The inductive step *)

\* What broke the pairing stays broken: torn and the strikes only grow.
LEMMA SoundBack ==
  ASSUME torn => torn', budget.struck \subseteq budget'.struck, Sound'
  PROVE  Sound
  BY DEF Sound, Struck

\* A step that touches neither the log nor what is known of it, only perhaps
\* the bus.
LEMMA SameTurn ==
  ASSUME TurnInv, UNCHANGED <<log, turn, rnd, pc, torn>>, OneMessagePerRound',
         budget.struck \subseteq budget'.struck
  PROVE  TurnInv'
<1>1. Sound' => Sound
  BY SoundBack
<1>2. pc' = "panicked" => Struck("panic")'
  BY DEF TurnInv, Struck
<1>3. SealKnowsTail => SealKnowsTail'
  BY DEF SealKnowsTail, TurnEmpty
<1>4. TailIsSettled => TailIsSettled'
  BY DEF TailIsSettled
<1>5. RoundKnowsTurn => RoundKnowsTurn'
  BY DEF RoundKnowsTurn, TurnEmpty
<1> QED BY <1>1, <1>2, <1>3, <1>4, <1>5 DEF TurnInv

\* A step that does not touch the bus either.
LEMMA Untouched ==
  ASSUME TurnInv, UNCHANGED <<log, turn, rnd, pc, prov, bus, torn>>,
         budget.struck \subseteq budget'.struck
  PROVE  TurnInv'
<1>1. OneMessagePerRound'
  BY DEF TurnInv, OneMessagePerRound
<1> QED BY <1>1, SameTurn

\* The drain loop moves on, away from a bus that is empty.
LEMMA Moved ==
  ASSUME TurnInv, pc # "stream", UNCHANGED <<log, turn, rnd, prov, bus, torn, budget>>,
         pc' # "panicked",
         Sound /\ TailIsSettled => TailIsSettled',
         Sound /\ RoundKnowsTurn => RoundKnowsTurn'
  PROVE  TurnInv'
<1>1. OneMessagePerRound'
  BY DEF TurnInv, OneMessagePerRound
<1>2. Sound' => Sound
  BY SoundBack
<1>3. SealKnowsTail => SealKnowsTail'
  BY DEF SealKnowsTail, TurnEmpty
<1> QED BY <1>1, <1>2, <1>3 DEF TurnInv

\* A step that ends the turn, with a paired log and an empty turn.
LEMMA Ended ==
  ASSUME NEW u, Finish(u), TurnEmpty',
         Sound' => WellPaired(log') /\ (~Backed => ~Owes(log'))
  PROVE  TurnInv'
<1>1. pc' = "recv" /\ rnd' = NoRound /\ prov' = "off" /\ bus' = <<>>
  BY DEF Finish, ForgetRound
<1>2. OneMessagePerRound'
  BY <1>1 DEF OneMessagePerRound
<1>3. SealKnowsTail'
  BY DEF SealKnowsTail, TurnEmpty
<1>4. (~Backed => ~Owes(log')) => TailIsSettled'
  BY <1>1 DEF TailIsSettled
<1>5. rnd'.calls = {}
  BY <1>1 DEF NoRound
<1>6. RoundKnowsTurn'
  BY <1>1, <1>5 DEF RoundKnowsTurn
<1> QED BY <1>1, <1>2, <1>3, <1>4, <1>6 DEF TurnInv

\* The same once the pairing is broken.
LEMMA EndedUnsound ==
  ASSUME NEW u, Finish(u), ~Sound'
  PROVE  TurnInv'
<1>1. pc' = "recv" /\ prov' = "off" /\ bus' = <<>>
  BY DEF Finish, ForgetRound
<1>2. OneMessagePerRound'
  BY <1>1 DEF OneMessagePerRound
<1> QED BY <1>1, <1>2 DEF TurnInv

\* Folding the head of the bus.
LEMMA TakenFromBus ==
  ASSUME TypeOK, OneMessagePerRound, bus # <<>>, bus' = Tail(bus), UNCHANGED <<pc, rnd, prov>>
  PROVE  rnd = NoRound /\ OneMessagePerRound'
<1>1. bus \in Seq(BusEvent)
  BY DEF TypeOK, ProviderOK
<1>2. \A i \in DOMAIN Tail(bus) :
        i + 1 \in DOMAIN bus /\ Tail(bus)[i] = bus[i + 1] /\ (i + 1 = Len(bus) => i = Len(Tail(bus)))
  BY <1>1
<1>3. \A i \in DOMAIN bus' : bus'[i].kind = "figaro" => i = Len(bus') /\ prov' # "streaming"
  BY <1>2 DEF OneMessagePerRound
<1> QED BY <1>3 DEF OneMessagePerRound

\* Committing the cache only adds strikes, and fails after a failed append.
LEMMA CommitCacheStruck ==
  ASSUME NEW ok, NEW b,
         NEW k \in (IF ok THEN CommitCache(b) ELSE {[ok |-> FALSE, budget |-> b]})
  PROVE  b.struck \subseteq k.budget.struck /\ (k.ok => ok)
<1>1. CASE ok /\ k = [ok |-> TRUE, budget |-> b]
  BY <1>1
<1>2. CASE k = [ok |-> FALSE, budget |-> b]
  BY <1>2
<1>3. CASE k = [ok |-> FALSE, budget |-> Strike("fault", b)]
  BY <1>3 DEF Strike
<1> QED BY <1>1, <1>2, <1>3 DEF CommitCache

\* The turn is cut short and sealed.
LEMMA SealedEnd ==
  ASSUME TypeOK, TurnInv, pc \in {"stream", "waitspec", "record"},
         NEW s \in SealTurn(log, budget), log' = s.log, budget' = s.budget,
         NEW u, Finish(u), turn' = NoTurn, torn' = torn
  PROVE  TurnInv'
<1>1. log \in Seq(Entry) /\ budget \in Limits
  BY DEF TypeOK
<1>2. budget.struck \subseteq budget'.struck
  BY <1>1, SealStruck
<1>3. TurnEmpty'
  BY DEF NoTurn, TurnEmpty
<1>4. ASSUME Sound' PROVE WellPaired(log') /\ (~Backed => ~Owes(log'))
  <2>1. WellPaired(log) /\ SealKnowsTail /\ TailIsSettled /\ RoundKnowsTurn
    BY <1>2, <1>4, SoundBack DEF TurnInv
  <2>2. ~turn.committed => ~Owes(log)
    BY <2>1 DEF TailIsSettled, RoundKnowsTurn
  <2> QED BY <1>1, <2>1, <2>2, SealPaired
<1> QED BY <1>3, <1>4, Ended

\* A new process starts from a paired log with nothing noted.
LEMMA Forgotten ==
  ASSUME TurnInv, Forget, WellPaired(log) => WellPaired(log')
  PROVE  TurnInv'
<1>1. /\ pc' = "boot" /\ turn' = NoTurn /\ rnd' = NoRound
      /\ prov' = "off" /\ bus' = <<>> /\ torn' = torn
  BY DEF Forget, ForgetRound, told
<1>2. budget.struck \subseteq budget'.struck
  BY DEF Forget, Spend, Strike
<1>3. Sound' => WellPaired(log')
  BY <1>1, <1>2, SoundBack DEF TurnInv
<1>4. OneMessagePerRound'
  BY <1>1 DEF OneMessagePerRound
<1>5. TurnEmpty' /\ rnd'.calls = {}
  BY <1>1 DEF NoTurn, NoRound, TurnEmpty
<1>6. SealKnowsTail' /\ TailIsSettled'
  BY <1>1, <1>5 DEF SealKnowsTail, TailIsSettled, TurnEmpty
<1>7. RoundKnowsTurn'
  BY <1>1, <1>5 DEF RoundKnowsTurn
<1> QED BY <1>1, <1>3, <1>4, <1>6, <1>7 DEF TurnInv

\* The round starts with a turn that is on and empty, and nothing sealed.
LEMMA Started ==
  ASSUME TypeOK, TurnInv, pc = "round", StartProvider, UNCHANGED <<log, torn, budget>>
  PROVE  TurnInv'
<1>1. pc' = "stream" /\ rnd' = NoRound /\ prov' = "streaming" /\ bus' = <<>>
  BY DEF StartProvider
<1>2. OneMessagePerRound'
  BY <1>1 DEF OneMessagePerRound
<1>3. ASSUME Sound' PROVE WellPaired(log)' /\ SealKnowsTail' /\ TailIsSettled' /\ RoundKnowsTurn'
  <2>1. Sound /\ WellPaired(log) /\ TurnEmpty /\ ~Owes(log)
    BY <1>3, SoundBack DEF TurnInv, TailIsSettled, RoundKnowsTurn
  <2>2. turn'.on /\ TurnEmpty'
    BY <2>1 DEF StartProvider, TypeOK, Turn, NewTurn, NoTurn, TurnEmpty
  <2>3. SealKnowsTail' /\ TailIsSettled'
    BY <1>1, <2>1, <2>2 DEF SealKnowsTail, TailIsSettled, TurnEmpty
  <2>4. rnd'.calls = {} /\ ~rnd'.sealed
    BY <1>1 DEF NoRound
  <2>5. RoundKnowsTurn'
    BY <1>1, <2>2, <2>4 DEF RoundKnowsTurn, TurnEmpty
  <2> QED BY <2>1, <2>3, <2>5
<1> QED BY <1>1, <1>2, <1>3 DEF TurnInv

\* Every step keeps TurnInv.
LEMMA TurnNext == TypeOK /\ TurnInv /\ [Next]_vars => TurnInv'
<1> SUFFICES ASSUME TypeOK, TurnInv, [Next]_vars PROVE TurnInv'
  OBVIOUS
<1>1. CASE UNCHANGED vars
  BY <1>1, Untouched DEF vars, provider, told
<1>2. ASSUME NEW e \in Events, Send(e) PROVE TurnInv'
  BY <1>2, Untouched DEF Send, provider, told
<1>3. CASE Interrupt
  BY <1>3, Untouched DEF Interrupt, Spend, Strike, provider, told
<1>4. CASE Kill
  BY <1>4, Untouched DEF Kill, Spend, Strike, provider, told
<1>5. CASE CloseInbox
  BY <1>5, Untouched DEF CloseInbox, provider, told
<1>6. CASE RecvPrompt
  <2>1. UNCHANGED <<log, turn, rnd, prov, bus, torn, budget>> /\ pc' # "panicked" /\ pc # "stream"
    BY <1>6 DEF RecvPrompt, provider, told
  <2>2. Sound /\ TailIsSettled => TailIsSettled'
    BY <1>6 DEF RecvPrompt, TailIsSettled
  <2>3. Sound /\ RoundKnowsTurn => RoundKnowsTurn'
    BY <1>6 DEF RecvPrompt, RoundKnowsTurn, TurnEmpty
  <2> QED BY <2>1, <2>2, <2>3, Moved
<1>7. CASE RecvSet
  <2>1. CASE Backed
    BY <1>7, <2>1, Untouched DEF RecvSet, provider, told
  <2>2. CASE ~Backed
    <3> DEFINE e == PatchEntry(Head(queue))
    <3>1. log' = Append(log, e) /\ UNCHANGED <<turn, rnd, pc, prov, bus, torn, budget>> /\ pc = "recv"
      BY <1>7, <2>2 DEF RecvSet, provider, told
    <3>2. e \in Entry /\ e.kind = "patch"
      BY <1>7, EntryType DEF RecvSet, PatchEntry
    <3>3. log \in Seq(Entry)
      BY DEF TypeOK
    <3> HIDE DEF e
    <3>4. OneMessagePerRound'
      BY <3>1 DEF TurnInv, OneMessagePerRound
    <3>5. ASSUME Sound' PROVE WellPaired(log)' /\ SealKnowsTail' /\ TailIsSettled' /\ RoundKnowsTurn'
      <4>1. WellPaired(log) /\ TailIsSettled /\ RoundKnowsTurn
        BY <3>1, <3>5, SoundBack DEF TurnInv
      <4>2. ~Owes(log) /\ TurnEmpty
        BY <2>2, <3>1, <4>1 DEF TailIsSettled, RoundKnowsTurn
      <4>3. WellPaired(log') /\ ~Owes(log')
        BY <3>1, <3>2, <3>3, <4>1, <4>2, AppendPaired, AppendSettles
      <4>4. TurnEmpty'
        BY <3>1, <4>2 DEF TurnEmpty
      <4>5. SealKnowsTail' /\ TailIsSettled'
        BY <3>1, <4>3, <4>4 DEF SealKnowsTail, TailIsSettled, TurnEmpty
      <4>6. RoundKnowsTurn'
        BY <3>1, <4>1, <4>4 DEF RoundKnowsTurn
      <4> QED BY <4>3, <4>5, <4>6
    <3> QED BY <3>1, <3>4, <3>5 DEF TurnInv
  <2> QED BY <2>1, <2>2
<1>8. CASE RecvFork
  BY <1>8, Untouched DEF RecvFork, provider
<1>9. CASE RecvClosed
  <2>1. UNCHANGED <<log, turn, rnd, prov, bus, torn, budget>> /\ pc' # "panicked" /\ pc # "stream"
    BY <1>9 DEF RecvClosed, provider, told
  <2>2. Sound /\ TailIsSettled => TailIsSettled'
    BY <1>9 DEF RecvClosed, TailIsSettled
  <2>3. Sound /\ RoundKnowsTurn => RoundKnowsTurn'
    BY <1>9 DEF RecvClosed, RoundKnowsTurn, TurnEmpty
  <2> QED BY <2>1, <2>2, <2>3, Moved
<1>10. CASE BeginTurn
  <2>0. PICK r \in RepairInterruptedTail(log, budget) :
          \E w \in TryAppend(r.log, r.budget, PromptEntry(Head(cur))) : BeginWith(r, w)
    BY <1>10 DEF BeginTurn
  <2>1. PICK w \in TryAppend(r.log, r.budget, PromptEntry(Head(cur))) : BeginWith(r, w)
    BY <2>0
  <2> DEFINE e == PromptEntry(Head(cur))
  <2>2. e \in Entry /\ e.kind = "prompt"
    <3>1. Head(cur) \in Prompts
      BY <1>10 DEF BeginTurn, TypeOK, HeldOK
    <3> QED BY <3>1, EntryType DEF PromptEntry
  <2>3. log \in Seq(Entry) /\ budget \in Limits
    BY DEF TypeOK
  <2>4. r \in Outcome
    BY <2>3, RepairType
  <2>5. r.log \in Seq(Entry) /\ r.budget \in Limits
    BY <2>4 DEF Outcome
  <2> HIDE DEF e
  <2>6. /\ budget.struck \subseteq r.budget.struck
        /\ WellPaired(log) => WellPaired(r.log)
        /\ r.ok \/ ~Backed => ~Owes(r.log)
    BY <2>3, RepairPaired
  <2>7. /\ \/ w.ok /\ w.log = Append(r.log, e)
           \/ ~w.ok /\ Backed /\ w.log = r.log
        /\ r.budget.struck \subseteq w.budget.struck
    BY <2>1, <2>2, <2>5, TryAppendCases DEF e
  <2>8. log' = w.log /\ budget.struck \subseteq budget'.struck /\ (torn => torn')
        /\ (~torn' /\ w.ok => r.ok)
    BY <2>1, <2>6, <2>7 DEF BeginWith
  <2>9. Sound' => Sound
    BY <2>8, SoundBack
  <2>10. Sound' => WellPaired(log') /\ (w.ok => ~Owes(log'))
    <3> SUFFICES ASSUME Sound' PROVE WellPaired(log') /\ (w.ok => ~Owes(log'))
      OBVIOUS
    <3>1. WellPaired(r.log)
      BY <2>6, <2>9 DEF TurnInv
    <3>2. w.ok => ~Owes(r.log)
      BY <2>6, <2>8 DEF Sound
    <3>3. w.ok => WellPaired(Append(r.log, e)) /\ ~Owes(Append(r.log, e))
      BY <2>2, <2>5, <3>1, <3>2, AppendPaired, AppendSettles
    <3> QED BY <2>7, <2>8, <3>1, <3>3
  <2>11. CASE w.ok
    <3>1. /\ pc' = "round" /\ turn' = NewTurn /\ UNCHANGED <<rnd, prov, bus>> /\ pc = "begin"
      BY <1>10, <2>1, <2>11 DEF BeginTurn, BeginWith, provider
    <3>2. OneMessagePerRound'
      BY <3>1 DEF TurnInv, OneMessagePerRound
    <3>3. TurnEmpty' /\ turn'.on
      BY <3>1 DEF NewTurn, NoTurn, TurnEmpty
    <3>4. Sound' => SealKnowsTail' /\ TailIsSettled'
      BY <2>10, <2>11, <3>1, <3>3 DEF SealKnowsTail, TailIsSettled, TurnEmpty
    <3>5. Sound' => RoundKnowsTurn'
      BY <2>9, <3>1, <3>3 DEF TurnInv, RoundKnowsTurn
    <3> QED BY <2>10, <3>1, <3>2, <3>4, <3>5 DEF TurnInv
  <2>12. CASE ~w.ok
    <3>1. Finish(CommitUnit(ui)) /\ turn' = turn /\ pc = "begin"
      BY <1>10, <2>1, <2>12 DEF BeginTurn, BeginWith
    <3>2. CASE Sound'
      <4>1. TurnEmpty'
        BY <2>9, <3>1, <3>2 DEF TurnInv, RoundKnowsTurn, TurnEmpty
      <4> QED BY <2>7, <2>10, <2>12, <3>1, <4>1, Ended
    <3>3. CASE ~Sound'
      BY <3>1, <3>3, EndedUnsound
    <3> QED BY <3>2, <3>3
  <2> QED BY <2>11, <2>12
<1>11. CASE FirstRound
  BY <1>11, Started DEF FirstRound
<1>12. CASE NextRound
  BY <1>12, Started DEF NextRound
<1>13. CASE SteerBeforeRound
  <2>1. UNCHANGED <<log, turn, rnd, prov, bus, torn, budget>> /\ pc' # "panicked" /\ pc # "stream"
    BY <1>13 DEF SteerBeforeRound, provider, told
  <2>2. Sound /\ TailIsSettled => TailIsSettled'
    BY <1>13 DEF SteerBeforeRound, TailIsSettled
  <2>3. Sound /\ RoundKnowsTurn => RoundKnowsTurn'
    BY <1>13 DEF SteerBeforeRound, RoundKnowsTurn, TurnEmpty
  <2> QED BY <2>1, <2>2, <2>3, Moved
<1>14. CASE SteerAfterTools
  <2>1. UNCHANGED <<log, turn, rnd, prov, bus, torn, budget>> /\ pc' # "panicked" /\ pc # "stream"
    BY <1>14 DEF SteerAfterTools, provider, told
  <2>2. Sound /\ TailIsSettled => TailIsSettled'
    BY <1>14 DEF SteerAfterTools, TailIsSettled
  <2>3. Sound /\ RoundKnowsTurn => RoundKnowsTurn'
    BY <1>14 DEF SteerAfterTools, RoundKnowsTurn, TurnEmpty
  <2> QED BY <2>1, <2>2, <2>3, Moved
<1>15. CASE AppendSteering
  <2> DEFINE e == PromptEntry(Head(cur))
  <2>1. PICK w \in TryAppend(log, budget, e) : SteerWith(w)
    BY <1>15 DEF AppendSteering
  <2>2. e \in Entry /\ e.kind = "prompt"
    <3>1. Head(cur) \in Prompts
      BY <1>15 DEF AppendSteering, TypeOK, HeldOK
    <3> QED BY <3>1, EntryType DEF PromptEntry
  <2>3. log \in Seq(Entry) /\ budget \in Limits
    BY DEF TypeOK
  <2>4. /\ \/ w.ok /\ w.log = Append(log, e)
           \/ ~w.ok /\ Backed /\ w.log = log
        /\ budget.struck \subseteq w.budget.struck
    BY <2>2, <2>3, TryAppendCases
  <2> HIDE DEF e
  <2>5. log' = w.log /\ budget' = w.budget /\ torn' = torn /\ pc = "append"
    BY <1>15, <2>1 DEF AppendSteering, SteerWith
  <2>6. Sound' => Sound
    BY <2>4, <2>5, SoundBack
  <2>7. Sound' => WellPaired(log) /\ ~Owes(log) /\ TurnEmpty
    BY <2>5, <2>6 DEF TurnInv, TailIsSettled, RoundKnowsTurn
  <2>8. Sound' => WellPaired(log') /\ (w.ok => ~Owes(log'))
    BY <2>2, <2>3, <2>4, <2>5, <2>7, AppendPaired, AppendSettles
  <2>9. CASE w.ok
    <3>1. /\ pc' \in {"round", "append"} /\ turn' \in {turn, NewTurn} /\ UNCHANGED <<rnd, prov, bus>>
      BY <2>1, <2>5, <2>9 DEF SteerWith, provider
    <3>2. OneMessagePerRound'
      BY <2>5, <3>1 DEF TurnInv, OneMessagePerRound
    <3>3. Sound' => TurnEmpty'
      BY <2>7, <3>1 DEF NewTurn, NoTurn, TurnEmpty
    <3>4. Sound' => SealKnowsTail' /\ TailIsSettled'
      BY <2>8, <2>9, <3>1, <3>3 DEF SealKnowsTail, TailIsSettled, TurnEmpty
    <3>5. Sound' => RoundKnowsTurn'
      BY <2>6, <3>1, <3>3 DEF TurnInv, RoundKnowsTurn
    <3> QED BY <2>8, <3>1, <3>2, <3>4, <3>5 DEF TurnInv
  <2>10. CASE ~w.ok
    <3>1. Finish(CommitUnit(ui)) /\ turn' = turn
      BY <2>1, <2>10 DEF SteerWith
    <3>2. CASE Sound'
      <4>1. TurnEmpty'
        BY <2>7, <3>1, <3>2 DEF TurnEmpty
      <4> QED BY <2>4, <2>8, <2>10, <3>1, <4>1, Ended
    <3>3. CASE ~Sound'
      BY <3>1, <3>3, EndedUnsound
    <3> QED BY <3>2, <3>3
  <2> QED BY <2>9, <2>10
<1>16. CASE PushDelta
  <2> DEFINE x == [kind |-> "delta", text |-> TRUE, calls |-> {}]
  <2>1. /\ UNCHANGED <<log, turn, rnd, pc, prov, torn, budget>> /\ prov = "streaming"
        /\ bus' = Append(bus, x)
    BY <1>16 DEF PushDelta, Push, told
  <2>2. bus \in Seq(BusEvent) /\ x \in BusEvent /\ x.kind # "figaro"
    BY DEF TypeOK, ProviderOK, BusEvent
  <2> HIDE DEF x
  <2>3. \A i \in DOMAIN bus' : bus'[i] = x \/ (i \in DOMAIN bus /\ bus'[i] = bus[i])
    BY <2>1, <2>2
  <2>4. \A i \in DOMAIN bus : bus[i].kind # "figaro"
    BY <2>1 DEF TurnInv, OneMessagePerRound
  <2>5. OneMessagePerRound'
    BY <2>1, <2>2, <2>3, <2>4 DEF TurnInv, OneMessagePerRound
  <2> QED BY <2>1, <2>5, SameTurn
<1>17. ASSUME NEW c \in Calls, PushToolReady(c) PROVE TurnInv'
  <2> DEFINE x == [kind |-> "ready", text |-> FALSE, calls |-> {c}]
  <2>1. /\ UNCHANGED <<log, turn, rnd, pc, prov, torn, budget>> /\ prov = "streaming"
        /\ bus' = Append(bus, x)
    BY <1>17 DEF PushToolReady, Push, told
  <2>2. bus \in Seq(BusEvent) /\ x \in BusEvent /\ x.kind # "figaro"
    BY DEF TypeOK, ProviderOK, BusEvent
  <2> HIDE DEF x
  <2>3. \A i \in DOMAIN bus' : bus'[i] = x \/ (i \in DOMAIN bus /\ bus'[i] = bus[i])
    BY <2>1, <2>2
  <2>4. \A i \in DOMAIN bus : bus[i].kind # "figaro"
    BY <2>1 DEF TurnInv, OneMessagePerRound
  <2>5. OneMessagePerRound'
    BY <2>1, <2>2, <2>3, <2>4 DEF TurnInv, OneMessagePerRound
  <2> QED BY <2>1, <2>5, SameTurn
<1>18. CASE PushFigaro
  <2>1. /\ UNCHANGED <<log, turn, rnd, pc, torn, budget>> /\ prov = "streaming" /\ prov' = "awaiting"
        /\ \E x : bus' = Append(bus, x)
    BY <1>18 DEF PushFigaro, Push, told
  <2>2. bus \in Seq(BusEvent) /\ bus' \in Seq(BusEvent)
    BY TypeNext DEF TypeOK, ProviderOK
  <2>3. \A i \in DOMAIN bus : bus[i].kind # "figaro"
    BY <2>1 DEF TurnInv, OneMessagePerRound
  <2>4. \A i \in DOMAIN bus' : i # Len(bus') => i \in DOMAIN bus /\ bus'[i] = bus[i]
    BY <2>1, <2>2
  <2>5. OneMessagePerRound'
    BY <2>1, <2>3, <2>4 DEF TurnInv, OneMessagePerRound
  <2> QED BY <2>1, <2>5, SameTurn
<1>19. CASE ProviderReturn
  <2>1. UNCHANGED <<log, turn, rnd, pc, bus, torn, budget>> /\ prov' = "returned"
    BY <1>19 DEF ProviderReturn, told
  <2>2. OneMessagePerRound'
    BY <2>1 DEF TurnInv, OneMessagePerRound
  <2> QED BY <2>1, <2>2, SameTurn
<1>20. ASSUME NEW c \in Calls, SpecDispatch(c) PROVE TurnInv'
  BY <1>20, Untouched DEF SpecDispatch, provider, told
<1>21. ASSUME NEW c \in Calls, ToolEnd(c) PROVE TurnInv'
  BY <1>21, Untouched DEF ToolEnd, provider, told
<1>22. CASE ForkWhileStreaming
  BY <1>22, Untouched DEF ForkWhileStreaming, provider
<1>23. CASE ForkWhileWaiting
  BY <1>23, Untouched DEF ForkWhileWaiting, provider
<1>24. CASE ForkWhileCollecting
  BY <1>24, Untouched DEF ForkWhileCollecting, provider
<1>25. ASSUME NEW c \in Calls, FoldTool(c) PROVE TurnInv'
  BY <1>25, Untouched DEF FoldTool, provider, told
<1>26. CASE FoldStream
  <2>1. UNCHANGED <<log, rnd, pc, prov, torn, budget>> /\ pc = "stream" /\ bus # <<>> /\ bus' = Tail(bus)
    BY <1>26 DEF FoldStream, told
  <2>2. rnd = NoRound /\ OneMessagePerRound'
    BY <2>1, TakenFromBus DEF TurnInv
  <2>3. turn \in Turn /\ turn'.on = turn.on /\ turn'.committed = turn.committed /\ (~turn.on => turn' = turn)
    BY <1>26 DEF FoldStream, TypeOK, Turn
  <2>4. ASSUME Sound' PROVE WellPaired(log)' /\ SealKnowsTail' /\ TailIsSettled' /\ RoundKnowsTurn'
    <3>1. WellPaired(log) /\ TailIsSettled /\ RoundKnowsTurn
      BY <2>1, <2>4, SoundBack DEF TurnInv
    <3>2. ~rnd.sealed /\ ~rnd.err /\ rnd.calls = {}
      BY <2>2 DEF NoRound
    <3>3. ~turn.committed /\ ~Owes(log)
      BY <2>1, <3>1, <3>2 DEF TailIsSettled, RoundKnowsTurn
    <3>4. SealKnowsTail' /\ TailIsSettled'
      BY <2>1, <2>3, <3>3 DEF SealKnowsTail, TailIsSettled
    <3>5. RoundKnowsTurn'
      BY <2>1, <2>3, <3>1, <3>2, <3>3 DEF RoundKnowsTurn, TurnEmpty
    <3> QED BY <2>1, <3>1, <3>4, <3>5
  <2> QED BY <2>1, <2>2, <2>4 DEF TurnInv
<1>27. CASE SealAssistant
  <2> DEFINE m == Head(bus)
             e == AssistantEntry(m.text, m.calls)
  <2>1. bus \in Seq(BusEvent) /\ bus # <<>> /\ m.kind = "figaro" /\ bus' = Tail(bus)
        /\ pc = "stream" /\ pc' = "sealing" /\ UNCHANGED <<prov, torn>>
    BY <1>27 DEF SealAssistant, TypeOK, ProviderOK, told
  <2>2. m \in BusEvent
    BY <2>1
  <2>3. m.text \in BOOLEAN /\ m.calls \in SUBSET Calls
    BY <2>2 DEF BusEvent
  <2>4. PICK w \in TryAppend(log, budget, e) :
          \E k \in (IF w.ok THEN CommitCache(w.budget) ELSE {[ok |-> FALSE, budget |-> w.budget]}) :
            SealWith(m, w, k)
    BY <1>27 DEF SealAssistant
  <2>5. PICK k \in (IF w.ok THEN CommitCache(w.budget) ELSE {[ok |-> FALSE, budget |-> w.budget]}) :
          SealWith(m, w, k)
    BY <2>4
  <2>6. e \in Entry /\ e.kind = "assistant" /\ e.calls = m.calls
    BY <2>3, EntryType DEF AssistantEntry
  <2>7. log \in Seq(Entry) /\ budget \in Limits
    BY DEF TypeOK
  <2> HIDE DEF m, e
  <2>8. /\ \/ w.ok /\ w.log = Append(log, e)
           \/ ~w.ok /\ Backed /\ w.log = log
        /\ budget.struck \subseteq w.budget.struck
    BY <2>6, <2>7, TryAppendCases
  <2>9. w.budget.struck \subseteq k.budget.struck /\ (k.ok => w.ok)
    BY <2>5, CommitCacheStruck
  <2>10. bus' = <<>> /\ prov # "streaming" /\ rnd = NoRound
    <3>1. 1 \in DOMAIN bus /\ bus[1] = m
      BY <2>1 DEF m
    <3>2. Len(bus) = 1 /\ prov # "streaming" /\ rnd = NoRound
      BY <2>1, <3>1 DEF TurnInv, OneMessagePerRound
    <3> QED BY <2>1, <3>2, HeadTailProperties, EmptySeq
  <2>11. OneMessagePerRound'
    BY <2>1, <2>10 DEF OneMessagePerRound
  <2>12. log' = w.log /\ budget.struck \subseteq budget'.struck
    BY <2>5, <2>8, <2>9 DEF SealWith
  <2>13. ASSUME Sound' PROVE WellPaired(log)' /\ SealKnowsTail' /\ TailIsSettled' /\ RoundKnowsTurn'
    <3>1. WellPaired(log) /\ TailIsSettled /\ RoundKnowsTurn
      BY <2>1, <2>12, <2>13, SoundBack DEF TurnInv
    <3>2. turn.on /\ ~turn.committed /\ ~Owes(log)
      BY <2>1, <2>10, <3>1 DEF NoRound, TailIsSettled, RoundKnowsTurn
    <3>3. WellPaired(Append(log, e))
      BY <2>6, <2>7, <3>1, <3>2, AppendPaired
    <3>4. Append(log, e) # <<>> /\ Append(log, e)[Len(Append(log, e))] = e
      BY <2>6, <2>7
    <3>5. /\ rnd'.sealed = k.ok /\ rnd'.err = ~k.ok
          /\ rnd'.calls = IF k.ok THEN m.calls ELSE {}
          /\ rnd' # NoRound
      BY <2>5 DEF SealWith, NoRound
    <3>6. CASE k.ok /\ m.calls = {}
      <4>1. turn' = NoTurn /\ log' = Append(log, e)
        BY <2>5, <2>8, <2>9, <2>12, <3>6 DEF SealWith
      <4>2. TurnEmpty' /\ ~turn'.on
        BY <4>1 DEF NoTurn, TurnEmpty
      <4>3. ~Owes(log')
        BY <2>6, <2>7, <3>6, <4>1, AppendSettles
      <4>4. SealKnowsTail' /\ TailIsSettled'
        BY <4>2, <4>3 DEF SealKnowsTail, TailIsSettled, TurnEmpty
      <4>5. RoundKnowsTurn'
        BY <2>1, <3>5, <3>6, <4>2 DEF RoundKnowsTurn, TurnEmpty
      <4> QED BY <3>3, <4>1, <4>4, <4>5
    <3>7. CASE ~(k.ok /\ m.calls = {})
      <4>1. turn' = [turn EXCEPT !.text = m.text, !.tools = m.calls \ Malformed, !.committed = w.ok]
        BY <2>5, <3>7 DEF SealWith
      <4>2. turn'.on = turn.on /\ turn'.committed = w.ok /\ turn'.tools = m.calls \ Malformed
        BY <4>1 DEF TypeOK, Turn
      <4>3. CASE w.ok
        <5>1. log' = Append(log, e)
          BY <2>8, <2>12, <4>3
        <5>2. SealKnowsTail' /\ TailIsSettled'
          BY <2>1, <2>6, <3>2, <3>4, <4>2, <4>3, <5>1 DEF SealKnowsTail, TailIsSettled
        <5>3. RoundKnowsTurn'
          BY <2>1, <2>6, <3>2, <3>4, <3>5, <3>7, <4>2, <4>3, <5>1 DEF RoundKnowsTurn
        <5> QED BY <3>3, <5>1, <5>2, <5>3
      <4>4. CASE ~w.ok
        <5>1. log' = log
          BY <2>8, <2>12, <4>4
        <5>2. SealKnowsTail' /\ TailIsSettled'
          BY <2>1, <3>2, <4>2, <4>4, <5>1 DEF SealKnowsTail, TailIsSettled
        <5>3. RoundKnowsTurn'
          BY <2>1, <2>9, <3>2, <3>5, <4>2, <4>4 DEF RoundKnowsTurn
        <5> QED BY <3>1, <5>1, <5>2, <5>3
      <4> QED BY <4>3, <4>4
    <3> QED BY <3>6, <3>7
  <2> QED BY <2>1, <2>11, <2>13 DEF TurnInv
<1>28. CASE AckAssistant
  <2>1. UNCHANGED <<log, turn, rnd, prov, bus, torn, budget>> /\ pc = "sealing" /\ pc' = "stream"
    BY <1>28 DEF AckAssistant, told
  <2>2. Sound /\ TailIsSettled => TailIsSettled'
    BY <2>1 DEF TailIsSettled
  <2>4. Sound /\ RoundKnowsTurn => RoundKnowsTurn'
    BY <2>1 DEF RoundKnowsTurn, TurnEmpty
  <2> QED BY <2>1, <2>2, <2>4, Moved
<1>29. CASE RefuseAssistant
  <2>1. UNCHANGED <<log, turn, rnd, pc, prov, torn, budget>> /\ pc = "stream" /\ bus # <<>> /\ bus' = Tail(bus)
    BY <1>29 DEF RefuseAssistant, told
  <2>2. OneMessagePerRound'
    BY <2>1, TakenFromBus DEF TurnInv
  <2> QED BY <2>1, <2>2, SameTurn
<1>30. CASE StopInterrupted
  <2>1. PICK s \in SealTurn(log, budget) : log' = s.log /\ budget' = s.budget /\ \E u : Finish(u)
    BY <1>30 DEF StopInterrupted
  <2>2. PICK u : Finish(u)
    BY <2>1
  <2>3. turn' = NoTurn /\ torn' = torn /\ pc = "stream"
    BY <1>30 DEF StopInterrupted, Drained
  <2> QED BY <2>1, <2>2, <2>3, SealedEnd
<1>31. CASE StopSendError
  <2>1. PICK s \in SealTurn(log, budget) : log' = s.log /\ budget' = s.budget /\ \E u : Finish(u)
    BY <1>31 DEF StopSendError
  <2>2. PICK u : Finish(u)
    BY <2>1
  <2>3. turn' = NoTurn /\ torn' = torn /\ pc = "stream"
    BY <1>31 DEF StopSendError, Drained
  <2> QED BY <2>1, <2>2, <2>3, SealedEnd
<1>32. CASE LeaveStream
  <2>1. /\ UNCHANGED <<log, rnd, prov, bus, torn, budget>> /\ pc = "stream" /\ pc' = "waitspec"
        /\ bus = <<>> /\ prov = "returned"
        /\ turn' = IF ~rnd.err /\ rnd.sealed /\ rnd.calls = {} THEN NoTurn ELSE turn
    BY <1>32 DEF LeaveStream, Drained, provider
  <2>2. OneMessagePerRound'
    BY <2>1 DEF OneMessagePerRound
  <2>3. ASSUME Sound' PROVE WellPaired(log)' /\ SealKnowsTail' /\ TailIsSettled' /\ RoundKnowsTurn'
    <3>1. WellPaired(log) /\ SealKnowsTail /\ TailIsSettled /\ RoundKnowsTurn
      BY <2>1, <2>3, SoundBack DEF TurnInv
    <3>2. CASE turn' = turn
      <4>1. SealKnowsTail' /\ TailIsSettled'
        BY <2>1, <3>1, <3>2 DEF SealKnowsTail, TailIsSettled, TurnEmpty
      <4>2. RoundKnowsTurn'
        BY <2>1, <3>1, <3>2 DEF RoundKnowsTurn, TurnEmpty
      <4> QED BY <2>1, <3>1, <4>1, <4>2
    <3>3. CASE turn' = NoTurn /\ ~rnd.err /\ rnd.sealed /\ rnd.calls = {}
      <4>1. TurnEmpty' /\ ~turn'.on
        BY <3>3 DEF NoTurn, TurnEmpty
      <4>2. ~turn.committed
        BY <2>1, <3>1, <3>3 DEF RoundKnowsTurn, TurnEmpty
      <4>3. SealKnowsTail' /\ TailIsSettled'
        BY <2>1, <3>1, <4>1, <4>2 DEF SealKnowsTail, TailIsSettled, TurnEmpty
      <4>4. RoundKnowsTurn'
        BY <2>1, <3>1, <3>3, <4>1 DEF RoundKnowsTurn, TurnEmpty
      <4> QED BY <2>1, <3>1, <4>3, <4>4
    <3> QED BY <2>1, <3>2, <3>3
  <2> QED BY <2>1, <2>2, <2>3 DEF TurnInv
<1>33. CASE EndRoundError
  <2>1. PICK s \in SealTurn(log, budget) : log' = s.log /\ budget' = s.budget /\ \E u : Finish(u)
    BY <1>33 DEF EndRoundError
  <2>2. PICK u : Finish(u)
    BY <2>1
  <2>3. turn' = NoTurn /\ torn' = torn /\ pc = "waitspec"
    BY <1>33 DEF EndRoundError, SpecDone
  <2> QED BY <2>1, <2>2, <2>3, SealedEnd
<1>34. CASE EndUnsealed
  <2> DEFINE e == AssistantEntry(FALSE, {})
  <2>1. PICK w \in TryAppend(log, budget, e) : log' = w.log /\ budget' = w.budget /\ \E u : Finish(u)
    BY <1>34 DEF EndUnsealed
  <2>2. PICK u : Finish(u)
    BY <2>1
  <2>3. turn' = NoTurn /\ torn' = torn /\ pc = "waitspec" /\ ~rnd.err /\ ~rnd.sealed
    BY <1>34 DEF EndUnsealed, SpecDone
  <2>4. e \in Entry /\ e.kind = "assistant" /\ e.calls = {}
    BY EntryType DEF AssistantEntry
  <2>5. log \in Seq(Entry) /\ budget \in Limits
    BY DEF TypeOK
  <2>6. /\ \/ w.ok /\ w.log = Append(log, e)
           \/ ~w.ok /\ Backed /\ w.log = log
        /\ budget.struck \subseteq w.budget.struck
    BY <2>4, <2>5, TryAppendCases
  <2> HIDE DEF e
  <2>7. TurnEmpty'
    BY <2>3 DEF NoTurn, TurnEmpty
  <2>8. ASSUME Sound' PROVE WellPaired(log') /\ (~Backed => ~Owes(log'))
    <3>1. WellPaired(log) /\ TailIsSettled /\ RoundKnowsTurn
      BY <2>1, <2>3, <2>6, <2>8, SoundBack DEF TurnInv
    <3>2. ~Owes(log)
      BY <2>3, <3>1 DEF TailIsSettled, RoundKnowsTurn
    <3>3. WellPaired(Append(log, e)) /\ ~Owes(Append(log, e))
      BY <2>4, <2>5, <3>1, <3>2, AppendPaired, AppendSettles
    <3> QED BY <2>1, <2>6, <3>1, <3>3
  <2> QED BY <2>2, <2>7, <2>8, Ended
<1>35. CASE EndNoCalls
  <2>1. Finish(CommitUnit(ui)) /\ UNCHANGED <<log, turn, torn, budget>> /\ pc = "waitspec" /\ rnd.sealed /\ rnd.calls = {}
    BY <1>35 DEF EndNoCalls, SpecDone
  <2>2. CASE Sound'
    <3>1. WellPaired(log) /\ TailIsSettled /\ RoundKnowsTurn
      BY <2>1, <2>2, SoundBack DEF TurnInv
    <3>2. TurnEmpty /\ ~Owes(log)
      BY <2>1, <3>1 DEF TailIsSettled, RoundKnowsTurn, TurnEmpty
    <3>3. TurnEmpty'
      BY <2>1, <3>2 DEF TurnEmpty
    <3> QED BY <2>1, <3>1, <3>2, <3>3, Ended
  <2>3. CASE ~Sound'
    BY <2>1, <2>3, EndedUnsound
  <2> QED BY <2>2, <2>3
<1>36. CASE BeginCollect
  <2>1. UNCHANGED <<log, turn, rnd, prov, bus, torn, budget>> /\ pc' # "panicked" /\ pc # "stream"
    BY <1>36 DEF BeginCollect, SpecDone, provider, told
  <2>2. Sound /\ TailIsSettled => TailIsSettled'
    BY <1>36 DEF BeginCollect, TailIsSettled, SpecDone
  <2>3. Sound /\ RoundKnowsTurn => RoundKnowsTurn'
    BY <1>36 DEF BeginCollect, RoundKnowsTurn, TurnEmpty, SpecDone
  <2> QED BY <2>1, <2>2, <2>3, Moved
<1>37. CASE EndCollect
  <2>1. UNCHANGED <<log, turn, rnd, prov, bus, torn, budget>> /\ pc' # "panicked" /\ pc # "stream"
    BY <1>37 DEF EndCollect, provider, told
  <2>2. Sound /\ TailIsSettled => TailIsSettled'
    BY <1>37 DEF EndCollect, TailIsSettled
  <2>3. Sound /\ RoundKnowsTurn => RoundKnowsTurn'
    BY <1>37 DEF EndCollect, RoundKnowsTurn, TurnEmpty
  <2> QED BY <2>1, <2>2, <2>3, Moved
<1>38. CASE RecordResults
  <2>1. PICK w \in TryAppend(log, budget, AssembledResults) :
          IF w.ok
          THEN /\ log' = w.log /\ budget' = w.budget
               /\ pc' = "steer"
               /\ UNCHANGED <<ctxs, rnd, rounds, provider, exec, folded, ui, done>>
          ELSE \E s \in SealTurn(w.log, w.budget) :
                 /\ log' = s.log /\ budget' = s.budget
                 /\ UNCHANGED <<queue, interrupted>>
                 /\ Finish(IF s.wrote THEN CommitUnit(EmitDelta(ui, s.log)) ELSE Reconcile(ui, s.log))
    BY <1>38 DEF RecordResults
  <2>2. pc = "record" /\ turn' = NoTurn /\ torn' = torn
    BY <1>38 DEF RecordResults
  <2>3. AssembledResults \in Entry /\ AssembledResults.kind = "results" /\ AssembledResults.calls = rnd.calls
    <3>1. [c \in Calls |-> IF folded[c] \in {"ok", "error"} THEN folded[c] ELSE "empty"] \in [Calls -> Outcomes]
      BY DEF Outcomes
    <3>2. rnd.calls \in SUBSET Calls
      BY DEF TypeOK, Round
    <3>3. AssembledResults \in Entry
      BY <3>1, <3>2, EntryType DEF AssembledResults
    <3> QED BY <3>3 DEF AssembledResults, ResultEntry
  <2>4. log \in Seq(Entry) /\ budget \in Limits
    BY DEF TypeOK
  <2>5. w \in Outcome
    BY <2>3, <2>4, TryAppendType
  <2>6. w.budget \in Limits
    BY <2>5 DEF Outcome
  <2>7. /\ \/ w.ok /\ w.log = Append(log, AssembledResults)
           \/ ~w.ok /\ Backed /\ w.log = log
        /\ budget.struck \subseteq w.budget.struck
    BY <2>3, <2>4, TryAppendCases
  <2>8. TurnEmpty' /\ ~turn'.on
    BY <2>2 DEF NoTurn, TurnEmpty
  <2>9. CASE w.ok
    <3>1. log' = Append(log, AssembledResults) /\ budget' = w.budget /\ pc' = "steer" /\ UNCHANGED <<rnd, prov, bus>>
      BY <2>1, <2>7, <2>9 DEF provider
    <3>2. OneMessagePerRound'
      BY <2>2, <3>1 DEF TurnInv, OneMessagePerRound
    <3>3. ASSUME Sound' PROVE WellPaired(log)' /\ SealKnowsTail' /\ TailIsSettled' /\ RoundKnowsTurn'
      <4>1. WellPaired(log) /\ SealKnowsTail /\ RoundKnowsTurn
        BY <2>2, <2>7, <3>1, <3>3, SoundBack DEF TurnInv
      <4>2. /\ log # <<>> /\ log[Len(log)].kind = "assistant"
            /\ AssembledResults.calls = log[Len(log)].calls
        BY <2>2, <2>3, <4>1 DEF SealKnowsTail, RoundKnowsTurn
      <4>3. Answers(AssembledResults, log[Len(log)])
        BY <2>3, <4>2 DEF Answers
      <4>4. WellPaired(log') /\ ~Owes(log')
        BY <2>3, <2>4, <3>1, <4>1, <4>2, <4>3, AppendPaired, AppendSettles
      <4>5. SealKnowsTail' /\ TailIsSettled'
        BY <3>1, <4>4, <2>8 DEF SealKnowsTail, TailIsSettled, TurnEmpty
      <4>6. RoundKnowsTurn'
        BY <2>8, <3>1, <4>1 DEF RoundKnowsTurn
      <4> QED BY <4>4, <4>5, <4>6
    <3> QED BY <3>1, <3>2, <3>3 DEF TurnInv
  <2>10. CASE ~w.ok
    <3>1. PICK s \in SealTurn(w.log, w.budget) : log' = s.log /\ budget' = s.budget /\ \E u : Finish(u)
      BY <2>1, <2>10
    <3>2. PICK u : Finish(u)
      BY <3>1
    <3>3. s \in SealTurn(log, w.budget) /\ Backed
      BY <2>7, <2>10, <3>1
    <3>4. w.budget.struck \subseteq s.budget.struck
      BY <2>4, <2>6, <3>3, SealStruck
    <3>5. ASSUME Sound' PROVE WellPaired(log')
      <4>1. WellPaired(log) /\ SealKnowsTail
        BY <2>2, <2>7, <3>1, <3>4, <3>5, SoundBack DEF TurnInv
      <4> QED BY <2>6, <3>1, <3>3, <4>1, SealPaired
    <3> QED BY <2>8, <3>2, <3>3, <3>5, Ended
  <2> QED BY <2>9, <2>10
<1>39. CASE RecordInterrupted
  <2>1. PICK s \in SealTurn(log, budget) : log' = s.log /\ budget' = s.budget /\ \E u : Finish(u)
    BY <1>39 DEF RecordInterrupted
  <2>2. PICK u : Finish(u)
    BY <2>1
  <2>3. turn' = NoTurn /\ torn' = torn /\ pc = "record"
    BY <1>39 DEF RecordInterrupted
  <2> QED BY <2>1, <2>2, <2>3, SealedEnd
<1>40. CASE SteerInterrupted
  <2>1. Finish(CommitUnit(ui)) /\ UNCHANGED <<log, turn, torn, budget>> /\ pc = "steer"
    BY <1>40 DEF SteerInterrupted
  <2>2. CASE Sound'
    <3>1. WellPaired(log) /\ TailIsSettled /\ RoundKnowsTurn
      BY <2>1, <2>2, SoundBack DEF TurnInv
    <3>2. TurnEmpty /\ ~Owes(log)
      BY <2>1, <3>1 DEF TailIsSettled, RoundKnowsTurn, TurnEmpty
    <3>3. TurnEmpty'
      BY <2>1, <3>2 DEF TurnEmpty
    <3> QED BY <2>1, <3>1, <3>2, <3>3, Ended
  <2>3. CASE ~Sound'
    BY <2>1, <2>3, EndedUnsound
  <2> QED BY <2>2, <2>3
<1>41. CASE Panic
  <2>1. UNCHANGED <<log, turn, rnd, torn>> /\ pc' = "panicked" /\ prov' = "off" /\ bus' = <<>>
    BY <1>41 DEF Panic, told
  <2>2. budget.struck \subseteq budget'.struck /\ Struck("panic")'
    BY <1>41 DEF Panic, Spend, Strike, Struck
  <2>3. OneMessagePerRound'
    BY <2>1 DEF OneMessagePerRound
  <2>4. ASSUME Sound' PROVE WellPaired(log)' /\ SealKnowsTail' /\ TailIsSettled' /\ RoundKnowsTurn'
    <3>1. WellPaired(log) /\ SealKnowsTail /\ RoundKnowsTurn
      BY <2>1, <2>2, <2>4, SoundBack DEF TurnInv
    <3>2. SealKnowsTail' /\ TailIsSettled'
      BY <2>1, <3>1 DEF SealKnowsTail, TailIsSettled, TurnEmpty
    <3>3. RoundKnowsTurn'
      BY <2>1, <3>1 DEF RoundKnowsTurn, TurnEmpty
    <3> QED BY <2>1, <3>1, <3>2, <3>3
  <2> QED BY <2>2, <2>3, <2>4 DEF TurnInv
<1>42. CASE Recover
  <2> DEFINE l == IF Backed THEN log ELSE <<>>
  <2>1. PICK s \in SealTurn(l, budget) :
          \E r \in RepairInterruptedTail(s.log, s.budget) :
            log' = r.log /\ budget' = r.budget /\ Finish(Reconcile(ui, r.log))
    BY <1>42 DEF Recover
  <2>2. PICK r \in RepairInterruptedTail(s.log, s.budget) :
          log' = r.log /\ budget' = r.budget /\ Finish(Reconcile(ui, r.log))
    BY <2>1
  <2>3. pc = "panicked" /\ turn' = NoTurn /\ torn' = torn
    BY <1>42 DEF Recover
  <2>4. l \in Seq(Entry) /\ budget \in Limits
    BY DEF TypeOK
  <2>5. Backed => l = log
    OBVIOUS
  <2> HIDE DEF l
  <2>6. s \in Outcome
    BY <2>4, SealTurnType
  <2>7. s.log \in Seq(Entry) /\ s.budget \in Limits
    BY <2>6 DEF Outcome
  <2>8. budget.struck \subseteq s.budget.struck
    BY <2>4, SealStruck
  <2>9. s.budget.struck \subseteq r.budget.struck /\ (WellPaired(s.log) => WellPaired(r.log))
    BY <2>7, RepairPaired
  <2>10. TurnEmpty'
    BY <2>3 DEF NoTurn, TurnEmpty
  <2>11. ASSUME Sound' PROVE Backed /\ WellPaired(log')
    <3>1. Sound /\ Struck("panic") /\ WellPaired(log) /\ SealKnowsTail
      BY <2>2, <2>3, <2>8, <2>9, <2>11, SoundBack DEF TurnInv
    <3>2. Backed
      BY <3>1 DEF Sound
    <3>3. WellPaired(s.log)
      BY <2>4, <2>5, <3>1, <3>2, SealPaired
    <3> QED BY <2>2, <2>9, <3>2, <3>3
  <2> QED BY <2>2, <2>10, <2>11, Ended
<1>43. CASE StopPanicked
  <2>1. UNCHANGED <<log, turn, rnd, prov, bus, torn, budget>> /\ pc' # "panicked" /\ pc # "stream"
    BY <1>43 DEF StopPanicked, provider, told
  <2>2. Sound /\ TailIsSettled => TailIsSettled'
    BY <1>43 DEF StopPanicked, TailIsSettled
  <2>3. Sound /\ RoundKnowsTurn => RoundKnowsTurn'
    BY <1>43 DEF StopPanicked, RoundKnowsTurn, TurnEmpty
  <2> QED BY <2>1, <2>2, <2>3, Moved
<1>44. CASE Crash
  <2>1. PICK k \in 0..Len(log) : log' = SubSeq(log, 1, k)
    BY <1>44 DEF Crash
  <2>2. WellPaired(log) => WellPaired(log')
    BY <2>1, PrefixPaired DEF TypeOK
  <2> QED BY <1>44, <2>2, Forgotten DEF Crash
<1>45. CASE Restart
  BY <1>45, Forgotten DEF Restart
<1>46. CASE Boot
  <2>1. PICK r \in RepairInterruptedTail(log, budget) : log' = r.log /\ budget' = r.budget
    BY <1>46 DEF Boot
  <2>2. log \in Seq(Entry) /\ budget \in Limits
    BY DEF TypeOK
  <2>3. UNCHANGED <<turn, rnd, prov, bus, torn>> /\ pc = "boot" /\ pc' = "recv"
    BY <1>46 DEF Boot, provider, told
  <2>4. /\ budget.struck \subseteq r.budget.struck
        /\ WellPaired(log) => WellPaired(r.log)
        /\ ~Backed => ~Owes(r.log)
    BY <2>2, RepairPaired
  <2>5. OneMessagePerRound'
    BY <2>3 DEF TurnInv, OneMessagePerRound
  <2>6. ASSUME Sound' PROVE WellPaired(log)' /\ SealKnowsTail' /\ TailIsSettled' /\ RoundKnowsTurn'
    <3>1. WellPaired(log) /\ RoundKnowsTurn
      BY <2>1, <2>3, <2>4, <2>6, SoundBack DEF TurnInv
    <3>2. TurnEmpty'
      BY <2>3, <3>1 DEF RoundKnowsTurn, TurnEmpty
    <3>3. SealKnowsTail' /\ TailIsSettled'
      BY <2>1, <2>3, <2>4, <3>2 DEF SealKnowsTail, TailIsSettled, TurnEmpty
    <3>4. RoundKnowsTurn'
      BY <2>3, <3>1, <3>2 DEF RoundKnowsTurn
    <3> QED BY <2>1, <2>4, <3>1, <3>3, <3>4
  <2> QED BY <2>3, <2>5, <2>6 DEF TurnInv
<1>47. CASE Quiescent
  BY <1>47, <1>1 DEF Quiescent
<1> QED
  BY <1>1, <1>2, <1>3, <1>4, <1>5, <1>6, <1>7, <1>8, <1>9, <1>10, <1>11, <1>12, <1>13, <1>14, <1>15, <1>16, <1>17, <1>18, <1>19, <1>20, <1>21, <1>22, <1>23, <1>24, <1>25, <1>26, <1>27, <1>28, <1>29, <1>30, <1>31, <1>32, <1>33, <1>34, <1>35, <1>36, <1>37, <1>38, <1>39, <1>40, <1>41, <1>42, <1>43, <1>44, <1>45, <1>46, <1>47
     DEF Next, Clients, Between, Rounds, Phase1, Phase2, Drain, Provider, ToolRuns, Failures

\* The agent starts with an empty log and an empty turn.
LEMMA TurnStart == Init => TurnInv
<1> SUFFICES ASSUME Init PROVE TurnInv
  OBVIOUS
<1>1. OneMessagePerRound /\ pc # "panicked"
  BY DEF Init, OneMessagePerRound
<1>2. WellPaired(log) /\ ~Owes(log)
  BY EmptySeq DEF Init, WellPaired, Owes
<1>3. TurnEmpty /\ ~turn.on /\ rnd.calls = {} /\ pc = "recv"
  BY DEF Init, NoTurn, NoRound, TurnEmpty
<1>4. SealKnowsTail /\ TailIsSettled
  BY <1>2, <1>3 DEF SealKnowsTail, TailIsSettled, TurnEmpty
<1>5. RoundKnowsTurn
  BY <1>3 DEF RoundKnowsTurn
<1> QED BY <1>1, <1>2, <1>4, <1>5 DEF TurnInv

\* The inductive invariant of the turn: what sealTurn and the round know of the
\* log's tail, in every state the agent reaches.
THEOREM TurnInvariant == Spec => []TurnInv
  BY TypeCorrect, TurnStart, TurnNext, PTL DEF Spec

\* Every message with tool calls is answered before anything else is appended,
\* whatever interrupts, failed appends, panics, kills, crashes and restarts hit
\* the agent, for any number of prompts, calls and rounds (sealTurn,
\* repairInterruptedTail).
THEOREM LogStaysPaired == Spec => []TranscriptPaired
<1>1. TurnInv => TranscriptPaired
  BY DEF TurnInv, TranscriptPaired
<1> QED BY <1>1, TurnInvariant, PTL
=============================================================================
