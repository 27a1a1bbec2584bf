----------------------------- MODULE FigaroTurn -----------------------------
(***************************************************************************)
(* One agent (internal/figaro): its inbox, the drain loop that runs a turn *)
(* per prompt, the provider goroutine and the tool goroutines of the round *)
(* in flight, and the rendered units the turn opens and commits.           *)
(*                                                                         *)
(* The drain loop is the only writer of the log.  Clients submit prompts,  *)
(* chalkboard patches and forks; they may interrupt the turn or kill the   *)
(* agent at any time; an append may fail; the drain loop may panic and is  *)
(* restarted in place; the process may die and reload the log.             *)
(***************************************************************************)
EXTENDS Transcript

CONSTANTS
  Forks,      \* fork requests (eventFork)
  Backed,     \* TRUE: the log lives in the store; FALSE: an ephemeral aria
  BusCap,     \* capacity of turnBus.events (256 in the code)
  ReadyCap,   \* capacity of turnBus.toolsReady (64 in the code)
  MaxRounds,  \* bound: rounds of one turn whose reply may call tools
  Kinds,      \* the disturbances that may strike
  MaxStrikes  \* bound: how often one of them may strike

Disturbances == {"interrupt", "kill", "panic", "fault", "boot"}

ASSUME FigaroTurnAssumption ==
  /\ Backed \in BOOLEAN
  /\ Forks \cap (Prompts \cup Sets) = {}
  /\ BusCap \in Nat \ {0}
  /\ ReadyCap \in Nat
  /\ MaxRounds \in Nat
  /\ Kinds \subseteq Disturbances
  /\ MaxStrikes \in Nat

Events == Prompts \cup Sets \cup Forks

VARIABLES
  \* Inbox
  queue,       \* the FIFO
  wake,        \* the capacity-1 wake channel holds a token
  closed,      \* Send and Prepend are refused
  \* Agent: the log and the contexts
  log,         \* figLog
  turnOn,      \* turnCancel # nil: a turn is running
  cancelled,   \* turnCtx is done
  interrupted, \* Agent.interrupted
  killed,      \* the agent's context is done
  \* the drain loop
  pc,          \* where it is
  cur,         \* the prompts it took and has not appended yet
  split,       \* those prompts end the rendered unit (hasRenderablePrompt)
  turn,        \* a.turn: what sealTurn would write
  rnd,         \* the round: roundErr, sealed, and the sealed message's calls
  rounds,      \* rounds started in this turn
  \* the provider goroutine and its bus
  prov,        \* where it is
  streamed,    \* what it has streamed: text, and the calls made ready
  bus,         \* turnBus.events
  ack,         \* the answer to PushFigaro
  sendErr,     \* provider.Send returned an error
  \* speculative dispatch and tool goroutines of the round
  readyQ,      \* turnBus.toolsReady
  exec,        \* each call's goroutine
  folded,      \* each call's state as the drain loop has read it
  \* rendered units (aria.Server)
  ui,
  \* history: what clients asked and were told
  sent, accepted, answered, rejected, done, torn,
  budget       \* how many disturbances may still strike; which have struck

inbox    == <<queue, wake, closed>>
ctxs     == <<turnOn, cancelled, interrupted, killed>>
held     == <<cur, split>>
provider == <<prov, streamed, bus, ack, sendErr>>
tools    == <<readyQ, exec, folded>>
asked    == <<sent, accepted>>
told     == <<answered, rejected, done, torn>>
vars     == <<inbox, log, ctxs, pc, held, turn, rnd, rounds, provider, tools,
              ui, asked, told, budget>>

Locations == {"recv", "begin", "round", "append", "stream", "sealing", "waitspec",
              "collect", "record", "steer", "panicked", "stopped", "boot"}

NoTurn    == [on |-> FALSE, committed |-> FALSE, text |-> FALSE, tools |-> {}]
NewTurn   == [NoTurn EXCEPT !.on = TRUE]
NoRound   == [err |-> FALSE, sealed |-> FALSE, calls |-> {}]
Nothing   == [text |-> FALSE, ready |-> {}]
NoUnit    == [lt |-> 0, role |-> "assistant", from |-> 0, seen |-> 0]
AllIdle   == [c \in Calls |-> "idle"]
NoneSeen  == [c \in Calls |-> "none"]

BusEvent == [kind : {"delta", "ready", "figaro"}, text : BOOLEAN, calls : SUBSET Calls]

Turn   == [on : BOOLEAN, committed : BOOLEAN, text : BOOLEAN, tools : SUBSET Calls]
Round  == [err : BOOLEAN, sealed : BOOLEAN, calls : SUBSET Calls]
UI     == [lt : Nat, open : Unit, closed : SUBSET Unit]
Limits == [left : Nat, struck : SUBSET Disturbances]

InboxOK    == queue \in Seq(Events) /\ wake \in BOOLEAN /\ closed \in BOOLEAN
CtxsOK     == /\ turnOn \in BOOLEAN /\ cancelled \in BOOLEAN
              /\ interrupted \in BOOLEAN /\ killed \in BOOLEAN
HeldOK     == /\ pc \in Locations
              /\ cur \in Seq(Prompts) /\ split \in BOOLEAN
              /\ pc \in {"begin", "append"} => cur # <<>>
ProviderOK == /\ prov \in {"off", "streaming", "awaiting", "returned"}
              /\ streamed \in [text : BOOLEAN, ready : SUBSET Calls]
              /\ bus \in Seq(BusEvent)
              /\ ack \in {"none", "ok", "err"} /\ sendErr \in BOOLEAN
ToolsOK    == /\ readyQ \in SUBSET Calls
              /\ exec \in [Calls -> {"idle", "running", "ok", "error", "silent"}]
              /\ folded \in [Calls -> {"none", "running", "ok", "error"}]
AskedOK    == sent \in SUBSET Events /\ accepted \in Seq(Events)
ToldOK     == /\ answered \in SUBSET Forks /\ rejected \in SUBSET Prompts
              /\ done \in {"none", "idle", "busy"} /\ torn \in BOOLEAN

\* Every variable keeps its type, and the drain loop has a prompt in hand
\* wherever it is about to append one (Head(cur) in runTurn, appendPromptEvents).
TypeOK ==
  /\ InboxOK /\ log \in Seq(Entry) /\ CtxsOK /\ HeldOK
  /\ turn \in Turn /\ rnd \in Round /\ rounds \in Nat
  /\ ProviderOK /\ ToolsOK
  /\ ui \in UI /\ AskedOK /\ ToldOK /\ budget \in Limits

-----------------------------------------------------------------------------
(* Inbox *)

Drop(q, n) == SubSeq(q, n + 1, Len(q))

ForkPrefix(q, n) ==
  /\ \A i \in 1..n : q[i] \in Forks
  /\ n < Len(q) => q[n + 1] \notin Forks

PromptPrefix(q, n) ==
  /\ \A i \in 1..n : q[i] \in Prompts
  /\ n < Len(q) => q[n + 1] \notin Prompts

\* serviceForks: run the forks at the head of the queue, and answer each.
ServiceForks ==
  \E n \in 0..Len(queue) :
    /\ ForkPrefix(queue, n)
    /\ queue' = Drop(queue, n)
    /\ answered' = answered \cup {queue[i] : i \in 1..n}

\* TakeReadyUserPrompts on the queue q: n prompts leave, and the wake token is
\* put back when a fork has come to the head.
TakeReadyUserPrompts(q, n) ==
  /\ PromptPrefix(q, n)
  /\ queue' = Drop(q, n)
  /\ wake' = (wake \/ (n < Len(q) /\ q[n + 1] \in Forks))

\* Mutant: the prompts are dropped.
PrependNothing(ps) == UNCHANGED <<queue, wake>>

\* Prepend puts back the prompts that could not be appended; a closed inbox
\* refuses them.
Prepend(ps) ==
  IF closed THEN UNCHANGED <<queue, wake>>
  ELSE queue' = ps \o queue /\ wake' = TRUE

-----------------------------------------------------------------------------
(* Disturbances *)

CanStrike(d, b) == d \in Kinds /\ b.left > 0
Strike(d, b)    == [left |-> b.left - 1, struck |-> b.struck \cup {d}]
Struck(d)       == d \in budget.struck

Spend(d) == CanStrike(d, budget) /\ budget' = Strike(d, budget)

-----------------------------------------------------------------------------
(* Appends.  Each yields the outcomes an append may have: the log after it, *)
(* the budget left, whether it succeeded and whether anything was written.  *)

Kept(l, b) == [log |-> l, budget |-> b, ok |-> TRUE, wrote |-> FALSE]

TryAppend(l, b, e) ==
  {[log |-> Append(l, e), budget |-> b, ok |-> TRUE, wrote |-> TRUE]} \cup
  (IF Backed /\ CanStrike("fault", b)
   THEN {[log |-> l, budget |-> Strike("fault", b), ok |-> FALSE, wrote |-> FALSE]}
   ELSE {})

\* Mutant: no repair.
RepairNothing(l, b) == {Kept(l, b)}

RepairInterruptedTail(l, b) ==
  IF DanglingTail(l) THEN TryAppend(l, b, RepairEntry(l)) ELSE {Kept(l, b)}

\* Mutant: a running tool counts as finished.
SealedRunningAsOk ==
  ResultEntry(turn.tools,
    [c \in Calls |-> IF folded[c] = "none" THEN "interrupted"
                     ELSE IF folded[c] = "running" THEN "ok" ELSE folded[c]])

\* interruptedToolResults: a finished tool keeps its outcome, any other gets
\* the interrupted notice.
SealedResults ==
  ResultEntry(turn.tools,
    [c \in Calls |-> IF folded[c] \in {"ok", "error"} THEN folded[c] ELSE "interrupted"])

\* sealTurn: the results of a committed message; else the partial message,
\* when it has content, and then its results.
SealTurn(l, b) ==
  IF ~turn.on THEN {Kept(l, b)}
  ELSE IF turn.committed
    THEN IF turn.tools = {} THEN {Kept(l, b)} ELSE TryAppend(l, b, SealedResults)
  ELSE IF ~turn.text /\ turn.tools = {} THEN {Kept(l, b)}
  ELSE UNION {IF a.ok /\ turn.tools # {}
              THEN {[r EXCEPT !.wrote = TRUE] : r \in TryAppend(a.log, a.budget, SealedResults)}
              ELSE {a} : a \in TryAppend(l, b, AssistantEntry(turn.text, turn.tools))}

-----------------------------------------------------------------------------
(* Rendered units *)

\* Mutant: turnStartLT is not moved to the log's tail.
OpenUnitFromStart(u, role, l) ==
  [lt     |-> u.lt + 1,
   open   |-> [lt |-> u.lt + 1, role |-> role, from |-> 0, seen |-> Len(l)],
   closed |-> u.closed]

\* emitSnapshot: the next LT, over whatever unit was open.  l is the log the
\* unit starts after.
OpenUnit(u, role, l) ==
  [lt     |-> u.lt + 1,
   open   |-> [lt |-> u.lt + 1, role |-> role, from |-> Len(l), seen |-> Len(l)],
   closed |-> u.closed]

HasOpen(u) == u.open.lt # 0

\* emitDelta(composeTurn(nil)): the open unit shows the log up to its end.
EmitDelta(u, l) == IF HasOpen(u) THEN [u EXCEPT !.open.seen = Len(l)] ELSE u

\* emitCommit
CommitUnit(u) ==
  IF HasOpen(u) THEN [u EXCEPT !.closed = @ \cup {u.open}, !.open = NoUnit] ELSE u

\* abandonLive
AbandonUnit(u) == [u EXCEPT !.open = NoUnit]

\* appendUserPrompt's own unit; l is the log with the prompt appended.
UserUnit(u, p, l) ==
  IF p \in Silent THEN u
  ELSE CommitUnit(EmitDelta(OpenUnit(u, "user", SubSeq(l, 1, Len(l) - 1)), l))

LastCommittedLT(u) ==
  IF u.closed = {} THEN 0
  ELSE CHOOSE n \in {x.lt : x \in u.closed} : \A x \in u.closed : x.lt <= n

ReconcileNothing(u, l) == AbandonUnit(u)

\* reconcileAriaServer: rebuild the units from the log.  A unit that was open
\* and gained nothing is replaced on the wire by an empty one at the next LT.
Reconcile(u, l) ==
  LET n == Cardinality(Heads(l)) IN
  [lt     |-> IF HasOpen(u) /\ n <= LastCommittedLT(u) THEN n + 1 ELSE n,
   open   |-> NoUnit,
   closed |-> Units(l)]

\* The round's bus, provider and tool events are out of scope.  Tools that
\* still run can only write to a channel nobody reads.
ForgetRound ==
  /\ rnd' = NoRound /\ rounds' = 0
  /\ prov' = "off" /\ streamed' = Nothing /\ bus' = <<>>
  /\ ack' = "none" /\ sendErr' = FALSE
  /\ exec' = AllIdle /\ folded' = NoneSeen

\* The turn ends: turn.done tells whether the inbox is empty, and runTurn
\* clears and cancels the turn's context on its way out.
Finish(u) ==
  /\ ForgetRound
  /\ pc' = "recv"
  /\ ui' = u
  /\ turnOn' = FALSE
  /\ cancelled' = TRUE
  /\ done' = IF queue' = <<>> THEN "idle" ELSE "busy"
  /\ UNCHANGED killed
-----------------------------------------------------------------------------
Init ==
  /\ queue = <<>> /\ wake = FALSE /\ closed = FALSE
  /\ log = <<>>
  /\ turnOn = FALSE /\ cancelled = FALSE /\ interrupted = FALSE /\ killed = FALSE
  /\ pc = "recv" /\ cur = <<>> /\ split = FALSE
  /\ turn = NoTurn /\ rnd = NoRound /\ rounds = 0
  /\ prov = "off" /\ streamed = Nothing /\ bus = <<>> /\ ack = "none" /\ sendErr = FALSE
  /\ readyQ = {} /\ exec = AllIdle /\ folded = NoneSeen
  /\ ui = [lt |-> 0, open |-> NoUnit, closed |-> {}]
  /\ sent = {} /\ accepted = <<>>
  /\ answered = {} /\ rejected = {} /\ done = "none" /\ torn = FALSE
  /\ budget = [left |-> MaxStrikes, struck |-> {}]

-----------------------------------------------------------------------------
(* Clients *)

\* SubmitPrompt, Set, CoordinateFork: each enqueues one event, or is refused.
Send(e) ==
  /\ pc # "boot"
  /\ e \notin sent
  /\ sent' = sent \cup {e}
  /\ IF closed THEN UNCHANGED <<queue, wake, accepted>>
     ELSE /\ queue' = Append(queue, e)
          /\ wake' = TRUE
          /\ accepted' = Append(accepted, e)
  /\ UNCHANGED <<closed, log, ctxs, pc, held, turn, rnd, rounds, provider, tools, ui, told, budget>>

Interrupt ==
  /\ turnOn /\ ~interrupted
  /\ Spend("interrupt")
  /\ interrupted' = TRUE
  /\ cancelled' = TRUE
  /\ UNCHANGED <<inbox, log, turnOn, killed, pc, held, turn, rnd, rounds, provider, tools, ui, asked, told>>

Kill ==
  /\ ~killed /\ pc \notin {"stopped", "boot"}
  /\ Spend("kill")
  /\ killed' = TRUE
  /\ cancelled' = TRUE
  /\ UNCHANGED <<inbox, log, turnOn, interrupted, pc, held, turn, rnd, rounds, provider, tools, ui, asked, told>>

\* Mutant: closing the inbox does not wake a waiting Recv.
CloseInboxUnheard ==
  /\ killed /\ ~closed /\ pc # "recv"
  /\ closed' = TRUE
  /\ UNCHANGED <<queue, wake, log, ctxs, pc, held, turn, rnd, rounds, provider, tools, ui, asked, told, budget>>

\* The goroutine NewInbox starts: it closes the inbox once the context is done.
CloseInbox ==
  /\ killed /\ ~closed
  /\ closed' = TRUE
  /\ UNCHANGED <<queue, wake, log, ctxs, pc, held, turn, rnd, rounds, provider, tools, ui, asked, told, budget>>

-----------------------------------------------------------------------------
(* The drain loop between turns *)

RecvPrompt ==
  /\ pc = "recv" /\ queue # <<>> /\ Head(queue) \in Prompts
  /\ queue' = Tail(queue)
  /\ cur' = <<Head(queue)>>
  /\ turnOn' = TRUE /\ interrupted' = FALSE /\ cancelled' = killed
  /\ pc' = "begin"
  /\ UNCHANGED <<wake, closed, log, killed, split, turn, rnd, rounds, provider, tools, ui, asked, told, budget>>

\* applyControlPatch: a backed aria writes the chalkboard channel, an ephemeral
\* one a message of its own.
RecvSet ==
  /\ pc = "recv" /\ queue # <<>> /\ Head(queue) \in Sets
  /\ queue' = Tail(queue)
  /\ log' = IF Backed THEN log ELSE Append(log, PatchEntry(Head(queue)))
  /\ UNCHANGED <<wake, closed, ctxs, pc, held, turn, rnd, rounds, provider, tools, ui, asked, told, budget>>

\* Mutant: the fork's caller gets no answer.
RecvForkUnanswered ==
  /\ pc = "recv" /\ queue # <<>> /\ Head(queue) \in Forks
  /\ queue' = Tail(queue)
  /\ UNCHANGED <<wake, closed, log, ctxs, pc, held, turn, rnd, rounds, provider, tools, ui, asked, told, budget>>

RecvFork ==
  /\ pc = "recv" /\ queue # <<>> /\ Head(queue) \in Forks
  /\ queue' = Tail(queue)
  /\ answered' = answered \cup {Head(queue)}
  /\ UNCHANGED <<wake, closed, log, ctxs, pc, held, turn, rnd, rounds, provider, tools, ui, asked, rejected, done, torn, budget>>

RecvClosed ==
  /\ pc = "recv" /\ queue = <<>> /\ closed
  /\ pc' = "stopped"
  /\ UNCHANGED <<inbox, log, ctxs, held, turn, rnd, rounds, provider, tools, ui, asked, told, budget>>

-----------------------------------------------------------------------------
(* The start of a turn and of a round *)

\* The prompt's append w, after the repair r.  A prompt that cannot be appended
\* is reported and dropped.
BeginWith(r, w) ==
  /\ log' = w.log /\ budget' = w.budget
  /\ torn' = (torn \/ (~r.ok /\ w.ok))
  /\ cur' = <<>>
  /\ IF w.ok
     THEN /\ ui' = OpenUnit(UserUnit(ui, Head(cur), w.log), "assistant", w.log)
          /\ turn' = NewTurn
          /\ pc' = "round"
          /\ UNCHANGED <<ctxs, rnd, rounds, provider, exec, folded, rejected, done>>
     ELSE /\ rejected' = rejected \cup {Head(cur)}
          /\ UNCHANGED <<queue, turn, interrupted>>
          /\ Finish(CommitUnit(ui))

\* runTurn up to its first round: repair the tail, append the prompt, open the
\* assistant unit.
BeginTurn ==
  /\ pc = "begin"
  /\ \E r \in RepairInterruptedTail(log, budget) :
     \E w \in TryAppend(r.log, r.budget, PromptEntry(Head(cur))) : BeginWith(r, w)
  /\ UNCHANGED <<inbox, split, readyQ, asked, answered>>

\* driveOneRound up to its first select: a bus and a provider of its own.
StartProvider ==
  /\ turn' = IF turn.on THEN turn ELSE NewTurn
  /\ rnd' = NoRound
  /\ rounds' = rounds + 1
  /\ prov' = "streaming" /\ streamed' = Nothing /\ bus' = <<>>
  /\ ack' = "none" /\ sendErr' = FALSE
  /\ readyQ' = {} /\ exec' = AllIdle /\ folded' = NoneSeen
  /\ pc' = "stream"

FirstRound ==
  /\ pc = "round" /\ rounds = 0
  /\ ServiceForks
  /\ StartProvider
  /\ UNCHANGED <<wake, closed, log, ctxs, held, ui, asked, rejected, done, torn, budget>>

\* composeTurn(nil) has no nodes: the log shows nothing after the unit's start.
ComposeEmpty(u, l) == \A i \in (u.open.from + 1)..Len(l) : ~Renders(l[i])

HasRenderablePrompt(ps) == \E i \in DOMAIN ps : ps[i] \notin Silent

\* prepareProviderRound: forks first, then the prompts that arrived meanwhile;
\* none are left, and the provider starts.
NextRound ==
  /\ pc = "round" /\ rounds > 0
  /\ \E n \in 0..Len(queue) :
       /\ ForkPrefix(queue, n)
       /\ answered' = answered \cup {queue[i] : i \in 1..n}
       /\ TakeReadyUserPrompts(Drop(queue, n), 0)
  /\ StartProvider
  /\ UNCHANGED <<closed, log, ctxs, held, ui, asked, rejected, done, torn, budget>>

SteerBeforeRound ==
  /\ pc = "round" /\ rounds > 0
  /\ \E n \in 0..Len(queue), m \in 1..Len(queue) :
       /\ ForkPrefix(queue, n)
       /\ m <= Len(queue) - n
       /\ answered' = answered \cup {queue[i] : i \in 1..n}
       /\ TakeReadyUserPrompts(Drop(queue, n), m)
       /\ cur' = SubSeq(queue, n + 1, n + m)
       /\ split' = HasRenderablePrompt(cur')
       /\ ui' = IF ~split' THEN ui
                ELSE IF ComposeEmpty(ui, log) THEN AbandonUnit(ui) ELSE CommitUnit(ui)
  /\ pc' = "append"
  /\ UNCHANGED <<closed, log, ctxs, turn, rnd, rounds, provider, tools, asked, rejected, done, torn, budget>>

\* Mutants: no early return for an empty batch; prompts are taken from behind a
\* chalkboard patch.
SteerEmptyBatch ==
  /\ pc = "steer" /\ ~interrupted
  /\ \E m \in 0..Len(queue) :
       /\ TakeReadyUserPrompts(queue, m)
       /\ cur' = SubSeq(queue, 1, m)
       /\ split' = HasRenderablePrompt(cur')
       /\ ui' = IF split' THEN CommitUnit(EmitDelta(ui, log)) ELSE EmitDelta(ui, log)
       /\ pc' = "append"
  /\ UNCHANGED <<closed, log, ctxs, turn, rnd, rounds, provider, tools, asked, told, budget>>

SteerPastPatches ==
  /\ pc = "steer" /\ ~interrupted
  /\ cur' = SelectSeq(queue, LAMBDA e : e \in Prompts)
  /\ queue' = SelectSeq(queue, LAMBDA e : e \notin Prompts)
  /\ split' = HasRenderablePrompt(cur')
  /\ ui' = IF split' THEN CommitUnit(EmitDelta(ui, log)) ELSE EmitDelta(ui, log)
  /\ pc' = IF cur' = <<>> THEN "round" ELSE "append"
  /\ UNCHANGED <<wake, closed, log, ctxs, turn, rnd, rounds, provider, tools, asked, told, budget>>

\* The results are shown; then appendSteeringPrompts.
SteerAfterTools ==
  /\ pc = "steer" /\ ~interrupted
  /\ \E m \in 0..Len(queue) :
       /\ TakeReadyUserPrompts(queue, m)
       /\ cur' = SubSeq(queue, 1, m)
       /\ split' = HasRenderablePrompt(cur')
       /\ ui' = IF split' THEN CommitUnit(EmitDelta(ui, log)) ELSE EmitDelta(ui, log)
       /\ pc' = IF m = 0 THEN "round" ELSE "append"
  /\ UNCHANGED <<closed, log, ctxs, turn, rnd, rounds, provider, tools, asked, told, budget>>

\* The append w of one steering prompt: the rest goes back to the inbox when it
\* fails, and the turn ends.
SteerWith(w) ==
  /\ log' = w.log /\ budget' = w.budget
  /\ IF w.ok
     THEN LET u == UserUnit(ui, Head(cur), w.log)
              last == Len(cur) = 1
          IN /\ cur' = Tail(cur)
             /\ ui' = IF last /\ split THEN OpenUnit(u, "assistant", w.log) ELSE u
             /\ turn' = IF last /\ split THEN NewTurn ELSE turn
             /\ pc' = IF last THEN "round" ELSE pc
             /\ UNCHANGED <<queue, wake, ctxs, rnd, rounds, provider, exec, folded, done>>
     ELSE /\ Prepend(cur)
          /\ cur' = <<>>
          /\ UNCHANGED <<turn, interrupted>>
          /\ Finish(CommitUnit(ui))

\* appendPromptEvents
AppendSteering ==
  /\ pc = "append"
  /\ \E w \in TryAppend(log, budget, PromptEntry(Head(cur))) : SteerWith(w)
  /\ UNCHANGED <<closed, split, readyQ, asked, answered, rejected, torn>>
-----------------------------------------------------------------------------
(* The provider goroutine.  Its calls on the bus block while the bus is full; *)
(* only PushFigaro gives up when the turn is cancelled.                       *)

MayCall == rounds <= MaxRounds

Push(kind, text, calls) ==
  /\ Len(bus) < BusCap
  /\ bus' = Append(bus, [kind |-> kind, text |-> text, calls |-> calls])

PushDelta ==
  /\ prov = "streaming" /\ ~streamed.text
  /\ Push("delta", TRUE, {})
  /\ streamed' = [streamed EXCEPT !.text = TRUE]
  /\ UNCHANGED <<inbox, log, ctxs, pc, held, turn, rnd, rounds, prov, ack, sendErr, tools, ui, asked, told, budget>>

\* The decoded call joins the stream, and the dispatcher's queue if it fits.
PushToolReady(c) ==
  /\ prov = "streaming" /\ MayCall /\ c \notin streamed.ready \cup Malformed
  /\ Push("ready", FALSE, {c})
  /\ streamed' = [streamed EXCEPT !.ready = @ \cup {c}]
  /\ readyQ' = IF Cardinality(readyQ) < ReadyCap THEN readyQ \cup {c} ELSE readyQ
  /\ UNCHANGED <<inbox, log, ctxs, pc, held, turn, rnd, rounds, prov, ack, sendErr, exec, folded, ui, asked, told, budget>>

\* The assembled message: the streamed text, the calls made ready, and the
\* calls whose input never decoded.
PushFigaro ==
  /\ prov = "streaming"
  /\ \E bad \in SUBSET Malformed :
       /\ bad = {} \/ MayCall
       /\ Push("figaro", streamed.text, streamed.ready \cup bad)
  /\ prov' = "awaiting"
  /\ UNCHANGED <<inbox, log, ctxs, pc, held, turn, rnd, rounds, streamed, ack, sendErr, tools, ui, asked, told, budget>>

\* Send returns: with the answer to PushFigaro; with an error because the turn
\* was cancelled or the stream broke; or with nothing to say.
ProviderReturn ==
  /\ \/ prov = "awaiting" /\ ack # "none" /\ sendErr' = (ack = "err")
     \/ prov = "awaiting" /\ cancelled /\ sendErr' = TRUE
     \/ prov = "streaming" /\ sendErr' = TRUE
     \/ prov = "streaming" /\ streamed.ready = {} /\ sendErr' = FALSE
  /\ prov' = "returned"
  /\ UNCHANGED <<inbox, log, ctxs, pc, held, turn, rnd, rounds, streamed, bus, ack, tools, ui, asked, told, budget>>

-----------------------------------------------------------------------------
(* Speculative dispatch and the tool goroutines *)

Dispatch(calls) ==
  exec' = [c \in Calls |-> IF c \in calls /\ exec[c] = "idle" THEN "running" ELSE exec[c]]

SpecDispatch(c) ==
  /\ c \in readyQ
  /\ readyQ' = readyQ \ {c}
  /\ IF interrupted THEN UNCHANGED exec ELSE Dispatch({c})
  /\ UNCHANGED <<inbox, log, ctxs, pc, held, turn, rnd, rounds, provider, folded, ui, asked, told, budget>>

\* The tool returns; an interrupted agent is not told (emitEnd).
ToolEnd(c) ==
  /\ exec[c] = "running"
  /\ \E outcome \in {"ok", "error"} :
       exec' = [exec EXCEPT ![c] = IF interrupted THEN "silent" ELSE outcome]
  /\ UNCHANGED <<inbox, log, ctxs, pc, held, turn, rnd, rounds, provider, readyQ, folded, ui, asked, told, budget>>

-----------------------------------------------------------------------------
(* Phase 1: fold the stream *)

\* Mutant: forkWake is not disarmed by the seal.
ForkAnytime ==
  /\ pc = "stream" /\ wake
  /\ wake' = FALSE
  /\ ServiceForks
  /\ UNCHANGED <<closed, log, ctxs, pc, held, turn, rnd, rounds, provider, tools, ui, asked, rejected, done, torn, budget>>

\* The wake token is taken and the ready forks run, unless the sealed message
\* waits for the provider to return.
ForkWhileStreaming ==
  /\ pc = "stream" /\ wake /\ ack = "none"
  /\ wake' = FALSE
  /\ ServiceForks
  /\ UNCHANGED <<closed, log, ctxs, pc, held, turn, rnd, rounds, provider, tools, ui, asked, rejected, done, torn, budget>>

\* noteAssistant of the message assembled so far.
FoldStream ==
  /\ pc = "stream" /\ bus # <<>> /\ Head(bus).kind \in {"delta", "ready"}
  /\ bus' = Tail(bus)
  /\ turn' = IF ~turn.on THEN turn
             ELSE [turn EXCEPT !.text = @ \/ Head(bus).text, !.tools = @ \cup Head(bus).calls]
  /\ UNCHANGED <<inbox, log, ctxs, pc, held, rnd, rounds, prov, streamed, ack, sendErr, tools, ui, asked, told, budget>>

\* One tool event: its first makes the call running, its last gives the outcome.
FoldTool(c) ==
  /\ pc = "stream" \/ (pc = "collect" /\ \E d \in rnd.calls : folded[d] \notin {"ok", "error"})
  /\ \/ /\ folded[c] = "none" /\ exec[c] # "idle"
        /\ folded' = [folded EXCEPT ![c] = "running"]
     \/ /\ folded[c] = "running" /\ exec[c] \in {"ok", "error"}
        /\ folded' = [folded EXCEPT ![c] = exec[c]]
  /\ UNCHANGED <<inbox, log, ctxs, pc, held, turn, rnd, rounds, provider, readyQ, exec, ui, asked, told, budget>>

\* commitAssistantCache may fail like any write.
CommitCache(b) ==
  {[ok |-> TRUE, budget |-> b]} \cup
  (IF Backed /\ CanStrike("fault", b)
   THEN {[ok |-> FALSE, budget |-> Strike("fault", b)]} ELSE {})

\* Mutant: the append is not marked committed.
SealUnmarked(m, w, k) ==
  /\ log' = w.log /\ budget' = k.budget
  /\ rnd' = [err |-> ~k.ok, sealed |-> k.ok, calls |-> IF k.ok THEN m.calls ELSE {}]
  /\ turn' = IF k.ok /\ m.calls = {} THEN NoTurn
             ELSE [turn EXCEPT !.text = m.text, !.tools = m.calls \ Malformed]
  /\ cancelled' = (cancelled \/ ~k.ok)

\* The append w of the message m and the commit k of its cache.  A failure ends
\* the round and cancels the turn.
SealWith(m, w, k) ==
  /\ log' = w.log /\ budget' = k.budget
  /\ rnd' = [err |-> ~k.ok, sealed |-> k.ok, calls |-> IF k.ok THEN m.calls ELSE {}]
  /\ turn' = IF k.ok /\ m.calls = {} THEN NoTurn
             ELSE [turn EXCEPT !.text = m.text, !.tools = m.calls \ Malformed, !.committed = w.ok]
  /\ cancelled' = (cancelled \/ ~k.ok)

\* evFigaro: append the assistant message and commit its cache.
SealAssistant ==
  /\ pc = "stream" /\ bus # <<>> /\ Head(bus).kind = "figaro" /\ ~interrupted
  /\ bus' = Tail(bus)
  /\ \E w \in TryAppend(log, budget, AssistantEntry(Head(bus).text, Head(bus).calls)) :
     \E k \in (IF w.ok THEN CommitCache(w.budget) ELSE {[ok |-> FALSE, budget |-> w.budget]}) :
       SealWith(Head(bus), w, k)
  /\ pc' = "sealing"
  /\ UNCHANGED <<inbox, turnOn, interrupted, killed, held, rounds, prov, streamed, ack, sendErr, tools, ui, asked, told>>

\* The rest of the handler: show the message, answer the provider.  An
\* interrupted turn shows nothing (emitLive).
AckAssistant ==
  /\ pc = "sealing"
  /\ ui' = IF rnd.err \/ interrupted THEN ui ELSE EmitDelta(ui, log)
  /\ ack' = IF rnd.err THEN "err" ELSE "ok"
  /\ pc' = "stream"
  /\ UNCHANGED <<inbox, log, ctxs, held, turn, rnd, rounds, prov, streamed, bus, sendErr, tools, asked, told, budget>>

RefuseAssistant ==
  /\ pc = "stream" /\ bus # <<>> /\ Head(bus).kind = "figaro" /\ interrupted
  /\ bus' = Tail(bus)
  /\ ack' = "err"
  /\ UNCHANGED <<inbox, log, ctxs, pc, held, turn, rnd, rounds, prov, streamed, sendErr, tools, ui, asked, told, budget>>

\* The provider has returned and its last event was folded.
Drained == pc = "stream" /\ prov = "returned" /\ bus = <<>>

\* Interrupted: seal what there is, without waiting for the dispatcher.
StopInterrupted ==
  /\ Drained /\ ~rnd.err /\ interrupted
  /\ \E s \in SealTurn(log, budget) :
       /\ log' = s.log /\ budget' = s.budget
       /\ IF s.ok
          THEN /\ ServiceForks
               /\ Finish(CommitUnit(IF s.wrote THEN EmitDelta(ui, s.log) ELSE ui))
          ELSE /\ UNCHANGED <<queue, answered>>
               /\ Finish(Reconcile(ui, s.log))
  /\ turn' = NoTurn
  /\ UNCHANGED <<wake, closed, interrupted, held, readyQ, asked, rejected, torn>>

\* Send failed: seal what there is.  A message sealed before the failure, with
\* no calls, only needs its unit committed.
StopSendError ==
  /\ Drained /\ ~rnd.err /\ ~interrupted /\ sendErr
  /\ ServiceForks
  /\ \E s \in SealTurn(log, budget) :
       /\ log' = s.log /\ budget' = s.budget
       /\ LET u == IF s.wrote THEN EmitDelta(ui, s.log)
                   ELSE IF ~s.ok THEN Reconcile(ui, s.log)
                   ELSE IF rnd.sealed THEN EmitDelta(ui, log) ELSE ui
          IN Finish(IF ~turn.on /\ ~rnd.sealed THEN AbandonUnit(ui)
                    ELSE IF s.ok THEN CommitUnit(u) ELSE u)
  /\ turn' = NoTurn
  /\ UNCHANGED <<wake, closed, interrupted, held, readyQ, asked, rejected, torn>>

\* Every other way out of phase 1 waits for the dispatcher; a message with calls
\* first serves the forks its seal held back.
LeaveStream ==
  /\ Drained /\ (rnd.err \/ (~interrupted /\ ~sendErr))
  /\ IF ~rnd.err /\ rnd.sealed /\ rnd.calls # {} THEN ServiceForks ELSE UNCHANGED <<queue, answered>>
  /\ turn' = IF ~rnd.err /\ rnd.sealed /\ rnd.calls = {} THEN NoTurn ELSE turn
  /\ ui' = IF ~rnd.err /\ rnd.sealed THEN EmitDelta(ui, log) ELSE ui
  /\ pc' = "waitspec"
  /\ UNCHANGED <<wake, closed, log, ctxs, held, rnd, rounds, provider, tools, asked, rejected, done, torn, budget>>
-----------------------------------------------------------------------------
(* waitWithForks(specDone), and the rounds that end there *)

ForkWhileWaiting ==
  /\ pc = "waitspec" /\ wake
  /\ wake' = FALSE
  /\ ServiceForks
  /\ UNCHANGED <<closed, log, ctxs, pc, held, turn, rnd, rounds, provider, tools, ui, asked, rejected, done, torn, budget>>

SpecDone == pc = "waitspec" /\ readyQ = {}

EndRoundError ==
  /\ SpecDone /\ rnd.err
  /\ ServiceForks
  /\ \E s \in SealTurn(log, budget) :
       /\ log' = s.log /\ budget' = s.budget
       /\ Finish(IF s.wrote THEN CommitUnit(EmitDelta(ui, s.log)) ELSE Reconcile(ui, s.log))
  /\ turn' = NoTurn
  /\ UNCHANGED <<wake, closed, interrupted, held, readyQ, asked, rejected, torn>>

\* The provider sent no message: an empty one takes its place in the log.
EndUnsealed ==
  /\ SpecDone /\ ~rnd.err /\ ~rnd.sealed
  /\ \E w \in TryAppend(log, budget, AssistantEntry(FALSE, {})) :
       /\ log' = w.log /\ budget' = w.budget
       /\ IF w.ok THEN ServiceForks /\ Finish(CommitUnit(ui))
          ELSE UNCHANGED <<queue, answered>> /\ Finish(Reconcile(ui, w.log))
  /\ turn' = NoTurn
  /\ UNCHANGED <<wake, closed, interrupted, held, readyQ, asked, rejected, torn>>

EndNoCalls ==
  /\ SpecDone /\ ~rnd.err /\ rnd.sealed /\ rnd.calls = {}
  /\ ServiceForks
  /\ Finish(CommitUnit(ui))
  /\ UNCHANGED <<wake, closed, log, interrupted, held, turn, readyQ, asked, rejected, torn, budget>>

-----------------------------------------------------------------------------
(* Phase 2: run the tools and record their results *)

BeginCollect ==
  /\ SpecDone /\ ~rnd.err /\ rnd.calls # {}
  /\ Dispatch(rnd.calls)
  /\ pc' = "collect"
  /\ UNCHANGED <<inbox, log, ctxs, held, turn, rnd, rounds, provider, readyQ, folded, ui, asked, told, budget>>

AllFolded == \A c \in rnd.calls : folded[c] \in {"ok", "error"}

ForkWhileCollecting ==
  /\ pc = "collect" /\ ~AllFolded /\ wake
  /\ wake' = FALSE
  /\ ServiceForks
  /\ UNCHANGED <<closed, log, ctxs, pc, held, turn, rnd, rounds, provider, tools, ui, asked, rejected, done, torn, budget>>

EndCollect ==
  /\ pc = "collect" /\ (AllFolded \/ cancelled)
  /\ pc' = "record"
  /\ UNCHANGED <<inbox, log, ctxs, held, turn, rnd, rounds, provider, tools, ui, asked, told, budget>>

\* assembleToolResults: a call whose outcome was not read gets the zero outcome.
AssembledResults ==
  ResultEntry(rnd.calls,
    [c \in Calls |-> IF folded[c] \in {"ok", "error"} THEN folded[c] ELSE "empty"])

\* The results are appended; when that fails, sealTurn tries once more.
RecordResults ==
  /\ pc = "record" /\ ~interrupted
  /\ \E w \in TryAppend(log, budget, AssembledResults) :
       IF w.ok
       THEN /\ log' = w.log /\ budget' = w.budget
            /\ pc' = "steer"
            /\ UNCHANGED <<ctxs, rnd, rounds, provider, exec, folded, ui, done>>
       ELSE \E s \in SealTurn(w.log, w.budget) :
              /\ log' = s.log /\ budget' = s.budget
              /\ UNCHANGED <<queue, interrupted>>
              /\ Finish(IF s.wrote THEN CommitUnit(EmitDelta(ui, s.log)) ELSE Reconcile(ui, s.log))
  /\ turn' = NoTurn
  /\ UNCHANGED <<inbox, held, readyQ, asked, answered, rejected, torn>>

RecordInterrupted ==
  /\ pc = "record" /\ interrupted
  /\ \E s \in SealTurn(log, budget) :
       /\ log' = s.log /\ budget' = s.budget
       /\ UNCHANGED queue
       /\ Finish(IF ~s.ok THEN Reconcile(ui, s.log)
                 ELSE CommitUnit(IF s.wrote THEN EmitDelta(ui, s.log) ELSE ui))
  /\ turn' = NoTurn
  /\ UNCHANGED <<wake, closed, interrupted, held, readyQ, asked, answered, rejected, torn>>

\* An interrupt after the results were appended: they are not shown.
SteerInterrupted ==
  /\ pc = "steer" /\ interrupted
  /\ UNCHANGED queue
  /\ Finish(CommitUnit(ui))
  /\ UNCHANGED <<wake, closed, log, interrupted, held, turn, readyQ, asked, answered, rejected, torn, budget>>

-----------------------------------------------------------------------------
(* Panics, process death, restart *)

\* The drain loop panics inside a turn.  What it held is gone; the provider and
\* the dispatcher are left with a bus nobody reads.
Panic ==
  /\ pc \in {"begin", "round", "append", "stream", "sealing", "waitspec", "collect", "record", "steer"}
  /\ Spend("panic")
  /\ pc' = "panicked"
  /\ cur' = <<>>
  /\ turnOn' = FALSE /\ cancelled' = TRUE
  /\ prov' = "off" /\ bus' = <<>> /\ readyQ' = {}
  /\ UNCHANGED <<inbox, log, interrupted, killed, split, turn, rnd, rounds, streamed, ack, sendErr, exec, folded, ui, asked, told>>

\* runWithRecovery: reopen the log, seal, repair, rebuild the units, go on.  A
\* killed agent stops instead.
Recover ==
  /\ pc = "panicked" /\ ~killed
  /\ \E s \in SealTurn(IF Backed THEN log ELSE <<>>, budget) :
     \E r \in RepairInterruptedTail(s.log, s.budget) :
       /\ log' = r.log /\ budget' = r.budget
       /\ UNCHANGED queue
       /\ Finish(Reconcile(ui, r.log))
  /\ turn' = NoTurn
  /\ interrupted' = FALSE
  /\ UNCHANGED <<wake, closed, held, readyQ, asked, answered, rejected, torn>>

StopPanicked ==
  /\ pc = "panicked" /\ killed
  /\ pc' = "stopped"
  /\ UNCHANGED <<inbox, log, ctxs, held, turn, rnd, rounds, provider, tools, ui, asked, told, budget>>

\* Everything but the log is gone.
Forget ==
  /\ Backed
  /\ Spend("boot")
  /\ pc' = "boot"
  /\ queue' = <<>> /\ wake' = FALSE /\ closed' = FALSE
  /\ turnOn' = FALSE /\ cancelled' = FALSE /\ interrupted' = FALSE /\ killed' = FALSE
  /\ cur' = <<>> /\ split' = FALSE
  /\ turn' = NoTurn
  /\ ForgetRound /\ readyQ' = {}
  /\ ui' = [lt |-> 0, open |-> NoUnit, closed |-> {}]
  /\ UNCHANGED <<asked, told>>

\* The process dies; the store had flushed some prefix of the log.
Crash ==
  /\ pc # "boot"
  /\ \E k \in 0..Len(log) : log' = SubSeq(log, 1, k)
  /\ Forget

\* A stopped aria is attached again.
Restart ==
  /\ pc = "stopped"
  /\ UNCHANGED log
  /\ Forget

\* NewAgent on an existing log.
Boot ==
  /\ pc = "boot"
  /\ \E r \in RepairInterruptedTail(log, budget) :
       /\ log' = r.log /\ budget' = r.budget
       /\ ui' = [lt |-> Cardinality(Heads(r.log)), open |-> NoUnit, closed |-> Units(r.log)]
  /\ pc' = "recv"
  /\ UNCHANGED <<inbox, ctxs, held, turn, rnd, rounds, provider, tools, asked, told>>

-----------------------------------------------------------------------------
\* An idle agent waits for its next event; a stopped one for nothing.
Quiescent ==
  /\ (pc = "recv" /\ queue = <<>> /\ ~closed) \/ pc = "stopped"
  /\ UNCHANGED vars

Clients == (\E e \in Events : Send(e)) \/ Interrupt \/ Kill

Between == RecvPrompt \/ RecvSet \/ RecvFork \/ RecvClosed

Rounds == BeginTurn \/ FirstRound \/ NextRound \/ SteerBeforeRound \/ SteerAfterTools
          \/ AppendSteering

Phase1 == ForkWhileStreaming \/ FoldStream \/ SealAssistant \/ AckAssistant \/ RefuseAssistant
          \/ StopInterrupted \/ StopSendError \/ LeaveStream

Phase2 == ForkWhileWaiting \/ EndRoundError \/ EndUnsealed \/ EndNoCalls \/ BeginCollect
          \/ ForkWhileCollecting \/ EndCollect \/ RecordResults \/ RecordInterrupted
          \/ SteerInterrupted

Drain == Between \/ Rounds \/ Phase1 \/ Phase2 \/ (\E c \in Calls : FoldTool(c))
         \/ Recover \/ StopPanicked

Provider == PushDelta \/ (\E c \in Calls : PushToolReady(c)) \/ PushFigaro \/ ProviderReturn

ToolRuns == \E c \in Calls : SpecDispatch(c) \/ ToolEnd(c)

Failures == Panic \/ Crash \/ Restart

Next == Clients \/ CloseInbox \/ Drain \/ Provider \/ ToolRuns \/ Failures \/ Boot \/ Quiescent

Spec == Init /\ [][Next]_vars
-----------------------------------------------------------------------------
(* Fairness: the drain loop, the inbox closer, the dispatcher and the tools   *)
(* are goroutines that always get to run; Send returns in the end, because it *)
(* streams a finite reply and honours its context.                            *)

FairSpec ==
  /\ Spec
  /\ WF_vars(Drain) /\ WF_vars(CloseInbox) /\ WF_vars(Provider)
  /\ \A c \in Calls : WF_vars(SpecDispatch(c)) /\ WF_vars(ToolEnd(c))

-----------------------------------------------------------------------------
(* Safety *)

\* Two things break the pairing of the log and are left out of its statement:
\* the repair append failing just before the prompt's append succeeds, and a
\* panic of an ephemeral aria, which reopens an empty log before it seals.
Sound == ~torn /\ (Backed \/ ~Struck("panic"))

\* Every assistant message with tool calls is followed by the results of its
\* calls, through interrupts, failed appends, panics, kills and crashes
\* (sealTurn, repairInterruptedTail).
TranscriptPaired == Sound => WellPaired(log)

TurnEmpty == ~turn.committed /\ ~turn.text /\ turn.tools = {}

\* What a.turn knows of the log's tail, which sealTurn relies on wherever the
\* turn is cut short: a committed message is the tail and its tools are the
\* calls that were noted; anything noted but not committed owes no results.
SealKnowsTail ==
  /\ turn.committed =>
       /\ turn.on /\ log # <<>>
       /\ log[Len(log)].kind = "assistant"
       /\ turn.tools = log[Len(log)].calls \ Malformed
  /\ (~turn.committed /\ ~TurnEmpty) => ~Owes(log)

\* Where the drain loop may append a message that answers nothing.
TailIsSettled ==
  /\ pc \in {"round", "append", "steer"} => ~Owes(log)
  /\ (pc \in {"stream", "sealing", "waitspec"} /\ ~turn.committed) => ~Owes(log)
  /\ (pc = "recv" /\ ~Backed) => ~Owes(log)

\* The round agrees with the turn on what was sealed.
RoundKnowsTurn ==
  /\ ~turn.on => TurnEmpty
  /\ pc \in {"recv", "begin", "round", "append", "steer", "boot"} => TurnEmpty
  /\ (pc \in {"stream", "sealing"} /\ rnd = NoRound) => turn.on
  /\ rnd.calls # {} => rnd.sealed
  /\ pc \in {"collect", "record"} => rnd.calls # {}
  /\ pc \in {"stream", "sealing", "waitspec"} =>
       /\ turn.committed => rnd.sealed \/ rnd.err
       /\ (rnd.sealed /\ rnd.calls = {}) => ~turn.on
  /\ (pc \in {"stream", "sealing", "waitspec", "collect", "record"} /\ rnd.calls # {}) =>
       turn.committed /\ rnd.calls = log[Len(log)].calls

\* One message per round: it is the last event of the bus, and nothing is
\* sealed before it is taken.
OneMessagePerRound ==
  /\ (bus # <<>> \/ prov = "streaming") => pc = "stream" /\ rnd = NoRound
  /\ \A i \in DOMAIN bus : bus[i].kind = "figaro" => i = Len(bus) /\ prov # "streaming"

\* The inductive invariant behind TranscriptPaired.
TurnInv ==
  /\ OneMessagePerRound
  /\ pc = "panicked" => Struck("panic")
  /\ Sound => WellPaired(log) /\ SealKnowsTail /\ TailIsSettled /\ RoundKnowsTurn

\* The events in the log are in the order the inbox accepted them, each once,
\* although steering prompts are taken in batches, ahead of the turn's end, and
\* put back when an append fails (TakeReadyUserPrompts, Prepend).
EventsOnceInOrder ==
  \A i, j \in DOMAIN log :
    (i < j /\ log[i].event # NoEvent /\ log[j].event # NoEvent) =>
      \E a, b \in DOMAIN accepted :
        a < b /\ accepted[a] = log[i].event /\ accepted[b] = log[j].event

Places(p) ==
  Cardinality({i \in DOMAIN queue : queue[i] = p})
  + Cardinality({i \in DOMAIN cur : cur[i] = p})
  + Cardinality({i \in DOMAIN log : log[i].kind = "prompt" /\ log[i].event = p})
  + (IF p \in rejected THEN 1 ELSE 0)

\* An accepted prompt is in exactly one place: queued, in the drain loop's
\* hands, in the log, or reported as failed (runTurn).  Only a panic, a kill
\* or the death of the process may lose one.
NoPromptLost ==
  (~Struck("panic") /\ ~Struck("boot") /\ ~killed) =>
    \A i \in DOMAIN accepted : accepted[i] \in Prompts => Places(accepted[i]) = 1

Shows(u, i) ==
  /\ u.from < i /\ i <= u.seen
  /\ u.role = IF IsTextPrompt(log[i]) THEN "user" ELSE "assistant"

\* No message is shown by two committed units, so no client sees it twice
\* (endTurnDiscarding, reconcileAriaServer).
RenderedAtMostOnce ==
  \A i \in DOMAIN log : IsTextPrompt(log[i]) \/ Renders(log[i]) =>
    \A u, v \in ui.closed : Shows(u, i) /\ Shows(v, i) => u = v

\* Between turns the committed units show every message of the log, results
\* included: a client needs no restart of the daemon to see what the model saw.
CommittedShowLog ==
  pc = "recv" =>
    \A i \in DOMAIN log :
      IsTextPrompt(log[i]) \/ Renders(log[i]) \/ (log[i].kind = "results" /\ i > 1)
        => \E u \in ui.closed : Shows(u, i)

\* The same, when no append failed, nobody interrupted and the agent was not
\* killed: a killed agent ends its turn on a tail that only the next turn repairs.
UndisturbedShowLog == (~Struck("fault") /\ ~Struck("interrupt") /\ ~killed) => CommittedShowLog

-----------------------------------------------------------------------------
(* Action properties *)

\* No fork runs between the append of an assistant message and the return of
\* the provider that sent it: a branch never misses the provider's cache
\* (forkWake = nil once the seal is acknowledged).
ForkAtSafePoint ==
  [][answered' # answered =>
       /\ pc # "sealing"
       /\ ~(prov = "awaiting" /\ ack = "ok")]_vars

\* A result recorded as the tool's own is the outcome the tool ended with, even
\* when the turn is sealed while its tools run.
ResultsHonest ==
  [][\A i \in DOMAIN log' :
       (i > Len(log) /\ log'[i].kind = "results") =>
         \A c \in Calls : log'[i].res[c] \in {"ok", "error"} => exec[c] = log'[i].res[c]]_vars

-----------------------------------------------------------------------------
(* Liveness *)

\* Kill waits for the drain loop: it stops, whatever the turn was doing.
KillStops == killed ~> (pc = "stopped" \/ ~killed)

\* CoordinateFork returns: its fork runs, or the agent stops.
ForksAnswered ==
  \A f \in Forks :
    (\E i \in DOMAIN queue : queue[i] = f) ~> (f \in answered \/ pc \in {"stopped", "boot"})

=============================================================================
