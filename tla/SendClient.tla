------------------------------ MODULE SendClient ------------------------------
(***************************************************************************)
(* One command that prompts or follows an aria (internal/cli: send.go,     *)
(* stream.go, plain.go, listen.go), what it leaves in the terminal's       *)
(* scrollback (livelog_bridge.go, livelog/render/incipit.go), and the agent*)
(* as it appears on the connection.                                        *)
(*                                                                         *)
(* The notify pump, the key loop, the goroutines that read a catch-up and  *)
(* the main goroutine interleave; each takes one mutex for what it does to *)
(* the screen.  A message is its LT, its role and the version of its text. *)
(***************************************************************************)
EXTENDS Naturals, SequencesExt

CONSTANTS
  Modes,       \* the commands of this instance
  Prior,       \* numbers of units the aria may have before the command dials
  Busy,        \* whether another prompt may be under way by then
  MaxFrames,   \* live frames of one reply
  Tall,        \* the version whose rows reach the height of the viewport
  ClosedLimit, \* transcriptTailLimit: closed messages the client retains
  PageSize,    \* transcriptPageSize
  WireCap,     \* notifications under way when the agent is held up
  MaxFaults    \* reads and calls that fail, and deaths of the agent

\* The interactive commands, and those that write plain text.
Rich    == {"send", "listen"}
Plain   == {"raw", "verbatim"}
AllModes == Rich \cup Plain \cup {"forget"}

ASSUME SendClientAssumption ==
  /\ Modes \subseteq AllModes /\ Prior \subseteq Nat /\ Busy \in BOOLEAN
  /\ MaxFrames \in Nat \ {0} /\ Tall \in Nat \ {0} /\ ClosedLimit \in Nat \ {0}
  /\ PageSize \in Nat \ {0} /\ WireCap \in Nat \ {0} /\ MaxFaults \in Nat

VARIABLES
  mode,      \* which command this is
  base,      \* the agent's last LT when the command dialled
  \* the agent
  units,     \* its closed messages
  open,      \* the message it is streaming
  lastLT,    \* Agent.unitLT
  inbox,     \* prompts queued
  serving,   \* prompts the running turn answers; {} when there is none
  ending,    \* a turn.done whose idle flag is computed and which is not sent yet
  stopped,   \* figaro.interrupt has reached the running turn
  alive,     \* the connection stands
  wire,      \* notifications and replies to the command, in order
  \* the command
  ui,        \* the client's copy, livelogTurn and Incipit (or the plain sink)
  reads,     \* catch-up reads in flight: asked from an LT, or answered by a page
  keys,      \* the key loop: its stage and what enterTranscript has read
  main,      \* the main goroutine
  qua,       \* our prompt: "no", "sent", "accepted", "replied"
  cursor,    \* sendCursor is set
  running, listen, doneCh, detach, cancelled, sawError,
  exit,      \* how the command ended
  faults,
  missed,    \* the only turn.done that could end the command came before cursor
  dropped    \* a catch-up read was given up

agent == <<units, open, lastLT, inbox, serving, ending, stopped>>
flags == <<cursor, running, listen, doneCh, detach, cancelled, sawError>>
given == <<mode, base>>
ghosts == <<missed, dropped>>
vars  == <<given, agent, alive, wire, ui, reads, keys, main, qua, flags, exit, faults, ghosts>>

NoMsg     == [lt |-> 0, role |-> "", v |-> 0]
Msg(u)    == [lt |-> u.lt, role |-> u.role, v |-> u.v]
Page(c, l) == [committed |-> c, live |-> l]
Whole(u)  == [msg |-> Msg(u), full |-> TRUE]
Marker(m) == [msg |-> m, full |-> FALSE]

-----------------------------------------------------------------------------
(* Incipit: scroll is what is in the scrollback for good, in order; live the   *)
(* region that may still be repainted.                                         *)

Note(u, m, sealed) == [u EXCEPT !.scroll = Append(@, [lt |-> m.lt, v |-> m.v, sealed |-> sealed])]

\* dropBelow and reset: what was live stays where it is.
DropBelow(u) == IF u.live.lt = 0 THEN u ELSE [Note(u, u.live, FALSE) EXCEPT !.live = NoMsg]

OpenRegion(u, m) == [IF m.lt = u.live.lt THEN u ELSE DropBelow(u) EXCEPT !.live = m]

Seal(u, m) == IF m.lt = u.live.lt THEN [Note(u, u.live, TRUE) EXCEPT !.live = NoMsg]
              ELSE Note(u, m, TRUE)

PrintMessage(u, m) == Note(u, m, TRUE)

Resume(u, closed, m) ==
  LET w == FoldLeft(PrintMessage, [u EXCEPT !.live = NoMsg], closed)
  IN IF m.lt = 0 THEN w ELSE OpenRegion(w, m)

-----------------------------------------------------------------------------
(* livelogTurn *)

Sealed(u, m) == [Seal(u, m) EXCEPT !.lastSealed = IF m.lt > @ THEN m.lt ELSE @]

SealPending(u) ==
  IF u.pending.lt = 0 THEN u
  ELSE [Sealed(OpenRegion(u, u.pending), u.pending) EXCEPT !.pending = NoMsg]

\* OnClosed.  A reply waits for its turn to end, unless it has.
TurnClosed(u, m) ==
  IF u.pager THEN [u EXCEPT !.pagerClosed = IF u.lastSealed = 0 THEN @ ELSE Append(@, m)]
  ELSE IF m.role = "assistant"
  THEN LET w == [u EXCEPT !.pending = m] IN IF u.finished THEN SealPending(w) ELSE w
  ELSE Sealed(u, m)

OpenOverflows(m) == m.v >= Tall

\* OnLive
TurnLive(u, m) ==
  LET w == [u EXCEPT !.shown = m,
                     !.finished = @ /\ ~(m.role = "assistant" /\ m.lt # u.shown.lt),
                     !.pager = @ \/ OpenOverflows(m)]
  IN IF w.pager THEN w ELSE OpenRegion(w, m)

FinishTurn(u, isErr) ==
  LET w == SealPending([u EXCEPT !.finished = TRUE])
      r == OpenRegion(w, u.shown)
  IN IF u.pager THEN [u EXCEPT !.finished = TRUE]
     ELSE IF u.pending.lt # 0 \/ u.shown.role # "assistant" THEN w
     ELSE IF isErr THEN DropBelow(r) ELSE r

\* The last user message the client holds, or the best there is.
LastTurnStartLT(u) ==
  LET users == {m \in u.closed : m.role = "user"}
  IN IF users # {} THEN Max({m.lt : m \in users})
     ELSE IF u.open.lt # 0 THEN u.open.lt
     ELSE Max({0} \cup {m.lt : m \in u.closed})

FlushFrom(u) == IF u.lastSealed = 0 THEN LastTurnStartLT(u) ELSE u.lastSealed + 1

ByLT(a, b) == a.lt < b.lt

\* Mutants: what closed under the pager is printed, and so is what the client
\* holds; only what closed under the pager is.
FlushBoth(u) ==
  LET from   == FlushFrom(u)
      kept   == SelectSeq(u.pagerClosed, LAMBDA m : m.lt >= from)
      more   == SetToSortSeq({m \in u.closed : m.lt >= from}, ByLT)
      closed == SortSeq(kept \o more, ByLT)
  IN [Resume(u, closed, IF u.open.lt >= from THEN u.open ELSE NoMsg)
        EXCEPT !.pagerClosed = <<>>]

FlushKept(u) ==
  LET kept == SelectSeq(u.pagerClosed, LAMBDA m : m.lt >= FlushFrom(u))
  IN [Resume(u, SortSeq(kept, ByLT), u.open) EXCEPT !.pagerClosed = <<>>]

FlushTail(u) ==
  LET from   == FlushFrom(u)
      kept   == SelectSeq(u.pagerClosed, LAMBDA m : m.lt >= from)
      more   == {m \in u.closed : m.lt >= from /\ \A i \in DOMAIN kept : kept[i].lt # m.lt}
      closed == SortSeq(kept \o SetToSortSeq(more, ByLT), ByLT)
      tail   == IF u.open.lt >= from THEN u.open ELSE NoMsg
  IN IF closed = <<>> /\ tail.lt = 0 THEN [u EXCEPT !.pagerClosed = <<>>]
     ELSE [Resume(u, closed, tail)
             EXCEPT !.pagerClosed = <<>>,
                    !.lastSealed = IF closed = <<>> THEN @ ELSE Last(closed).lt]

LeaveTranscript(u) == IF u.pager THEN FlushTail([u EXCEPT !.pager = FALSE]) ELSE u

\* abandon: the rule it paints is not a message.
Abandon(u) == DropBelow(LeaveTranscript([u EXCEPT !.pending = NoMsg]))

-----------------------------------------------------------------------------
(* The plain sink: live is what has been written of the current unit.  Text    *)
(* that does not continue it is swallowed.                                     *)

Emit(u, m) ==
  [u EXCEPT !.live = m,
            !.torn = @ \/ (u.live.lt # 0 /\ ~(u.live.lt = m.lt /\ u.live.v <= m.v))]

SinkLive(u, m) == IF m.role = "assistant" THEN Emit(u, m) ELSE u

SinkClosed(u, m) ==
  LET w == Emit(u, m)
  IN IF m.role # "assistant" THEN u
     ELSE [Note(w, IF w.torn THEN [m EXCEPT !.v = 0] ELSE m, TRUE)
             EXCEPT !.live = NoMsg, !.torn = FALSE]

-----------------------------------------------------------------------------
(* aria.Client.Apply, as AriaStream has it, with the callbacks the command set.*)

Advance(u, lt) == [u EXCEPT !.committed = IF lt > @ THEN lt ELSE @,
                            !.open = IF @.lt = lt THEN NoMsg ELSE @]

\* st: the copy so far, the messages finalized, the LTs to catch up from.
Commit(st, c) ==
  LET u   == st.u
      m   == c.msg
      new == IF c.full THEN m ELSE [m EXCEPT !.role = u.open.role]
      old == \/ c.full /\ m.lt < u.floor
             \/ \E x \in u.closed : x.lt = m.lt
  IN IF c.full \/ (u.open.lt = m.lt /\ u.open.v = m.v)
     THEN [st EXCEPT !.u = Advance([u EXCEPT !.closed = IF old THEN @ ELSE @ \cup {new}], m.lt),
                     !.final = IF old THEN @ ELSE Append(@, new)]
     ELSE [st EXCEPT !.desync = {u.committed}]

TrimClosed(u) ==
  LET kept == {m \in u.closed : Cardinality({x \in u.closed : x.lt > m.lt}) < ClosedLimit}
  IN IF mode \in Plain \/ Cardinality(u.closed) <= ClosedLimit THEN u
     ELSE [u EXCEPT !.closed = kept, !.floor = Max({@} \cup {Min({m.lt : m \in kept})})]

OnClosed(u, m) == IF mode \in Plain THEN SinkClosed(u, m) ELSE TurnClosed(u, m)
OnLive(u, m)   == IF mode \in Plain THEN SinkLive(u, m) ELSE TurnLive(u, m)

Folded(u, page) ==
  FoldLeft(Commit, [u |-> u, final |-> <<>>, desync |-> {}], page.committed)

Apply(u, page) ==
  LET st == Folded(u, page)
      t  == TrimClosed(st.u)
      w  == IF page.live.lt = 0 THEN t ELSE [t EXCEPT !.open = page.live]
      x  == FoldLeft(OnClosed, w, st.final)
  IN IF page.live.lt = 0 THEN x ELSE OnLive(x, page.live)

\* The catch-ups Apply asks for; the plain sink has no OnDesync.
Desync(u, page) == IF mode \in Rich THEN {[since |-> s, page |-> Page(<<>>, NoMsg)] : s \in Folded(u, page).desync} ELSE {}

-----------------------------------------------------------------------------
(* The agent, as the command sees it. *)

ReadSince(lt) == Page([i \in DOMAIN SelectSeq(units, LAMBDA u : u.lt > lt) |->
                         Whole(SelectSeq(units, LAMBDA u : u.lt > lt)[i])], Msg(open))

ReadRecent == LET n == Len(units) - Min({PageSize, Len(units)})
              IN Page([i \in 1..(Len(units) - n) |-> Whole(units[n + i])], NoMsg)

NoUnit == [lt |-> 0, role |-> "", v |-> 0, for |-> {}]
Unit(lt, role, v, for) == [lt |-> lt, role |-> role, v |-> v, for |-> for]

Frame(page)  == [kind |-> "frame", page |-> page, idle |-> FALSE, err |-> FALSE]
Reply        == [kind |-> "reply", page |-> Page(<<>>, NoMsg), idle |-> FALSE, err |-> FALSE]
Done(d)      == [kind |-> "done", page |-> Page(<<>>, NoMsg), idle |-> d.idle, err |-> d.err]
NoDone       == [due |-> FALSE, idle |-> FALSE, err |-> FALSE]

\* The agent goes on; what it does once the command is gone does not matter.
Attended == alive /\ main # "ended" /\ Len(wire) < WireCap

Send(items) == wire' = wire \o items

\* The prompt is committed as a unit of its own: streamed, then closed.
Begin ==
  /\ serving = {} /\ ~ending.due /\ inbox # <<>> /\ Attended
  /\ LET u == Unit(lastLT + 1, "user", 1, {Head(inbox)}) IN
       /\ units' = Append(units, u) /\ lastLT' = u.lt
       /\ Send(<<Frame(Page(<<>>, Msg(u))), Frame(Page(<<Marker(Msg(u))>>, NoMsg))>>)
  /\ serving' = {Head(inbox)} /\ inbox' = Tail(inbox) /\ stopped' = FALSE
  /\ UNCHANGED <<given, open, ending, alive, ui, reads, keys, main, qua, flags, exit, faults, ghosts>>

\* A frame of the reply; a queued prompt may be taken as steering.
Stream ==
  /\ serving # {} /\ ~ending.due /\ open.v < MaxFrames /\ Attended
  /\ \E steer \in {FALSE} \cup {inbox # <<>> /\ open.lt # 0} :
       /\ serving' = IF steer THEN serving \cup {Head(inbox)} ELSE serving
       /\ inbox' = IF steer THEN Tail(inbox) ELSE inbox
  /\ LET u == Unit(IF open.lt = 0 THEN lastLT + 1 ELSE open.lt, "assistant", open.v + 1, serving') IN
       /\ open' = u /\ lastLT' = u.lt
       /\ Send(<<Frame(Page(<<>>, Msg(u)))>>)
  /\ UNCHANGED <<given, units, ending, stopped, alive, ui, reads, keys, main, qua, flags, exit, faults, ghosts>>

\* endTurn closes the reply; endTurnDiscarding drops it.  The idle flag is
\* computed before turn.done is fanned out.
EndTurn(isErr) ==
  /\ serving # {} /\ ~ending.due /\ Attended
  /\ isErr \/ stopped \/ open.lt # 0
  /\ IF isErr \/ open.lt = 0 THEN UNCHANGED <<units, wire>>
     ELSE units' = Append(units, open) /\ Send(<<Frame(Page(<<Marker(Msg(open))>>, NoMsg))>>)
  /\ open' = NoUnit /\ serving' = {}
  /\ ending' = [due |-> TRUE, idle |-> inbox = <<>>, err |-> isErr]
  /\ UNCHANGED <<given, lastLT, inbox, stopped, alive, ui, reads, keys, main, qua, flags, exit, faults, ghosts>>

FanOutDone ==
  /\ ending.due /\ Attended
  /\ ending' = NoDone
  /\ Send(<<Done(ending)>>)
  /\ UNCHANGED <<given, units, open, lastLT, inbox, serving, stopped, alive, ui, reads, keys, main, qua, flags, exit, faults, ghosts>>

Accept ==
  /\ qua = "sent" /\ Attended
  /\ qua' = "accepted" /\ inbox' = Append(inbox, "mine")
  /\ UNCHANGED <<given, units, open, lastLT, serving, ending, stopped, alive, wire, ui, reads, keys, main, flags, exit, faults, ghosts>>

QuaReply ==
  /\ qua = "accepted" /\ Attended
  /\ qua' = "replied" /\ Send(<<Reply>>)
  /\ UNCHANGED <<given, agent, alive, ui, reads, keys, main, flags, exit, faults, ghosts>>

AgentDies ==
  /\ alive /\ faults < MaxFaults /\ main # "ended"
  /\ alive' = FALSE /\ faults' = faults + 1
  /\ UNCHANGED <<given, agent, wire, ui, reads, keys, main, qua, flags, exit, ghosts>>

-----------------------------------------------------------------------------
(* The notify pump *)

\* Mutant: the command waits for its cursor to advance as well.
SettledPastCursor(d) == cursor /\ d.idle /\ \E m \in ui.closed : m.role = "assistant"

\* turn.done ends the command once its own prompt was submitted and the agent
\* says it is idle.
Settled(d) == cursor /\ d.idle

\* The turn.done of our own prompt, when no other will follow it.
Unheard(d) == d.idle /\ ~cursor /\ qua \in {"accepted", "replied"}
              /\ "mine" \notin Range(inbox) \cup serving

OnFrame(page) ==
  /\ ui' = Apply(ui, page)
  /\ reads' = reads \cup Desync(ui, page)

\* verbatimSink writes the notification as it came and folds nothing; --forget
\* does not look at it.
Echo(page) == UNCHANGED <<ui, reads>>

\* mustPromptFigaro's onNotify
SendDone(d) ==
  /\ ui' = FinishTurn(ui, d.err)
  /\ running' = (running /\ ~Settled(d))
  /\ doneCh' = (doneCh \/ (Settled(d) /\ ~listen))
  /\ missed' = (missed \/ Unheard(d))
  /\ UNCHANGED sawError

\* tailFigaro's: a tail does not end with a turn.
TailDone(d) ==
  /\ ui' = FinishTurn(ui, d.err)
  /\ UNCHANGED <<running, doneCh, missed, sawError>>

\* plainSink.handle and verbatimSink.handle: any turn.done will do.
SinkDone(d) ==
  /\ sawError' = (sawError \/ d.err) /\ doneCh' = TRUE
  /\ UNCHANGED <<ui, running, missed>>

Pump ==
  /\ wire # <<>> /\ main # "ended"
  /\ wire' = Tail(wire)
  /\ LET n == Head(wire) IN
       \/ /\ n.kind = "frame"
          /\ IF mode \in {"verbatim", "forget"} THEN Echo(n.page) ELSE OnFrame(n.page)
          /\ UNCHANGED <<main, running, doneCh, sawError, missed>>
       \/ /\ n.kind = "done"
          /\ \/ mode = "send" /\ SendDone(n)
             \/ mode = "forget" /\ UNCHANGED <<ui, running, doneCh, sawError, missed>>
             \/ mode = "listen" /\ TailDone(n)
             \/ mode \in Plain /\ SinkDone(n)
          /\ UNCHANGED <<main, reads>>
       \/ /\ n.kind = "reply"
          /\ main' = (IF main = "qua" THEN "answered" ELSE main)
          /\ UNCHANGED <<ui, reads, running, doneCh, sawError, missed>>
  /\ UNCHANGED <<given, agent, alive, keys, qua, cursor, listen, detach, cancelled, exit, faults, dropped>>

-----------------------------------------------------------------------------
(* Catch-up reads: setDesync starts a goroutine for each. *)

Answered(r) == r.page # Page(<<>>, NoMsg)

AnswerRead(r) ==
  /\ ~Answered(r) /\ alive
  /\ reads' = (reads \ {r}) \cup {[r EXCEPT !.page = ReadSince(r.since)]}
  /\ UNCHANGED <<given, agent, alive, wire, ui, keys, main, qua, flags, exit, faults, ghosts>>

ApplyRead(r) ==
  /\ Answered(r) /\ main # "ended"
  /\ reads' = (reads \ {r}) \cup Desync(ui, r.page)
  /\ ui' = Apply(ui, r.page)
  /\ UNCHANGED <<given, agent, alive, wire, keys, main, qua, flags, exit, faults, ghosts>>

\* The read times out, or the connection is gone.
DropRead(r) ==
  /\ main # "ended"
  /\ \/ ~alive /\ ~Answered(r) /\ UNCHANGED faults
     \/ faults < MaxFaults /\ faults' = faults + 1
  /\ reads' = reads \ {r} /\ dropped' = TRUE
  /\ UNCHANGED <<given, agent, alive, wire, ui, keys, main, qua, flags, exit, missed>>

-----------------------------------------------------------------------------
(* interactiveInput.run.  Entering the pager reads the recent closed messages, *)
(* then the open one, and applies both under one lock.                         *)

Stage(s) == [keys EXCEPT !.stage = s]

\* Ctrl-T, Ctrl-L and the keys that scroll, search or select.
KeyPager ==
  /\ mode \in Rich /\ keys.stage = "idle" /\ main \notin {"opening", "ended"} /\ ~ui.pager
  /\ \E l \in {listen, TRUE} : listen' = l
  /\ keys' = Stage("window")
  /\ UNCHANGED <<given, agent, alive, wire, ui, reads, main, qua, cursor, running, doneCh, detach, cancelled, sawError, exit, faults, ghosts>>

ReadWindow ==
  /\ keys.stage = "window" /\ main # "ended"
  /\ \/ alive /\ keys' = [stage |-> "tail", page |-> ReadRecent, live |-> NoMsg] /\ UNCHANGED faults
     \/ ~alive /\ keys' = Stage("tail") /\ UNCHANGED faults
     \/ faults < MaxFaults /\ faults' = faults + 1 /\ keys' = Stage("tail")
  /\ UNCHANGED <<given, agent, alive, wire, ui, reads, main, qua, flags, exit, ghosts>>

ReadTail ==
  /\ keys.stage = "tail" /\ main # "ended"
  /\ keys' = [Stage("apply") EXCEPT !.live = IF alive THEN Msg(open) ELSE NoMsg]
  /\ UNCHANGED <<given, agent, alive, wire, ui, reads, main, qua, flags, exit, faults, ghosts>>

EnterTranscript ==
  /\ keys.stage = "apply" /\ main # "ended"
  /\ ui' = Apply(Apply([ui EXCEPT !.pager = TRUE], keys.page), Page(<<>>, keys.live))
  /\ keys' = [stage |-> "idle", page |-> Page(<<>>, NoMsg), live |-> NoMsg]
  /\ UNCHANGED <<given, agent, alive, wire, reads, main, qua, flags, exit, faults, ghosts>>

\* Ctrl-D leaves the turn running; the key loop ends.
KeyDetach ==
  /\ mode \in Rich /\ keys.stage = "idle" /\ main \notin {"opening", "ended"}
  /\ detach' = TRUE /\ keys' = Stage("gone")
  /\ UNCHANGED <<given, agent, alive, wire, ui, reads, main, qua, cursor, running, listen, doneCh, cancelled, sawError, exit, faults, ghosts>>

\* Ctrl-C: a byte in raw mode, a signal to the plain commands.
KeyCancel ==
  /\ mode # "forget" /\ keys.stage = "idle" /\ main \notin {"opening", "ended"}
  /\ cancelled' = TRUE /\ keys' = Stage("gone")
  /\ UNCHANGED <<given, agent, alive, wire, ui, reads, main, qua, cursor, running, listen, doneCh, detach, sawError, exit, faults, ghosts>>

-----------------------------------------------------------------------------
(* The main goroutine *)

Finish(how, u) == main' = "ended" /\ exit' = how /\ ui' = u

\* listen, and send --listen, enter the pager before anything else.
Opened ==
  /\ main = "opening" /\ keys.stage = "idle"
  /\ main' = IF mode = "listen" THEN "waiting" ELSE "dialled"
  /\ UNCHANGED <<given, agent, alive, wire, ui, reads, keys, qua, flags, exit, faults, ghosts>>

SendQua ==
  /\ main = "dialled"
  /\ main' = "qua" /\ qua' = "sent"
  /\ UNCHANGED <<given, agent, alive, wire, ui, reads, keys, flags, exit, faults, ghosts>>

QuaReturns ==
  /\ main = "answered" /\ mode # "forget"
  /\ cursor' = TRUE /\ main' = "waiting"
  /\ UNCHANGED <<given, agent, alive, wire, ui, reads, keys, qua, exit, running, listen, doneCh, detach, cancelled, sawError, faults, ghosts>>

\* send --forget
Forget ==
  /\ main = "answered" /\ mode = "forget"
  /\ Finish("done", ui)
  /\ UNCHANGED <<given, agent, alive, wire, reads, keys, qua, flags, faults, ghosts>>

\* die: no deferred call runs, the pager is not left.
QuaFails ==
  /\ main = "qua" /\ (~alive \/ cancelled)
  /\ Finish("died", ui)
  /\ UNCHANGED <<given, agent, alive, wire, reads, keys, qua, flags, faults, ghosts>>

TakeDone ==
  /\ main = "waiting" /\ doneCh /\ mode \in Rich
  /\ Finish("done", LeaveTranscript(ui))
  /\ UNCHANGED <<given, agent, alive, wire, reads, keys, qua, flags, faults, ghosts>>

\* The plain commands turn an error into their exit code.
PlainDone ==
  /\ main = "waiting" /\ doneCh /\ mode \in Plain
  /\ Finish(IF sawError THEN "failed" ELSE "done", ui)
  /\ UNCHANGED <<given, agent, alive, wire, reads, keys, qua, flags, faults, ghosts>>

TakeDetach ==
  /\ main = "waiting" /\ detach
  /\ Finish("detached", Abandon(ui))
  /\ UNCHANGED <<given, agent, alive, wire, reads, keys, qua, flags, faults, ghosts>>

TakeLost ==
  /\ main = "waiting" /\ ~alive
  /\ Finish("lost", IF mode \in Rich THEN Abandon(ui) ELSE ui)
  /\ UNCHANGED <<given, agent, alive, wire, reads, keys, qua, flags, faults, ghosts>>

\* send interrupts only what it believes is running.
TakeCancel ==
  /\ main = "waiting" /\ cancelled
  /\ IF mode = "send" /\ ~running THEN Finish("closed", LeaveTranscript(ui))
     ELSE main' = "interrupting" /\ UNCHANGED <<exit, ui>>
  /\ UNCHANGED <<given, agent, alive, wire, reads, keys, qua, flags, faults, ghosts>>

\* figaro.interrupt, given three seconds.
Interrupt ==
  /\ \/ alive /\ stopped' = (stopped \/ serving # {}) /\ UNCHANGED faults
     \/ ~alive /\ UNCHANGED <<stopped, faults>>
     \/ faults < MaxFaults /\ faults' = faults + 1 /\ UNCHANGED stopped

CancelTurn ==
  /\ main = "interrupting" /\ mode # "listen" /\ Interrupt
  /\ main' = "settling"
  /\ UNCHANGED <<given, units, open, lastLT, inbox, serving, ending, alive, wire, ui, reads, keys, qua, flags, exit, ghosts>>

\* listen does not wait for the turn it interrupted.
CancelTail ==
  /\ main = "interrupting" /\ mode = "listen" /\ Interrupt
  /\ Finish("interrupted", Abandon(ui))
  /\ UNCHANGED <<given, units, open, lastLT, inbox, serving, ending, alive, wire, reads, keys, qua, flags, ghosts>>

\* Three more seconds for turn.done.
Settle ==
  /\ main = "settling" /\ mode \in Rich
  /\ \/ (doneCh \/ ~alive) /\ Finish("interrupted", LeaveTranscript(ui))
     \/ Finish("interrupted", Abandon(ui))
  /\ UNCHANGED <<given, agent, alive, wire, reads, keys, qua, flags, faults, ghosts>>

PlainSettle ==
  /\ main = "settling" /\ mode \in Plain
  /\ Finish("interrupted", ui)
  /\ UNCHANGED <<given, agent, alive, wire, reads, keys, qua, flags, faults, ghosts>>

-----------------------------------------------------------------------------
\* The command dials an aria with some history, which is idle, or in the middle
\* of the reply to another prompt.
Before(n) == [i \in 1..n |-> Unit(i, IF i % 2 = 1 THEN "user" ELSE "assistant", 1, {})]

Init ==
  /\ mode \in Modes
  /\ \E n \in Prior :
       \/ units = Before(n) /\ open = NoUnit /\ lastLT = n /\ serving = {}
       \/ /\ Busy /\ serving = {"other"}
          /\ units = Append(Before(n), Unit(n + 1, "user", 1, {"other"}))
          /\ open = Unit(n + 2, "assistant", 1, {"other"})
          /\ lastLT = n + 2
  /\ inbox = <<>>
  /\ base = lastLT /\ ending = NoDone /\ stopped = FALSE /\ alive = TRUE /\ wire = <<>>
  /\ ui = [closed |-> {}, floor |-> 0, committed |-> 0, open |-> NoMsg,
           shown |-> NoMsg, pending |-> NoMsg, finished |-> FALSE, lastSealed |-> 0,
           pagerClosed |-> <<>>, pager |-> FALSE, live |-> NoMsg, scroll |-> <<>>, torn |-> FALSE]
  /\ reads = {} /\ qua = "no" /\ exit = "" /\ faults = 0 /\ missed = FALSE /\ dropped = FALSE
  /\ listen \in {mode = "listen", mode \in Rich}
  /\ main = IF listen THEN "opening" ELSE "dialled"
  /\ keys = [stage |-> IF listen THEN "window" ELSE "idle", page |-> Page(<<>>, NoMsg), live |-> NoMsg]
  /\ cursor = FALSE /\ running = TRUE /\ doneCh = FALSE /\ detach = FALSE
  /\ cancelled = FALSE /\ sawError = FALSE

Agent == Begin \/ Stream \/ (\E e \in BOOLEAN : EndTurn(e)) \/ FanOutDone \/ Accept \/ QuaReply

Main  == Opened \/ SendQua \/ QuaReturns \/ Forget \/ QuaFails \/ TakeDone \/ PlainDone
         \/ TakeDetach \/ TakeLost \/ TakeCancel \/ CancelTurn \/ CancelTail
         \/ Settle \/ PlainSettle

Enter == ReadWindow \/ ReadTail \/ EnterTranscript
Key   == KeyPager \/ KeyDetach \/ KeyCancel
Heal  == \E r \in reads : AnswerRead(r) \/ ApplyRead(r) \/ DropRead(r)

Next == Agent \/ AgentDies \/ Pump \/ Main \/ Enter \/ Key \/ Heal

Spec == Init /\ [][Next]_vars

-----------------------------------------------------------------------------
SealedLTs == LET s == SelectSeq(ui.scroll, LAMBDA e : e.sealed) IN [i \in DOMAIN s |-> s[i].lt]

\* No message is sealed in the scrollback twice, whether it was sealed inline,
\* kept while the pager was up or caught up with, and those that began after the
\* command dialled are in the order of the conversation (livelogTurn.OnClosed,
\* flushTail).  Older ones may follow, when a catch-up brings them.
PrintedOnce ==
  mode \in Rich => \A i, j \in DOMAIN SealedLTs : i < j =>
    /\ SealedLTs[i] # SealedLTs[j]
    /\ SealedLTs[i] > base /\ SealedLTs[j] > base => SealedLTs[i] < SealedLTs[j]

\* The replies to our prompt, and whether the terminal shows one to its end.
Mine == {u \in Range(units) : u.role = "assistant" /\ "mine" \in u.for}

Shown(u) == \E e \in Range(ui.scroll) \cup {ui.live} : e.lt = u.lt /\ e.v = u.v

\* The agent is at rest, and what it sent has been received.
Quiet == /\ serving = {} /\ inbox = <<>> /\ ~ending.due /\ wire = <<>>
         /\ qua = "replied" /\ alive

\* A catch-up is under way or was given up.
CutShort == reads # {} \/ dropped

\* A command that ended when the agent was at rest and had been heard out leaves
\* the whole of the reply to its prompt in the terminal, wherever it was shown
\* and however the pager was entered and left, unless a catch-up it needed was
\* given up or cut short (mustPromptFigaro, flushTail, plainSink).
ReplyLeftBehind ==
  mode \in {"send", "raw"} /\ exit \in {"done", "closed", "detached"} /\ Quiet => \A u \in Mine : Shown(u) \/ CutShort

\* A command does not wait for ever: when the agent has done everything it was
\* asked and all of it was received, the command knows, unless the one turn.done
\* came before Qua had returned (onNotify).
NotStranded == Quiet /\ mode # "listen" /\ main = "waiting" /\ ~listen /\ ~missed => doneCh

=============================================================================
