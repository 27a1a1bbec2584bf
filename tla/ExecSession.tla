---------------------------- MODULE ExecSession ----------------------------
(***************************************************************************)
(* Shell commands: the bash tool, the sessions it leaves in the background, *)
(* the process tool over them, and the way of their output: the process    *)
(* writes into a pipe, a copier takes each chunk to the session's buffers  *)
(* and hands it to the event queue of the round that made the call.        *)
(*                                                                         *)
(* A call and the session it makes have one number.  Chunks of a process   *)
(* are numbered 1, 2, ...; wording, sanitizing and truncation of a result  *)
(* are left out.  A process, and one that left its group with the pipe     *)
(* still open, may do anything, for ever.                                  *)
(***************************************************************************)
EXTENDS Naturals, Sequences, FiniteSets, SequencesExt

CONSTANTS MaxCalls,  \* bash calls (bound)
          MaxRounds, \* rounds of the agent (bound)
          MaxChunks, \* chunks a process writes (bound)
          MaxTool,   \* calls of the process tool (bound)
          BufferCap, \* chunks a session buffer retains
          PipeCap,   \* chunks a pipe holds
          QueueCap,  \* events a round's queue holds
          Kinds,     \* modes of calls and faults of this instance
          None

ASSUME ExecSessionAssumption ==
  /\ {MaxCalls, MaxRounds, MaxChunks, MaxTool, BufferCap, PipeCap, QueueCap} \subseteq Nat
  /\ BufferCap > 0 /\ PipeCap > 0 /\ QueueCap > 0
  /\ None \notin {"fg", "bg", "pty", "exit", "timeout", "aborted"}

Calls == 1..MaxCalls
Rounds == 1..MaxRounds

VARIABLES
  cur, roundOn, cancelled, \* the round, whether its queue is read, rounds interrupted
  events,    \* how many events wait in the queue of each round
  call,      \* per bash call: mode, round, step and result
  listed,    \* SessionRegistry.sessions
  aged,      \* finished sessions past their time to live
  sess,      \* ExecSession: state, proc attached, killing, timedOut
  agg, unread,  \* its two buffers
  sup,       \* its supervisor: "none", "watch", "kill", "done"
  os,        \* its process: "none", "run", "dead"
  kin,       \* a descendant outside the group holds the pipe
  pipe, wrote,  \* chunks in the pipe, chunks written by the process itself
  copier,    \* "idle", "hand" (a chunk is recorded and goes to the queue), "shut"
  waited,    \* localProcess.done is closed
  ptool, tools, \* a call of the process tool, how many there were
  cut,       \* history: processes waited for with output still on its way
  early      \* history: sessions removed before their process was attached

turn == <<cur, roundOn, cancelled>>
proc == <<os, kin, pipe, wrote>>
buffers == <<agg, unread>>
history == <<cut, early>>
vars == <<turn, events, call, listed, aged, sess, buffers, sup, proc, copier, waited, ptool, tools,
          history>>

NoCall == [mode |-> None, round |-> 0, pc |-> "idle", result |-> None, out |-> <<>>]
NewSession == [state |-> "running", proc |-> FALSE, killing |-> FALSE, timedOut |-> FALSE]
NoTool == [pc |-> "idle", s |-> None, status |-> None]

Init ==
  /\ cur = 1 /\ roundOn = TRUE /\ cancelled = {}
  /\ events = [r \in Rounds |-> 0]
  /\ call = [c \in Calls |-> NoCall]
  /\ listed = {} /\ aged = {}
  /\ sess = [c \in Calls |-> NewSession]
  /\ agg = [c \in Calls |-> <<>>] /\ unread = [c \in Calls |-> <<>>]
  /\ sup = [c \in Calls |-> "none"]
  /\ os = [c \in Calls |-> "none"] /\ kin = [c \in Calls |-> FALSE]
  /\ pipe = [c \in Calls |-> <<>>] /\ wrote = [c \in Calls |-> 0]
  /\ copier = [c \in Calls |-> "idle"] /\ waited = [c \in Calls |-> FALSE]
  /\ ptool = NoTool /\ tools = 0
  /\ cut = {} /\ early = {}

---------------------------------------------------------------------------
(* The agent's round: its queue is read while tools are awaited. *)

Interrupted == cur \in cancelled

Interrupt ==
  /\ "interrupt" \in Kinds /\ roundOn /\ ~ Interrupted
  /\ cancelled' = cancelled \cup {cur}
  /\ UNCHANGED <<cur, roundOn, events, call, listed, aged, sess, buffers, sup, proc, copier, waited,
                 ptool, tools, history>>

Drain ==
  /\ roundOn /\ events[cur] > 0
  /\ events' = [events EXCEPT ![cur] = @ - 1]
  /\ UNCHANGED <<turn, call, listed, aged, sess, buffers, sup, proc, copier, waited, ptool, tools,
                 history>>

\* collectToolResults leaves when every call has answered, or on an interrupt.
EndRound ==
  /\ roundOn
  /\ \/ Interrupted
     \/ /\ \E c \in Calls : call[c].round = cur
        /\ \A c \in Calls : call[c].round = cur => call[c].pc = "returned"
        /\ ptool = NoTool
  /\ roundOn' = FALSE
  /\ UNCHANGED <<cur, cancelled, events, call, listed, aged, sess, buffers, sup, proc, copier,
                 waited, ptool, tools, history>>

NextRound ==
  /\ ~ roundOn /\ cur < MaxRounds
  /\ cur' = cur + 1 /\ roundOn' = TRUE
  /\ UNCHANGED <<cancelled, events, call, listed, aged, sess, buffers, sup, proc, copier, waited,
                 ptool, tools, history>>

---------------------------------------------------------------------------
(* The registry and the session. *)

\* reapLocked, on every access but Remove.
Reaped(l) == l \ aged

\* The time to live of a finished session passes.
Age(c) ==
  /\ "age" \in Kinds
  /\ sess[c].state # "running" /\ c \notin aged
  /\ aged' = aged \cup {c}
  /\ UNCHANGED <<turn, events, call, listed, sess, buffers, sup, proc, copier, waited, ptool, tools,
                 history>>

\* SIGKILL to the group: a descendant that left it survives.
Signal(c) == os' = [os EXCEPT ![c] = IF @ = "run" THEN "dead" ELSE @]

\* ExecSession.Kill: nothing before the process is attached or after its end.
Killable(c) == sess[c].state = "running" /\ sess[c].proc
Kill(c) ==
  IF Killable(c) THEN Signal(c) /\ sess' = [sess EXCEPT ![c].killing = TRUE]
  ELSE UNCHANGED <<os, sess>>

\* capBuffer.Write: what exceeds the cap is dropped from the front.
CapWrite(b, x) ==
  LET all == Append(b, x)
  IN IF Len(all) > BufferCap THEN SubSeq(all, Len(all) - BufferCap + 1, Len(all)) ELSE all

Finish(c) ==
  /\ sess' = [sess EXCEPT ![c].state =
       IF sess[c].timedOut THEN "timed_out" ELSE IF sess[c].killing THEN "killed" ELSE "exited"]
  /\ sup' = [sup EXCEPT ![c] = "done"]

\* supervise: the exit, or the deadline, then SIGKILL and the exit.
SuperviseExit(c) ==
  /\ sup[c] \in {"watch", "kill"} /\ waited[c]
  /\ Finish(c)
  /\ UNCHANGED <<turn, events, call, listed, aged, buffers, proc, copier, waited, ptool, tools,
                 history>>

\* Mutant: the deadline is noted and the process left alone.
SuperviseTimeoutOnly(c) ==
  /\ sup[c] = "watch"
  /\ sess' = [sess EXCEPT ![c].timedOut = TRUE]
  /\ sup' = [sup EXCEPT ![c] = "kill"]
  /\ UNCHANGED <<turn, events, call, listed, aged, buffers, proc, copier, waited, ptool, tools,
                 history>>

SuperviseTimeout(c) ==
  /\ sup[c] = "watch"
  /\ sess' = [sess EXCEPT ![c].timedOut = TRUE]
  /\ Signal(c)
  /\ sup' = [sup EXCEPT ![c] = "kill"]
  /\ UNCHANGED <<turn, events, call, listed, aged, buffers, kin, pipe, wrote, copier, waited, ptool,
                 tools, history>>

---------------------------------------------------------------------------
(* The process, its pipe and the copier. *)

Emit(c) ==
  /\ os[c] = "run" /\ wrote[c] < MaxChunks /\ Len(pipe[c]) < PipeCap
  /\ wrote' = [wrote EXCEPT ![c] = @ + 1]
  /\ pipe' = [pipe EXCEPT ![c] = Append(@, wrote[c] + 1)]
  /\ UNCHANGED <<turn, events, call, listed, aged, sess, buffers, sup, os, kin, copier, waited,
                 ptool, tools, history>>

Exits(c) ==
  /\ os[c] = "run"
  /\ os' = [os EXCEPT ![c] = "dead"]
  /\ UNCHANGED <<turn, events, call, listed, aged, sess, buffers, sup, kin, pipe, wrote, copier,
                 waited, ptool, tools, history>>

Escapes(c) ==
  /\ "escape" \in Kinds /\ os[c] = "run" /\ ~ kin[c]
  /\ kin' = [kin EXCEPT ![c] = TRUE]
  /\ UNCHANGED <<turn, events, call, listed, aged, sess, buffers, sup, os, pipe, wrote, copier,
                 waited, ptool, tools, history>>

\* streamWriter and runSession's sink: both buffers, then the call's onOutput,
\* which an interrupted turn ignores.
Copy(c) ==
  /\ copier[c] = "idle" /\ pipe[c] # <<>>
  /\ pipe' = [pipe EXCEPT ![c] = Tail(@)]
  /\ agg' = [agg EXCEPT ![c] = CapWrite(@, Head(pipe[c]))]
  /\ unread' = [unread EXCEPT ![c] = CapWrite(@, Head(pipe[c]))]
  /\ copier' = [copier EXCEPT ![c] = IF Interrupted THEN "idle" ELSE "hand"]
  /\ UNCHANGED <<turn, events, call, listed, aged, sess, sup, os, kin, wrote, waited, ptool, tools,
                 history>>

\* The queue is bounded and the send blocks.
Hand(c) ==
  /\ copier[c] = "hand" /\ events[call[c].round] < QueueCap
  /\ events' = [events EXCEPT ![call[c].round] = @ + 1]
  /\ copier' = [copier EXCEPT ![c] = "idle"]
  /\ UNCHANGED <<turn, call, listed, aged, sess, buffers, sup, proc, waited, ptool, tools, history>>

\* Blocked for good: the round of its call is over and its queue is full.
Stuck(c) == /\ copier[c] = "hand" /\ events[call[c].round] = QueueCap
            /\ ~ (roundOn /\ cur = call[c].round)

Drained(c) == ~ kin[c] /\ pipe[c] = <<>> /\ copier[c] = "idle"

\* Mutant: the exit of the process is enough.
WaitBlind(c) ==
  /\ os[c] = "dead" /\ ~ waited[c] /\ call[c].mode # "pty"
  /\ waited' = [waited EXCEPT ![c] = TRUE]
  /\ UNCHANGED <<turn, events, call, listed, aged, sess, buffers, sup, proc, copier, ptool, tools,
                 history>>

\* LocalExecutor.Start's goroutine: the process is gone, and the pipe is at its
\* end or the grace is over.  Copying takes less than the grace, unless something
\* holds the pipe or the copier.
Wait(c) ==
  /\ os[c] = "dead" /\ ~ waited[c] /\ call[c].mode # "pty"
  /\ Drained(c) \/ kin[c] \/ Stuck(c)
  /\ waited' = [waited EXCEPT ![c] = TRUE]
  /\ cut' = IF Drained(c) THEN cut ELSE cut \cup {c}
  /\ UNCHANGED <<turn, events, call, listed, aged, sess, buffers, sup, proc, copier, ptool, tools,
                 early>>

---------------------------------------------------------------------------
(* The bash tool. *)

Return(c, r, o) == call' = [call EXCEPT ![c].pc = "returned", ![c].result = r, ![c].out = o]

\* run: a call with a terminal blocks, the others get a session.
Begin(c, mode) ==
  /\ call[c] = NoCall /\ (\A b \in Calls : b < c => call[b] # NoCall)
  /\ mode \in Kinds /\ roundOn /\ ~ Interrupted
  /\ call' = [call EXCEPT ![c] = [NoCall EXCEPT !.mode = mode, !.round = cur, !.pc = "created"]]
  /\ listed' = IF mode = "pty" THEN listed ELSE Reaped(listed) \cup {c}
  /\ UNCHANGED <<turn, events, aged, sess, buffers, sup, proc, copier, waited, ptool, tools, history>>

StartProcess(c) ==
  /\ call[c].pc = "created"
  /\ os' = [os EXCEPT ![c] = "run"]
  /\ call' = [call EXCEPT ![c].pc = IF call[c].mode = "pty" THEN "blocking" ELSE "started"]
  /\ UNCHANGED <<turn, events, listed, aged, sess, buffers, sup, kin, pipe, wrote, copier, waited,
                 ptool, tools, history>>

StartFails(c) ==
  /\ "fault" \in Kinds /\ call[c].pc = "created"
  /\ listed' = listed \ {c}
  /\ Return(c, "failed", <<>>)
  /\ UNCHANGED <<turn, events, aged, sess, buffers, sup, proc, copier, waited, ptool, tools, history>>

\* supervise, and the answer at once of a call that asked for the background.
Supervise(c) ==
  /\ call[c].pc = "started"
  /\ sess' = [sess EXCEPT ![c].proc = TRUE]
  /\ sup' = [sup EXCEPT ![c] = "watch"]
  /\ IF call[c].mode = "bg" THEN Return(c, "background", agg[c])
     ELSE call' = [call EXCEPT ![c].pc = "waiting"]
  /\ UNCHANGED <<turn, events, listed, aged, buffers, proc, copier, waited, ptool, tools, history>>

\* The three ways out of runSession's select.
AwaitDone(c) ==
  /\ call[c].pc = "waiting" /\ sup[c] = "done"
  /\ listed' = listed \ {c}
  /\ Return(c, IF sess[c].state = "timed_out" THEN "timeout" ELSE "exit", agg[c])
  /\ UNCHANGED <<turn, events, aged, sess, buffers, sup, proc, copier, waited, ptool, tools, history>>

AwaitYield(c) ==
  /\ call[c].pc = "waiting"
  /\ Return(c, "background", agg[c])
  /\ UNCHANGED <<turn, events, listed, aged, sess, buffers, sup, proc, copier, waited, ptool, tools,
                 history>>

AwaitAbort(c) ==
  /\ call[c].pc = "waiting" /\ call[c].round \in cancelled
  /\ Kill(c)
  /\ call' = [call EXCEPT ![c].pc = "aborting"]
  /\ UNCHANGED <<turn, events, listed, aged, buffers, sup, kin, pipe, wrote, copier, waited, ptool,
                 tools, history>>

AbortDone(c) ==
  /\ call[c].pc = "aborting" /\ sup[c] = "done"
  /\ listed' = listed \ {c}
  /\ Return(c, "aborted", agg[c])
  /\ UNCHANGED <<turn, events, aged, sess, buffers, sup, proc, copier, waited, ptool, tools, history>>

\* waitCmd for a terminal: the exit, or the kill on timeout or abort; then the
\* terminal is closed under the copier, with whatever it had not read.
TerminalExit(c) ==
  /\ call[c].pc = "blocking"
  /\ os[c] = "dead" \/ call[c].round \in cancelled
  /\ Signal(c)
  /\ pipe' = [pipe EXCEPT ![c] = <<>>]
  /\ call' = [call EXCEPT ![c].pc = "closing"]
  /\ UNCHANGED <<turn, events, listed, aged, sess, buffers, sup, kin, wrote, copier, waited, ptool,
                 tools, history>>

TerminalTimeout(c) ==
  /\ call[c].pc = "blocking"
  /\ Signal(c)
  /\ pipe' = [pipe EXCEPT ![c] = <<>>]
  /\ call' = [call EXCEPT ![c].pc = "closing"]
  /\ UNCHANGED <<turn, events, listed, aged, sess, buffers, sup, kin, wrote, copier, waited, ptool,
                 tools, history>>

TerminalDone(c) ==
  /\ call[c].pc = "closing" /\ copier[c] = "idle"
  /\ copier' = [copier EXCEPT ![c] = "shut"]
  /\ Return(c, "exit", agg[c])
  /\ UNCHANGED <<turn, events, listed, aged, sess, buffers, sup, proc, waited, ptool, tools, history>>

---------------------------------------------------------------------------
(* The process tool. *)

ToolCall(s) ==
  /\ ptool = NoTool /\ tools < MaxTool /\ roundOn
  /\ tools' = tools + 1
  /\ listed' = Reaped(listed)

Visible(s) == s \in Reaped(listed)

\* list, log, write: nothing but the reaping.
ToolLook(s) ==
  /\ ToolCall(s)
  /\ UNCHANGED <<turn, events, call, aged, sess, buffers, sup, proc, copier, waited, ptool, history>>

\* poll: the status, then the output since the last poll.
PollStatus(s) ==
  /\ ToolCall(s) /\ Visible(s)
  /\ ptool' = [pc |-> "poll", s |-> s, status |-> sess[s].state]
  /\ UNCHANGED <<turn, events, call, aged, sess, buffers, sup, proc, copier, waited, history>>

PollOutput ==
  /\ ptool.pc = "poll"
  /\ unread' = [unread EXCEPT ![ptool.s] = <<>>]
  /\ ptool' = NoTool
  /\ UNCHANGED <<turn, events, call, listed, aged, sess, agg, sup, proc, copier, waited, tools,
                 history>>

\* kill: Kill, then Done; Signal fails when the group is already gone, and the
\* error ends the call.
ToolKill(s) ==
  /\ ToolCall(s) /\ Visible(s)
  /\ Kill(s)
  /\ \/ ptool' = [pc |-> "kill", s |-> s, status |-> None]
     \/ Killable(s) /\ os[s] = "dead" /\ UNCHANGED ptool
  /\ UNCHANGED <<turn, events, call, aged, buffers, sup, kin, pipe, wrote, copier, waited, history>>

KillDone ==
  /\ ptool.pc = "kill" /\ sup[ptool.s] = "done"
  /\ ptool' = NoTool
  /\ UNCHANGED <<turn, events, call, listed, aged, sess, buffers, sup, proc, copier, waited, tools,
                 history>>

\* Mutant: remove drops the session and leaves the process.
RemoveOnly(s) ==
  /\ ptool = NoTool /\ tools < MaxTool /\ roundOn /\ s \in listed
  /\ tools' = tools + 1
  /\ listed' = listed \ {s}
  /\ early' = IF sess[s].proc THEN early ELSE early \cup {s}
  /\ UNCHANGED <<turn, events, call, aged, sess, buffers, sup, proc, copier, waited, ptool, cut>>

\* remove: out of the registry, then Kill, which does nothing while the process
\* is not attached.
ToolRemove(s) ==
  /\ ptool = NoTool /\ tools < MaxTool /\ roundOn /\ s \in listed
  /\ tools' = tools + 1
  /\ listed' = listed \ {s}
  /\ Kill(s)
  /\ early' = IF sess[s].proc THEN early ELSE early \cup {s}
  /\ UNCHANGED <<turn, events, call, aged, buffers, sup, kin, pipe, wrote, copier, waited, ptool,
                 cut>>

---------------------------------------------------------------------------
\* What the program does by itself.
System ==
  \/ Drain \/ EndRound \/ PollOutput \/ KillDone
  \/ \E c \in Calls :
       \/ SuperviseExit(c) \/ SuperviseTimeout(c)
       \/ Copy(c) \/ Hand(c) \/ Wait(c)
       \/ StartProcess(c) \/ StartFails(c) \/ Supervise(c)
       \/ AwaitDone(c) \/ AwaitYield(c) \/ AwaitAbort(c) \/ AbortDone(c)
       \/ TerminalExit(c) \/ TerminalTimeout(c) \/ TerminalDone(c)

\* What the model, the user and the commands do, or never do.
Environment ==
  \/ Interrupt \/ NextRound
  \/ \E c \in Calls :
       \/ Age(c) \/ Emit(c) \/ Exits(c) \/ Escapes(c)
       \/ \E mode \in {"fg", "bg", "pty"} : Begin(c, mode)
       \/ ToolLook(c) \/ PollStatus(c) \/ ToolKill(c) \/ ToolRemove(c)

Next == System \/ Environment

Spec == Init /\ [][Next]_vars

\* Goroutines run and timers fire.
FairSpec == Spec /\ WF_vars(System)

---------------------------------------------------------------------------
(* Properties. *)

\* The type of every variable.
TypeOK ==
  /\ cur \in Rounds /\ roundOn \in BOOLEAN /\ cancelled \subseteq 1..cur
  /\ events \in [Rounds -> 0..QueueCap]
  /\ listed \subseteq Calls /\ aged \subseteq Calls
  /\ \A c \in Calls :
       /\ sess[c].state \in {"running", "exited", "killed", "timed_out"}
       /\ Len(agg[c]) <= BufferCap /\ Len(unread[c]) <= BufferCap
       /\ Len(pipe[c]) <= PipeCap /\ wrote[c] \in 0..MaxChunks
       /\ sup[c] \in {"none", "watch", "kill", "done"} /\ os[c] \in {"none", "run", "dead"}
       /\ copier[c] \in {"idle", "hand", "shut"}
       /\ call[c].pc \in {"idle", "created", "started", "waiting", "aborting", "blocking",
                          "closing", "returned"}
       /\ c \in listed => call[c].mode \in {"fg", "bg"}

\* The last BufferCap chunks of n.
Suffix(n) == [i \in 1..(IF n < BufferCap THEN n ELSE BufferCap) |->
                (IF n < BufferCap THEN 0 ELSE n - BufferCap) + i]

\* The end is told only with all of the output: a call that reports how its
\* command ended carries everything it wrote, as far as the buffer goes, and once
\* a poll has said so there is nothing more to poll - unless a descendant or the
\* queue held the output back past the grace, or the command had a terminal.
OutputWhole ==
  \A c \in Calls : c \notin cut /\ call[c].mode # "pty" =>
    /\ call[c].result \in {"exit", "timeout", "aborted"} => call[c].out = Suffix(wrote[c])
    /\ ptool.pc = "poll" /\ ptool.s = c /\ ptool.status # "running" =>
         agg[c] = Suffix(wrote[c])
    /\ sess[c].state # "running" => IsSuffix(unread[c], Suffix(wrote[c]))

\* No command runs where nobody can reach it: a live process is in the registry
\* or its call still waits for it, whatever was reaped, removed or killed; a
\* session removed before its process was attached is the exception.
NoStray ==
  \A c \in Calls \ early : os[c] = "run" => c \in listed \/ call[c].pc # "returned"

\* Everything ends: no call blocks for ever, every command is gone by its
\* deadline and every kill is answered, whatever the commands do.  Two waits have
\* no end: a kill of a session whose command then failed to start, and a call
\* with a terminal whose copier is blocked on the queue of a round that is over.
ComesToRest ==
  []<>(/\ ptool = NoTool \/ (ptool.pc = "kill" /\ call[ptool.s].result = "failed")
       /\ \A c \in Calls :
            /\ call[c].pc \in {"idle", "returned"} \/ (call[c].mode = "pty" /\ Stuck(c))
            /\ os[c] # "run")

=============================================================================
