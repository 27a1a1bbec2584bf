----------------------------- MODULE Transcript -----------------------------
(***************************************************************************)
(* The canonical message log of one aria (figLog) and the pure functions   *)
(* the agent applies to it: which tail must be repaired, what a repair     *)
(* appends, and how the log folds into rendered units.                     *)
(*                                                                         *)
(* A message is abstracted to what tells messages apart here: who wrote    *)
(* it, the client event it persists, whether it carries text, the tool     *)
(* calls it makes or answers, and the outcome recorded for each answer.    *)
(***************************************************************************)
EXTENDS Naturals, Sequences, FiniteSets

CONSTANTS
  Prompts,    \* user prompts (eventUserPrompt)
  Silent,     \* the prompts that carry a chalkboard patch and no text
  Sets,       \* chalkboard patches (eventSet)
  Calls,      \* tool call ids
  Malformed,  \* the calls whose input is no JSON object: Arguments == nil
  NoEvent     \* the event of a message that persists none

ASSUME TranscriptAssumption ==
  /\ Silent \subseteq Prompts
  /\ Malformed \subseteq Calls
  /\ Prompts \cap Sets = {}
  /\ NoEvent \notin Prompts \cup Sets

\* What a tool_result block records.  "empty" is a zero toolOutcome: no text,
\* no error flag; "interrupted" and "repaired" are the two synthetic notices.
Outcomes == {"none", "ok", "error", "interrupted", "repaired", "empty"}

Entry == [kind  : {"prompt", "patch", "assistant", "results"},
          event : Prompts \cup Sets \cup {NoEvent},
          text  : BOOLEAN,
          calls : SUBSET Calls,
          res   : [Calls -> Outcomes]]

NoResults == [c \in Calls |-> "none"]

PromptEntry(p) ==
  [kind |-> "prompt", event |-> p, text |-> p \notin Silent,
   calls |-> {}, res |-> NoResults]

PatchEntry(s) ==
  [kind |-> "patch", event |-> s, text |-> FALSE, calls |-> {}, res |-> NoResults]

AssistantEntry(text, calls) ==
  [kind |-> "assistant", event |-> NoEvent, text |-> text,
   calls |-> calls, res |-> NoResults]

\* One tool_result block for every call in calls, res giving its outcome.
ResultEntry(calls, res) ==
  [kind |-> "results", event |-> NoEvent, text |-> FALSE, calls |-> calls,
   res |-> [c \in Calls |-> IF c \in calls THEN res[c] ELSE "none"]]

-----------------------------------------------------------------------------
\* The tail is an assistant message with tool calls: nothing answers it yet.
DanglingTail(log) ==
  /\ log # <<>>
  /\ log[Len(log)].kind = "assistant"
  /\ log[Len(log)].calls # {}

\* What repairInterruptedTail appends after a dangling tail: a result for
\* every call of the message, the malformed ones too.
RepairEntry(log) ==
  ResultEntry(log[Len(log)].calls, [c \in Calls |-> "repaired"])

-----------------------------------------------------------------------------
\* compose.Units: a text prompt is a unit of its own; the assistant messages
\* up to the next text prompt, with their results, are one unit.
IsTextPrompt(e) == e.kind = "prompt" /\ e.text
Renders(e)      == e.kind = "assistant" /\ (e.text \/ e.calls # {})

Heads(log) ==
  {i \in DOMAIN log :
     \/ IsTextPrompt(log[i])
     \/ /\ Renders(log[i])
        /\ \A j \in 1..(i - 1) :
             Renders(log[j]) => \E k \in (j + 1)..(i - 1) : IsTextPrompt(log[k])}

\* The last position of the unit that starts at i.
GroupEnd(log, i) ==
  IF IsTextPrompt(log[i]) THEN i
  ELSE i + Cardinality({j \in (i + 1)..Len(log) :
                          \A k \in (i + 1)..j : ~IsTextPrompt(log[k])})

\* A unit shows what the positions from+1 .. seen of the log render as.
Unit == [lt : Nat, role : {"user", "assistant"}, from : Nat, seen : Nat]

\* The units rebuilt from the log, numbered 1, 2, ... in order.
Units(log) ==
  {[lt   |-> Cardinality({j \in Heads(log) : j <= i}),
    role |-> IF IsTextPrompt(log[i]) THEN "user" ELSE "assistant",
    from |-> i - 1,
    seen |-> GroupEnd(log, i)] : i \in Heads(log)}

-----------------------------------------------------------------------------
\* e answers the tool calls of the assistant message a.  A call without
\* arguments may be left out: sealing an interrupted turn skips it.
Answers(e, a) ==
  /\ e.kind = "results"
  /\ a.calls \ Malformed \subseteq e.calls
  /\ e.calls \subseteq a.calls

\* The order the model APIs insist on: the message after one that calls tools
\* answers its calls, and results only ever follow the calls they answer.
WellPaired(log) ==
  \A i \in 1..Len(log) :
    /\ (i < Len(log) /\ log[i].kind = "assistant" /\ log[i].calls \ Malformed # {})
         => Answers(log[i + 1], log[i])
    /\ log[i].kind = "results" =>
         /\ i > 1
         /\ log[i - 1].kind = "assistant"
         /\ Answers(log[i], log[i - 1])

\* The tail calls tools that must be answered before anything else is appended.
Owes(log) ==
  /\ log # <<>>
  /\ log[Len(log)].kind = "assistant"
  /\ log[Len(log)].calls \ Malformed # {}

=============================================================================
