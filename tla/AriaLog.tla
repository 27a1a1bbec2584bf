------------------------------ MODULE AriaLog ------------------------------
(***************************************************************************)
(* What the store promises to everyone who opens an aria's log: one log    *)
(* per aria, shared by the agent that writes and by the clients that read. *)
(* A log only grows at its end; a fork starts as a prefix of another log;  *)
(* a death of the process may cost the tail; nothing else ever changes.    *)
(***************************************************************************)
EXTENDS Naturals, Sequences, SequencesExt

CONSTANTS Arias,   \* names of conversations
          Message, \* what is appended to a log
          Births   \* what a conversation begins with

VARIABLES log,     \* what a reader of each aria sees
          exists,  \* the arias there are
          deaths   \* how often the process has died

logVars == <<log, exists, deaths>>

LogInit ==
  /\ exists = {}
  /\ log = [a \in Arias |-> <<>>]
  /\ deaths = 0

Begin(a) ==
  /\ a \notin exists
  /\ exists' = exists \cup {a}
  /\ \E s \in Births : log' = [log EXCEPT ![a] = s]
  /\ UNCHANGED deaths

AppendMessage(a) ==
  /\ a \in exists
  /\ \E msg \in Message : log' = [log EXCEPT ![a] = Append(@, msg)]
  /\ UNCHANGED <<exists, deaths>>

Branch(a, b) ==
  /\ a \in exists /\ b \notin exists
  /\ exists' = exists \cup {b}
  /\ \E n \in 0..Len(log[a]) : log' = [log EXCEPT ![b] = SubSeq(log[a], 1, n)]
  /\ UNCHANGED deaths

RemoveLogs ==
  /\ exists' \subseteq exists /\ exists' # exists
  /\ log' = [a \in Arias |-> IF a \in exists' THEN log[a] ELSE <<>>]
  /\ UNCHANGED deaths

LoseTails ==
  /\ deaths' = deaths + 1
  /\ \A a \in Arias : IsPrefix(log'[a], log[a])
  /\ UNCHANGED exists

LogNext ==
  \/ \E a \in Arias : Begin(a) \/ AppendMessage(a) \/ \E b \in Arias : Branch(a, b)
  \/ RemoveLogs \/ LoseTails

LogSpec == LogInit /\ [][LogNext]_logVars
=============================================================================
