----------------------------- MODULE AriaStream -----------------------------
(***************************************************************************)
(* The stream of rendered units (internal/livelog/aria): the server of one *)
(* agent, one connection, and one client that folds what it receives.      *)
(*                                                                         *)
(* The drain loop changes the server under its lock and pushes the frame   *)
(* after releasing it.  Reads are answered by other goroutines, so that a  *)
(* snapshot and a frame it already contains may arrive in either order; on *)
(* the client the answer of a read is applied by the goroutine that asked, *)
(* possibly after frames that arrived later.                               *)
(***************************************************************************)
EXTENDS LiveDoc, SequencesExt

CONSTANTS
  Texts,      \* the texts a node may have
  MaxNodes,   \* bound: nodes of a unit
  MaxFrames,  \* bound: frames of a unit
  MaxUnits,   \* bound: units opened
  Pager,      \* the client's goroutine that enters the transcript
  Healers,    \* bound: its goroutines that re-read after a desync
  WireCap,    \* items the connection buffers before Notify blocks
  ClosedLimit,\* closed messages the client retains; 0 for all
  PageSize,   \* closed messages ReadBefore returns at most
  Kinds       \* what may happen besides plain streaming

Disturbances == {"late", "read", "empty", "abandon", "reconcile", "timeout"}

ASSUME AriaStreamAssumption ==
  /\ Texts # {} /\ \A t \in Texts : t \in Seq(Bytes) /\ Valid(t)
  /\ MaxNodes \in Nat \ {0} /\ MaxFrames \in Nat /\ MaxUnits \in Nat \ {0}
  /\ Pager \notin Healers
  /\ WireCap \in Nat \ {0} /\ ClosedLimit \in Nat /\ PageSize \in Nat
  /\ Kinds \subseteq Disturbances

VARIABLES
  \* Server
  history,   \* Server.closed
  open,      \* Server.open; lt = 0 when there is none
  unitLT,    \* Agent.unitLT
  pending,   \* frames computed under the lock and not delivered yet
  \* connection
  base,      \* the last LT committed when it subscribed
  wire,      \* frames and answers on their way to the client
  \* Client
  view,      \* the client's folded copy
  reads,     \* each reader's request
  \* history of the run
  published, \* every message the server ever closed
  shown,     \* how often the client announced the message of an LT (OnClosed)
  opened,    \* the LTs the units were opened at
  broken,    \* the LTs whose frames the client folded out of sequence, or that
             \* were used for two units
  excused    \* a read timed out, or the units were renumbered

server == <<history, open, unitLT>>
vars   == <<server, pending, base, wire, view, reads, published, shown, opened, broken, excused>>

LTs      == 0..(MaxUnits + 1)
Message  == [lt : LTs, nodes : Seq(Seq(Bytes))]
NoOpen   == [lt |-> 0, nodes |-> <<>>, ver |-> 0]

NodeDelta == [id : 1..MaxNodes, op : {"set", "keep", "splice"}, splice : Splice]
NoLive    == [lt |-> 0, v |-> 0, nodes |-> <<>>]
Frame(committed, live) == [committed |-> committed, live |-> live]

\* A committed entry: a close marker when it has no nodes (Committed.Full).
Marker(lt, v)  == [lt |-> lt, v |-> v, nodes |-> <<>>]

\* Mutant: Read returns close markers.
MarkerOnly(m)  == Marker(m.lt, 0)

Snapshot(m)    == [lt |-> m.lt, v |-> 0, nodes |-> m.nodes]
Full(c)        == c.nodes # <<>>

\* The elements of s at the positions I, in their order.
Picked(s, I) ==
  LET Upto[n \in 0..Len(s)] ==
        IF n = 0 THEN <<>> ELSE IF n \in I THEN Append(Upto[n - 1], s[n]) ELSE Upto[n - 1]
  IN Upto[Len(s)]

-----------------------------------------------------------------------------
(* Server *)

NoSplice == [at |-> 0, del |-> 0, ins |-> <<>>]

\* fullSet: creates the node; a text is set only when there is one.
FullSet(id, t) ==
  [id |-> id, op |-> IF t = <<>> THEN "keep" ELSE "set", splice |-> [NoSplice EXCEPT !.ins = t]]

\* delta: a text that was empty, or becomes empty, is set whole; any other
\* change is a splice on the previous one.
Delta(id, old, new) ==
  [id |-> id,
   op |-> IF old = <<>> \/ new = <<>> THEN "set" ELSE "splice",
   splice |-> IF old = <<>> \/ new = <<>> THEN [NoSplice EXCEPT !.ins = new] ELSE Diff(old, new)]

\* The deltas of an Update, in the order of the nodes.
Deltas(olds, news) ==
  LET all == [i \in DOMAIN news |-> IF i > Len(olds) THEN FullSet(i, news[i])
                                    ELSE Delta(i, olds[i], news[i])]
  IN Picked(all, {i \in DOMAIN news : i > Len(olds) \/ olds[i] # news[i]})

LastCommittedLT == IF history = <<>> THEN 0 ELSE Last(history).lt

\* The open message as a full-create frame at its version.
ReadOpen ==
  IF open.nodes = <<>> THEN NoLive
  ELSE [lt |-> open.lt, v |-> IF open.ver = 0 THEN 0 ELSE open.ver - 1,
        nodes |-> [i \in DOMAIN open.nodes |-> FullSet(i, open.nodes[i])]]

Snapshots(ms) == [i \in DOMAIN ms |-> Snapshot(ms[i])]

ReadSince(lt) ==
  Frame(Snapshots(Picked(history, {i \in DOMAIN history : history[i].lt > lt})), ReadOpen)

\* ReadBefore(recentCursor, PageSize)
ReadRecent == Snapshots(SubSeq(history, Len(history) - AtMost(PageSize, Len(history)) + 1, Len(history)))

-----------------------------------------------------------------------------
(* Client *)

NoBlocks == [i \in 1..MaxNodes |-> <<>>]
NewView  == [closed |-> {}, seen |-> {}, floor |-> 0, cursor |-> 0,
             lt |-> 0, v |-> 0, order |-> <<>>, block |-> NoBlocks]

ResetOpen(w) == [w EXCEPT !.lt = 0, !.v = 0, !.order = <<>>, !.block = NoBlocks]

OpenNodes(w) == [i \in DOMAIN w.order |-> w.block[w.order[i]]]

SeenClosed(w, lt) == lt < w.floor \/ lt \in w.seen

Advance(w, lt) == [w EXCEPT !.cursor = IF lt > @ THEN lt ELSE @]

\* A snapshot is adopted unless its LT was seen, and closes the copy of its LT.
Adopt(st, c) ==
  LET w == st.view
      b == Advance(IF c.lt = w.lt THEN ResetOpen(w) ELSE w, c.lt)
  IN IF SeenClosed(w, c.lt) THEN [st EXCEPT !.view = b]
     ELSE [st EXCEPT !.view = [b EXCEPT !.seen = @ \cup {c.lt}],
                     !.final = @ \cup {[lt |-> c.lt, nodes |-> c.nodes]}]

\* A marker promotes the copy.
Promote(st, lt) ==
  LET w == st.view
      b == Advance(ResetOpen(w), lt)
  IN [st EXCEPT !.view = [b EXCEPT !.seen = @ \cup {lt}],
                !.final = IF lt \in w.seen THEN @ ELSE @ \cup {[lt |-> lt, nodes |-> OpenNodes(w)]}]

\* Mutants: a marker promotes whatever version the copy has; a marker that does
\* not match is ignored.
PromoteAnyVersion(st, c) ==
  IF Full(c) THEN Adopt(st, c)
  ELSE IF st.view.lt = c.lt THEN Promote(st, c.lt)
  ELSE [st EXCEPT !.desync = {st.view.cursor}]

IgnoreMismatch(st, c) == [PromoteAnyVersion(st, c) EXCEPT !.desync = {}]

\* One committed entry: adopt a snapshot, promote the copy a marker names when
\* its last version was seen, else ask for a catch-up from the cursor.
ApplyCommitted(st, c) ==
  IF Full(c) THEN Adopt(st, c)
  ELSE IF st.view.lt = c.lt /\ st.view.v = c.v THEN Promote(st, c.lt)
  ELSE [st EXCEPT !.desync = {st.view.cursor}]

ApplyAll(st, cs) ==
  LET After[n \in 0..Len(cs)] == IF n = 0 THEN st ELSE ApplyCommitted(After[n - 1], cs[n])
  IN After[Len(cs)]

\* trimClosed: keep the ClosedLimit newest.
Trim(w) ==
  LET kept == {m \in w.closed : Cardinality({x \in w.closed : x.lt > m.lt}) < ClosedLimit}
      lts  == {m.lt : m \in kept}
      low  == CHOOSE n \in lts : \A k \in lts : n <= k
  IN IF ClosedLimit = 0 \/ Cardinality(w.closed) <= ClosedLimit THEN w
     ELSE [w EXCEPT !.closed = kept, !.seen = lts, !.floor = IF low > @ THEN low ELSE @]

FoldDelta(t, d) ==
  CASE d.op = "keep"   -> t
    [] d.op = "set"    -> d.splice.ins
    [] d.op = "splice" -> Apply(t, d.splice)

ApplyNode(w, d) ==
  [w EXCEPT !.order = IF \E i \in DOMAIN @ : @[i] = d.id THEN @ ELSE Append(@, d.id),
            !.block[d.id] = FoldDelta(@, d)]

ApplyNodes(w, ds) ==
  LET After[n \in 0..Len(ds)] == IF n = 0 THEN w ELSE ApplyNode(After[n - 1], ds[n])
  IN After[Len(ds)]

\* A live frame is folded whatever its version; another LT starts afresh.
ApplyLive(w, f) ==
  IF f.lt = 0 THEN w
  ELSE LET b == IF w.lt = f.lt THEN w ELSE [ResetOpen(w) EXCEPT !.lt = f.lt]
       IN [ApplyNodes(b, f.nodes) EXCEPT !.v = f.v]

\* Client.Apply: the view after it, the messages it finalized, and the cursor
\* of the catch-up it asks for, if any.
ApplyPage(w, f) ==
  LET s == ApplyAll([view |-> w, final |-> {}, desync |-> {}], f.committed)
  IN [s EXCEPT !.view = ApplyLive(Trim([s.view EXCEPT !.closed = @ \cup s.final]), f.live)]

-----------------------------------------------------------------------------
(* A reader's request: call is the method, stage how far it got, have what an  *)
(* earlier call of the same reader returned, page the answer.                  *)

NoPage == Frame(<<>>, NoLive)
Readers == Healers \cup {Pager}

Idle   == [stage |-> "idle", call |-> "Read", since |-> 0, have |-> <<>>, page |-> NoPage]

\* A reader is through: the pager, once entered, is not entered again.
Through(r) == IF r = Pager THEN [Idle EXCEPT !.stage = "entered"] ELSE Idle

\* Read(lt)
Ask(lt) == [Idle EXCEPT !.stage = "asked", !.since = lt]

\* recentCursor: beyond every LT.
RecentCursor == MaxUnits + 2

Live  == [lt : LTs, v : Nat, nodes : Seq(NodeDelta)]
Page  == [committed : Seq([lt : LTs, v : Nat, nodes : Seq(Seq(Bytes))]), live : Live]
Query == [stage : {"idle", "asked", "served", "wired", "got", "entered"},
          call : {"Read", "ReadBefore"}, since : LTs \cup {RecentCursor},
          have : Seq([lt : LTs, v : Nat, nodes : Seq(Seq(Bytes))]), page : Page]
View  == [closed : SUBSET Message, seen : SUBSET LTs, floor : LTs, cursor : LTs,
          lt : LTs, v : Nat, order : Seq(1..MaxNodes), block : [1..MaxNodes -> Seq(Bytes)]]

\* Every variable keeps its type.  The closed messages have ascending LTs, below
\* that of the open one, which the binary search of ReadBefore relies on; and a
\* message has nodes once a frame was sent.
TypeOK ==
  /\ history \in Seq(Message) /\ unitLT \in LTs
  /\ open \in [lt : LTs, nodes : Seq(Seq(Bytes)), ver : Nat]
  /\ \A i, j \in DOMAIN history : i < j => history[i].lt < history[j].lt
  /\ open.lt # 0 => LastCommittedLT < open.lt /\ open.lt <= unitLT
  /\ (open.ver = 0) = (open.nodes = <<>>)
  /\ pending \in Seq(Page) /\ base \in LTs
  /\ wire \in Seq([reader : SUBSET Readers, page : Page]) /\ Len(wire) <= WireCap
  /\ view \in View /\ reads \in [Readers -> Query]
  /\ published \in SUBSET Message /\ shown \in [LTs -> Nat]
  /\ opened \in Seq(LTs) /\ broken \in SUBSET LTs /\ excused \in BOOLEAN

\* serveConn subscribes the client at the start of the session, or ("late") when
\* one message is closed, or one is open and has made its first frame, or both.
\* Their text does not matter.
Before == IF "late" \in Kinds THEN {<<CHOOSE t \in Texts : TRUE>>} ELSE {}

Init ==
  /\ history \in {<<>>} \cup {<<[lt |-> 1, nodes |-> n]>> : n \in Before}
  /\ open \in {NoOpen} \cup {[lt |-> Len(history) + 1, nodes |-> n, ver |-> 1] : n \in Before}
  /\ unitLT = Len(history) + open.ver
  /\ pending \in {<<>>} \cup (IF open.lt = 0 THEN {} ELSE {<<Frame(<<>>, ReadOpen)>>})
  /\ base = LastCommittedLT /\ wire = <<>>
  /\ view = NewView /\ reads = [r \in Readers |-> Idle]
  /\ published = Range(history) /\ shown = [lt \in LTs |-> 0]
  /\ opened = [i \in 1..unitLT |-> i] /\ broken = {} /\ excused = FALSE

-----------------------------------------------------------------------------
(* The drain loop on the server.  It delivers a frame before it goes on. *)

\* emitSnapshot's Open, over whatever was open.
Open ==
  /\ pending = <<>> /\ Len(opened) < MaxUnits
  /\ unitLT' = unitLT + 1
  /\ open' = [NoOpen EXCEPT !.lt = unitLT + 1]
  /\ opened' = Append(opened, unitLT')
  /\ broken' = IF unitLT' \in Range(opened) THEN broken \cup {unitLT'} ELSE broken
  /\ UNCHANGED <<history, pending, base, wire, view, reads, published, shown, excused>>

\* Nodes beyond the new list stay.
Update(news) ==
  /\ pending = <<>> /\ open.lt # 0 /\ open.ver < MaxFrames
  /\ Deltas(open.nodes, news) # <<>>
  /\ open' = [open EXCEPT !.nodes = news \o SubSeq(@, Len(news) + 1, Len(@)), !.ver = @ + 1]
  /\ pending' = <<Frame(<<>>, [lt |-> open.lt, v |-> open.ver, nodes |-> Deltas(open.nodes, news)])>>
  /\ UNCHANGED <<history, unitLT, base, wire, view, reads, published, shown, opened, broken, excused>>

Close ==
  /\ pending = <<>> /\ open.lt # 0
  /\ open.nodes # <<>> \/ "empty" \in Kinds
  /\ LET m == [lt |-> open.lt, nodes |-> open.nodes] IN
       /\ history' = Append(history, m)
       /\ published' = published \cup {m}
  /\ open' = NoOpen
  /\ pending' = <<Frame(<<Marker(open.lt, IF open.ver = 0 THEN 0 ELSE open.ver - 1)>>, NoLive)>>
  /\ UNCHANGED <<unitLT, base, wire, view, reads, shown, opened, broken, excused>>

Abandon ==
  /\ pending = <<>> /\ open.lt # 0 /\ "abandon" \in Kinds
  /\ open' = NoOpen
  /\ UNCHANGED <<history, unitLT, pending, base, wire, view, reads, published, shown, opened, broken, excused>>

\* reconcileAriaServer: the units of the log are the messages with content, and
\* the open one when the turn was sealed; they are numbered anew.
Reconcile ==
  /\ pending = <<>> /\ "reconcile" \in Kinds
  /\ \E tail \in {<<>>} \cup (IF open.nodes = <<>> THEN {} ELSE {<<open.nodes>>}) :
       LET kept == Picked(history, {i \in DOMAIN history : history[i].nodes # <<>>})
           all  == [i \in DOMAIN kept |-> kept[i].nodes] \o tail
           new  == [i \in DOMAIN all |-> [lt |-> i, nodes |-> all[i]]]
           news == SubSeq(new, LastCommittedLT + 1, Len(new))
           bare == open.lt # 0 /\ Len(new) <= LastCommittedLT
       IN /\ history' = new
          /\ unitLT' = IF bare THEN Len(new) + 1 ELSE Len(new)
          /\ pending' = [i \in DOMAIN news |-> Frame(<<Snapshot(news[i])>>, NoLive)]
                        \o (IF bare THEN <<Frame(<<>>, [NoLive EXCEPT !.lt = unitLT'])>> ELSE <<>>)
          /\ published' = published \cup Range(new)
          /\ excused' = (excused \/ ~IsPrefix(history, new))
  /\ open' = NoOpen
  /\ UNCHANGED <<base, wire, view, reads, shown, opened, broken>>

-----------------------------------------------------------------------------
(* The connection *)

\* fanOut, outside the server's lock.
Deliver ==
  /\ pending # <<>> /\ Len(wire) < WireCap
  /\ pending' = Tail(pending)
  /\ wire' = Append(wire, [reader |-> {}, page |-> Head(pending)])
  /\ UNCHANGED <<server, base, view, reads, published, shown, opened, broken, excused>>

\* A handler computes an answer under the server's lock.
Serve(r) ==
  /\ reads[r].stage = "asked"
  /\ reads' = [reads EXCEPT ![r].stage = "served",
                            ![r].page = IF reads[r].call = "Read" THEN ReadSince(reads[r].since)
                                        ELSE Frame(ReadRecent, NoLive)]
  /\ UNCHANGED <<server, pending, base, wire, view, published, shown, opened, broken, excused>>

\* The handler writes its answer, some time after it computed it.
Reply(r) ==
  /\ reads[r].stage = "served" /\ Len(wire) < WireCap
  /\ reads' = [reads EXCEPT ![r].stage = "wired", ![r].page = NoPage]
  /\ wire' = Append(wire, [reader |-> {r}, page |-> reads[r].page])
  /\ UNCHANGED <<server, pending, base, view, published, shown, opened, broken, excused>>

-----------------------------------------------------------------------------
(* The client *)

\* A frame must continue the copy it is folded into; a snapshot replaces it, but
\* cannot clear a text the server has cleared.
OutOfSequence(f, isAnswer) ==
  /\ f.lt # 0
  /\ IF isAnswer
     THEN view.lt = f.lt /\ \E i \in DOMAIN f.nodes :
            f.nodes[i].op = "keep" /\ view.block[f.nodes[i].id] # <<>>
     ELSE f.v # IF view.lt = f.lt THEN view.v + 1 ELSE 0

\* Apply a page under the client's mutex; a desync starts a read in a goroutine
\* of its own.  from is the set of readers that become free.
Fold(f, isAnswer, from) ==
  LET a == ApplyPage(view, f)
  IN /\ view' = a.view
     /\ shown' = [lt \in LTs |-> shown[lt] + Cardinality({m \in a.final : m.lt = lt})]
     /\ broken' = IF OutOfSequence(f.live, isAnswer) THEN broken \cup {f.live.lt} ELSE broken
     /\ LET freed == [r \in Readers |-> IF r \in from THEN Through(r) ELSE reads[r]] IN
        IF a.desync = {} THEN reads' = freed
        ELSE \E r \in Healers, lt \in a.desync :
               freed[r] = Idle /\ reads' = [freed EXCEPT ![r] = Ask(lt)]

\* onNotify
ReceiveFrame ==
  /\ wire # <<>> /\ Head(wire).reader = {}
  /\ wire' = Tail(wire)
  /\ Fold(Head(wire).page, FALSE, {})
  /\ UNCHANGED <<server, pending, base, published, opened, excused>>

\* The answer is handed to the goroutine that waits for it.  enterTranscript
\* asks for the open message once it has the committed window.
Received(q, page) ==
  IF q.call = "ReadBefore"
  THEN [Ask(RecentCursor) EXCEPT !.have = page.committed]
  ELSE [q EXCEPT !.stage = "got", !.page = Frame(q.have \o page.committed, page.live)]

ReceiveAnswer ==
  /\ wire # <<>> /\ Head(wire).reader # {}
  /\ wire' = Tail(wire)
  /\ reads' = [r \in Readers |-> IF r \in Head(wire).reader
                                 THEN Received(reads[r], Head(wire).page) ELSE reads[r]]
  /\ UNCHANGED <<server, pending, base, view, published, shown, opened, broken, excused>>

ApplyAnswer(r) ==
  /\ reads[r].stage = "got"
  /\ Fold(reads[r].page, TRUE, {r})
  /\ UNCHANGED <<server, pending, base, wire, published, opened, excused>>

\* enterTranscript
EnterTranscript ==
  /\ "read" \in Kinds /\ reads[Pager] = Idle
  /\ reads' = [reads EXCEPT ![Pager].stage = "asked", ![Pager].call = "ReadBefore"]
  /\ UNCHANGED <<server, pending, base, wire, view, published, shown, opened, broken, excused>>

\* The read's context expires; its answer will find nobody.  What an earlier
\* call returned is still applied.
Timeout(r) ==
  /\ "timeout" \in Kinds /\ reads[r].stage \in {"asked", "served", "wired"}
  /\ reads' = [reads EXCEPT ![r] = IF reads[r].since = RecentCursor
                                   THEN [@ EXCEPT !.stage = "got", !.page = Frame(reads[r].have, NoLive)]
                                   ELSE Through(r)]
  /\ wire' = Picked(wire, {k \in DOMAIN wire : wire[k].reader # {r}})
  /\ excused' = TRUE
  /\ UNCHANGED <<server, pending, base, view, published, shown, opened, broken>>

-----------------------------------------------------------------------------
NodeLists == UNION {[1..n -> Texts] : n \in 1..MaxNodes}

Producer == Open \/ (\E news \in NodeLists : Update(news)) \/ Close \/ Abandon \/ Reconcile

Handler(r) == Serve(r) \/ Reply(r)

Reader(r) == ApplyAnswer(r) \/ Timeout(r)

Rest == pending = <<>> /\ wire = <<>> /\ (\A r \in Readers : reads[r] = Idle \/ reads[r] = Through(r))

\* Nothing is under way: everybody waits for the next turn.
Quiescent == Rest /\ UNCHANGED vars

Next == Producer \/ EnterTranscript \/ Deliver \/ ReceiveFrame \/ ReceiveAnswer \/ Quiescent
        \/ (\E r \in Readers : Handler(r) \/ Reader(r))

Spec == Init /\ [][Next]_vars

\* What is under way goes on: the drain loop delivers, the daemon's handlers
\* answer, the client's goroutines receive and apply.
Progress == Deliver \/ ReceiveFrame \/ ReceiveAnswer
            \/ (\E r \in Readers : Handler(r) \/ ApplyAnswer(r))

\* Nothing is assumed of new work, and of the goroutines only that one of those
\* that can move does.
FairSpec == Spec /\ WF_vars(Progress)

-----------------------------------------------------------------------------
(* Properties *)

\* What the client closed is what the server closed, to the byte, although it
\* was folded from splices, adopted from a snapshot, or both (Client.Apply).
\* Left out are the units whose frames met a snapshot that contained them
\* already, and those whose LT was used twice: the README tells
\* what happens to them.
Faithful ==
  \A m \in view.closed : m.lt \in broken \/ m \in published

Carries(f, lt) == \E i \in DOMAIN f.committed : f.committed[i].lt = lt

\* The client has the message, or it is on its way, or a read is under way that
\* will bring it.
Coming(m) ==
  \/ SeenClosed(view, m.lt)
  \/ \E k \in DOMAIN pending : Carries(pending[k], m.lt)
  \/ \E k \in DOMAIN wire : Carries(wire[k].page, m.lt)
  \/ \E r \in Readers : \/ reads[r].stage = "asked" /\ reads[r].call = "Read" /\ reads[r].since < m.lt
                        \/ Carries(reads[r].page, m.lt)

\* The LT was used for two units, or its unit was closed without nodes, which
\* every read reports as a close marker anew.
Ambiguous(lt) ==
  \/ \E i, j \in DOMAIN opened : i < j /\ opened[i] = lt /\ opened[j] = lt
  \/ [lt |-> lt, nodes |-> <<>>] \in published

\* A message closed after the client subscribed is announced once however often
\* it is pushed and read, even after its eviction, unless its LT is ambiguous;
\* and it is not missed: a read that timed out is not repeated, and a renumbering
\* is not announced (OnClosed, OnDesync, closedSeen, closedFloor).
AnnouncedOnce ==
  /\ \A lt \in LTs : shown[lt] <= 1 \/ Ambiguous(lt)
  /\ ~excused => \A i \in DOMAIN history :
       history[i].nodes = <<>> \/ history[i].lt <= base \/ Coming(history[i])

\* No splice on its way splits a rune, which JSON would not carry
\* (livedoc.Diff).
WholeRunes ==
  \A k \in DOMAIN wire : \A i \in DOMAIN wire[k].page.live.nodes :
    Valid(wire[k].page.live.nodes[i].splice.ins)

\* A desync heals: whatever was asked, the client's reads come to an end and the
\* connection falls silent (OnDesync in mustPromptFigaro).
Settles == (\E r \in Readers : reads[r].stage = "asked") ~> Rest

=============================================================================
