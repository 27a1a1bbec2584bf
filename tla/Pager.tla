-------------------------------- MODULE Pager --------------------------------
(***************************************************************************)
(* The transcript pager of the interactive commands (internal/cli:         *)
(* transcript.go, transcript_selection.go, and the paging, searching and   *)
(* copying of stream.go): a bounded window of pages over an aria's closed  *)
(* messages, moved by keys, filled by reads that the key loop or a search  *)
(* worker makes outside the lock, while the notify pump goes on.           *)
(*                                                                         *)
(* A message is its LT and the version of its text, one node and one row.  *)
(* The query is whatever the messages in hits contain.  A page's           *)
(* descriptor is the sequence of its LTs.                                  *)
(***************************************************************************)
EXTENDS Integers, SequencesExt

CONSTANTS
  Start,      \* the sets of LTs closed when the pager opens
  MaxLT,      \* the last LT of the instance
  PageSize,   \* transcriptPageSize
  PageLimit,  \* transcriptPageLimit
  TailLimit,  \* transcriptTailLimit
  DescLimit,  \* transcriptDescLimit
  LRULimit,   \* transcriptPayloadLRULimit
  Body,       \* rows of the viewport above the footer
  Steps,      \* the rows a key or the wheel scrolls by
  Uses,       \* what the user may do in one behaviour: sets of "search" and "select"
  Hits,       \* what the query may match
  MaxSearches, MaxCopies, MaxFaults

ASSUME PagerAssumption ==
  /\ {MaxLT, PageSize, PageLimit, TailLimit, DescLimit, LRULimit, Body} \subseteq Nat \ {0}
  /\ {MaxSearches, MaxCopies, MaxFaults} \subseteq Nat /\ Steps \subseteq Nat
  /\ \A s \in Start \cup Hits : s \subseteq 1..MaxLT
  /\ \A u \in Uses : u \subseteq {"search", "select"}

VARIABLES
  log,      \* the LTs of the agent's closed messages
  lastLT,   \* the last LT it gave
  live,     \* it is streaming a message
  use,      \* what this user does
  hits,     \* the LTs whose messages contain the query
  cl,       \* the client's copy: closed LTs and the open message
  t,        \* the transcript
  asked,    \* the page the key loop is reading
  workers,  \* search workers: their generation and the page they are reading
  searchGen, searchOn,
  copies,   \* copies under way: their generation and plan
  copyGen, copyOn, copyFailed,
  clip,     \* the last text put in the clipboard
  ended, faults

agent  == <<log, lastLT, live, hits, use>>
search == <<workers, searchGen, searchOn>>
copy   == <<copies, copyGen, copyOn, copyFailed, clip>>
vars   == <<agent, cl, t, asked, search, copy, ended, faults>>

H == Body + 2

Point(lt, v) == [lt |-> lt, v |-> v]
NoPoint      == Point(0, 0)
NoSearch     == [on |-> FALSE, pages |-> <<>>, newer |-> <<>>, offset |-> 0,
                 follow |-> FALSE, noMoreOlder |-> FALSE, dir |-> "older"]
NoReq        == [dir |-> "none", before |-> 0, expected |-> <<>>, after |-> 0,
                 watermark |-> 0, cached |-> <<>>]
NoSelection  == [on |-> FALSE, anchor |-> NoPoint, focus |-> NoPoint]
NoPlan       == [lo |-> NoPoint, hi |-> NoPoint, open |-> NoPoint]

Blank ==
  [pages |-> <<>>, newer |-> <<>>, lru |-> <<>>, offset |-> 0, follow |-> TRUE,
   checkOlder |-> FALSE, checkNewer |-> FALSE, noMoreOlder |-> FALSE, search |-> NoSearch,
   held |-> NoPoint, committedW |-> 0, sel |-> NoSelection, outcome |-> "", sought |-> {}]

\* The last n elements of a sequence.
LastOf(s, n) == IF Len(s) <= n THEN s ELSE SubSeq(s, Len(s) - n + 1, Len(s))

-----------------------------------------------------------------------------
(* The agent's answers *)

ReadBefore(before, limit) == LastOf(SelectSeq(log, LAMBDA lt : lt < before), limit)

After(s, lt) == SelectSeq(s, LAMBDA x : x > lt)

\* The first page after an LT, by bisection for the bound to read before.
ReadNextPage(after, watermark) ==
  LET full(b) == Len(After(ReadBefore(b, PageSize), after)) >= PageSize
      bound[r \in (1..(MaxLT + 1)) \X (1..(MaxLT + 1))] ==
        LET mid == r[1] + (r[2] - r[1]) \div 2
        IN IF r[1] >= r[2] THEN r[2]
           ELSE IF full(mid) THEN bound[<<r[1], mid>>] ELSE bound[<<mid + 1, r[2]>>]
      high == watermark + 1
  IN IF after >= watermark THEN <<>>
     ELSE After(ReadBefore(IF full(high) THEN bound[<<after + 1, high>>] ELSE high, PageSize), after)

ReadTranscriptPage(req) ==
  IF req.cached # <<>> THEN req.cached
  ELSE IF req.after # 0 THEN ReadNextPage(req.after, req.watermark)
  ELSE ReadBefore(req.before, IF req.expected = <<>> THEN PageSize ELSE Len(req.expected))

-----------------------------------------------------------------------------
(* The window *)

Messages(u) == FoldLeft(\o, <<>>, u.pages)

OpenMessage(u, c) == IF u.follow THEN c.open ELSE u.held

Rows(u, c) ==
  LET m == Messages(u)
      o == OpenMessage(u, c)
  IN [i \in DOMAIN m |-> Point(m[i], 2)] \o (IF o.lt = 0 THEN <<>> ELSE <<o>>)

ResetToTail(u, c) ==
  LET closed == LastOf(c.closed, PageSize)
  IN [u EXCEPT !.pages = IF closed = <<>> THEN <<>> ELSE <<closed>>,
               !.committedW = IF closed # <<>> /\ Last(closed) > @ THEN Last(closed) ELSE @,
               !.newer = <<>>, !.lru = <<>>, !.checkNewer = FALSE, !.held = NoPoint,
               !.noMoreOlder = closed # <<>> /\ closed[1] <= 1]

Lines(u, c) == IF u.follow THEN ResetToTail(u, c) ELSE u

Render(u, c) ==
  LET w == Lines(u, c)
      m == Max({0, Len(Rows(w, c)) - Body})
  IN [w EXCEPT !.offset = IF w.follow \/ @ > m THEN m ELSE IF @ < 0 THEN 0 ELSE @]

StopFollowing(u, c) == [u EXCEPT !.held = IF u.follow THEN c.open ELSE @, !.follow = FALSE]

HasNewerHistory(u) ==
  \/ u.newer # <<>>
  \/ u.pages # <<>> /\ Last(Last(u.pages)) < u.committedW

ObserveCommitted(u, lt) ==
  [u EXCEPT !.committedW = IF lt > @ THEN lt ELSE @,
            !.held = IF @.lt = lt THEN Point(lt, 2) ELSE @]

\* The LT at the top of the viewport, to come back to.
ViewportAnchor(u, c) ==
  LET r == Rows(u, c)
  IN IF u.follow \/ u.offset >= Len(r) THEN 0 ELSE r[u.offset + 1].lt

RestoreViewportAnchor(u, c, lt) ==
  LET r  == Rows(u, c)
      at == {i \in DOMAIN r : r[i].lt = lt}
  IN IF lt = 0 \/ at = {} THEN u ELSE [u EXCEPT !.offset = Min(at) - 1]

RememberPayload(lru, page) ==
  IF page = <<>> THEN lru ELSE LastOf(Append(SelectSeq(lru, LAMBDA p : p # page), page), LRULimit)

\* The window keeps PageLimit pages: the far one goes, described when it is newer.
TrimPages(u, dir) ==
  LET gone == IF dir = "older" THEN Last(u.pages) ELSE Head(u.pages)
  IN IF Len(u.pages) <= PageLimit THEN u
     ELSE [u EXCEPT
             !.pages = IF dir = "older" THEN Front(@) ELSE Tail(@),
             !.newer = IF dir = "older" THEN LastOf(Append(@, gone), DescLimit) ELSE @,
             !.lru = RememberPayload(@, gone),
             !.noMoreOlder = @ /\ dir = "older"]

-----------------------------------------------------------------------------
(* Searching *)

\* The search gives up: back to where it began.
FinishSearch(u, how) ==
  IF ~u.search.on THEN u
  ELSE [u EXCEPT !.pages = u.search.pages, !.newer = u.search.newer, !.offset = u.search.offset,
                 !.follow = u.search.follow, !.noMoreOlder = u.search.noMoreOlder,
                 !.search = NoSearch, !.checkOlder = FALSE, !.checkNewer = FALSE,
                 !.outcome = how]

\* Mutant: what lies before the place where the search began is not searched.
WrapSearchNowhere(u) == FinishSearch(u, "absent")

\* Nothing newer has it: back to where it began, and on to what is older.
WrapSearchOlder(u) ==
  LET w == [u EXCEPT !.pages = u.search.pages, !.newer = u.search.newer, !.offset = u.search.offset,
                     !.follow = FALSE, !.noMoreOlder = u.search.noMoreOlder, !.checkNewer = FALSE]
  IN IF ~u.search.on THEN u
     ELSE IF w.noMoreOlder THEN FinishSearch(w, "absent")
     ELSE [w EXCEPT !.checkOlder = TRUE, !.search.dir = "older"]

\* find: the first row after the cursor, round to it, or else a search.
Find(u, c) ==
  LET w  == Lines(u, c)
      r  == Rows(w, c)
      n  == Len(r)
      at == {i \in 0..(n - 1) : r[((w.offset + 1 + i) % n) + 1].lt \in hits}
      s  == StopFollowing([w EXCEPT !.search = [on |-> TRUE, pages |-> w.pages, newer |-> w.newer,
                              offset |-> w.offset, follow |-> w.follow,
                              noMoreOlder |-> w.noMoreOlder, dir |-> "older"],
                            !.sought = Range(log)], c)
  IN IF n = 0 THEN w
     ELSE IF at # {}
     THEN [StopFollowing(w, c) EXCEPT !.offset = (w.offset + 1 + Min(at)) % n, !.outcome = "found"]
     ELSE IF HasNewerHistory(s) THEN [s EXCEPT !.checkNewer = TRUE, !.search.dir = "newer"]
     ELSE [s EXCEPT !.checkOlder = TRUE]

-----------------------------------------------------------------------------
(* Asking for a page and taking it *)

Older(before)    == [NoReq EXCEPT !.dir = "older", !.before = before]
Replay(desc, pl) == [NoReq EXCEPT !.dir = "newer", !.before = Last(desc) + 1,
                                  !.expected = desc, !.cached = pl]
NextPage(a, w)   == [NoReq EXCEPT !.dir = "newer", !.after = a, !.watermark = w]

Asks(u, req) == [t |-> u, req |-> req]

CursorOlder(u, c) ==
  LET w      == [u EXCEPT !.checkOlder = FALSE]
      oldest == Head(Head(w.pages))
  IN IF (~w.search.on /\ w.offset >= H) \/ w.pages = <<>> THEN Asks(w, NoReq)
     ELSE IF oldest <= 1
     THEN Asks(Render(FinishSearch([w EXCEPT !.noMoreOlder = TRUE], "absent"), c), NoReq)
     ELSE Asks(w, Older(oldest))

CursorNewer(u, c) ==
  LET w    == [u EXCEPT !.checkNewer = FALSE]
      desc == Last(w.newer)
  IN IF w.newer # <<>>
     THEN IF ~w.search.on /\ w.offset + H < Len(Rows(w, c)) THEN Asks(w, NoReq)
          ELSE Asks([w EXCEPT !.lru = SelectSeq(@, LAMBDA p : p # desc)],
                    Replay(desc, IF desc \in Range(w.lru) THEN desc ELSE <<>>))
     ELSE IF HasNewerHistory(w) THEN Asks(w, NextPage(Last(Last(w.pages)), w.committedW))
     ELSE Asks(w, NoReq)

PageCursor(u, c) ==
  LET w == [u EXCEPT !.checkOlder = @ /\ ~u.noMoreOlder]
  IN IF w.checkOlder THEN CursorOlder(w, c)
     ELSE IF w.checkNewer THEN CursorNewer(w, c)
     ELSE Asks(w, NoReq)

\* The page joins the window; a page in the way of the held message replaces it.
WithPage(u, req, page) ==
  LET w == [u EXCEPT
              !.held = IF @.lt \in page[1]..Last(page) THEN NoPoint ELSE @,
              !.pages = IF req.dir = "older" THEN <<page>> \o @ ELSE Append(@, page),
              !.newer = IF req.dir = "newer" /\ req.expected # <<>> /\ @ # <<>> THEN Front(@) ELSE @]
  IN TrimPages(w, req.dir)

\* A page read for a search: the first of its messages that matches is shown.
Searched(u, c, page) ==
  LET r  == Rows(u, c)
      at == {i \in DOMAIN r : r[i].lt \in hits \cap Range(page)}
  IN IF at # {}
     THEN Render([u EXCEPT !.offset = Min(at) - 1, !.follow = FALSE, !.search = NoSearch,
                           !.outcome = "found"], c)
     ELSE IF u.search.dir = "older" THEN [u EXCEPT !.checkOlder = TRUE]
     ELSE IF HasNewerHistory(u) THEN [u EXCEPT !.checkNewer = TRUE]
     ELSE LET w == WrapSearchOlder(u) IN IF w.search.on THEN w ELSE Render(w, c)

ApplyPage(u, c, req, page) ==
  IF page = <<>>
  THEN IF req.dir = "older"
       THEN Render(FinishSearch([u EXCEPT !.noMoreOlder = TRUE], "absent"), c)
       ELSE WrapSearchOlder(u)
  ELSE IF req.expected # <<>> /\ req.expected # page
  THEN Render([u EXCEPT !.newer = <<>>, !.checkNewer = TRUE], c)
  ELSE IF u.search.on THEN Searched(WithPage(u, req, page), c, page)
  ELSE LET w == WithPage(u, req, page)
       IN Render(RestoreViewportAnchor(Lines(w, c), c, ViewportAnchor(u, c)), c)

\* transcriptPageFailed
PageFailed(u, c) ==
  Render([FinishSearch(u, "dropped") EXCEPT !.checkOlder = FALSE, !.checkNewer = FALSE], c)

-----------------------------------------------------------------------------
(* Selecting *)

\* The row index of the focus, or 0.
FocusAt(u, c) ==
  LET r  == Rows(u, c)
      at == {i \in DOMAIN r : u.sel.on /\ r[i].lt = u.sel.focus.lt}
  IN IF at = {} THEN 0 ELSE Min(at)

EnsureSelectionVisible(u, c) ==
  LET i == FocusAt(u, c) - 1
  IN [u EXCEPT !.offset = IF i < 0 THEN @ ELSE IF i < @ THEN i
                          ELSE IF i >= @ + H - 1 THEN i - (H - 1) + 1 ELSE @]

MoveFocus(u, c, delta, extend) ==
  LET r    == Rows(u, c)
      i    == FocusAt(u, c)
      next == IF i = 0 THEN IF delta < 0 THEN Len(r) ELSE 1
              ELSE Max({1, Min({i + delta, Len(r)})})
      p    == r[next]
  IN IF r = <<>> THEN u
     ELSE EnsureSelectionVisible(StopFollowing([u EXCEPT
            !.sel = [on |-> TRUE, focus |-> p, anchor |-> IF extend /\ u.sel.on THEN u.sel.anchor ELSE p],
            !.checkOlder = @ \/ (i # 0 /\ i + delta < 1),
            !.checkNewer = @ \/ (i # 0 /\ i + delta > Len(r))], c), c)

\* A held message is not crossed while closed ones are missing before it.
SelectNode(u, c, delta, extend) ==
  LET r     == Rows(u, c)
      i     == FocusAt(u, c)
      inner == i # 0 /\ i + delta \in DOMAIN r
      apart == HasNewerHistory(u) /\ u.held.lt # 0
  IN IF inner /\ apart /\ u.held.lt \in {r[i].lt, r[i + delta].lt}
     THEN [u EXCEPT !.checkNewer = TRUE]
     ELSE MoveFocus(u, c, delta, extend)

ClearSelection(u, c) ==
  LET m   == Messages(u)
      dir == IF m # <<>> /\ u.sel.focus.lt >= m[(Len(m) \div 2) + 1] THEN "newer" ELSE "older"
      w   == Lines(TrimPages([u EXCEPT !.sel = NoSelection], dir), c)
  IN Render(RestoreViewportAnchor(w, c, ViewportAnchor(u, c)), c)

\* selectionPlan: the ends in order, and the open message when it is between them.
Plan(u, c) ==
  LET lo == IF u.sel.focus.lt < u.sel.anchor.lt THEN u.sel.focus ELSE u.sel.anchor
      hi == IF u.sel.focus.lt < u.sel.anchor.lt THEN u.sel.anchor ELSE u.sel.focus
      o  == OpenMessage(u, c)
  IN [lo |-> lo, hi |-> hi, open |-> IF o.lt \in lo.lt..hi.lt THEN o ELSE NoPoint]

Ends(plan) == <<plan.lo, plan.hi>>

\* Mutant: an end need only be there, whatever it has become.
SelectionTextAnyway(plan) ==
  LET below  == IF plan.open.lt = plan.hi.lt THEN plan.open.lt ELSE plan.hi.lt + 1
      old    == SelectSeq(log, LAMBDA lt : lt >= plan.lo.lt /\ lt < below)
  IN [i \in DOMAIN old |-> Point(old[i], 2)] \o (IF plan.open.lt = 0 THEN <<>> ELSE <<plan.open>>)

\* selectionText: what the history holds between the ends, then the open message;
\* nothing when an end is not there or is no longer what was selected.
SelectionText(plan) ==
  LET below  == IF plan.open.lt = plan.hi.lt THEN plan.open.lt ELSE plan.hi.lt + 1
      old    == SelectSeq(log, LAMBDA lt : lt >= plan.lo.lt /\ lt < below)
      newest == IF plan.open.lt = 0 THEN <<>> ELSE <<plan.open>>
      only   == plan.open.lt = plan.lo.lt /\ plan.open.lt = plan.hi.lt
      text   == IF only THEN newest ELSE [i \in DOMAIN old |-> Point(old[i], 2)] \o newest
      held(p) == \E x \in Range(text) : x = p
  IN IF held(plan.lo) /\ held(plan.hi) THEN text ELSE <<>>

-----------------------------------------------------------------------------
(* The agent and the notify pump.  What is committed reaches the client at once:*)
(* reads stop at what it has heard of, whatever the delay.                      *)

Heard(c, u) == cl' = c /\ t' = Render(u, c)

OpenUnit ==
  /\ ~ended /\ ~live /\ lastLT < MaxLT
  /\ live' = TRUE /\ lastLT' = lastLT + 1
  /\ Heard([cl EXCEPT !.open = Point(lastLT + 1, 1)], t)
  /\ UNCHANGED <<log, hits, use, asked, search, copy, ended, faults>>

CloseUnit ==
  /\ ~ended /\ live
  /\ live' = FALSE /\ log' = Append(log, lastLT)
  /\ Heard([closed |-> LastOf(Append(cl.closed, lastLT), TailLimit), open |-> NoPoint],
           ObserveCommitted(t, lastLT))
  /\ UNCHANGED <<lastLT, hits, use, asked, search, copy, ended, faults>>

\* endTurnDiscarding: the client is not told.
DiscardUnit ==
  /\ ~ended /\ live
  /\ live' = FALSE
  /\ UNCHANGED <<log, lastLT, hits, use, cl, t, asked, search, copy, ended, faults>>

-----------------------------------------------------------------------------
(* The key loop *)

\* cancelTranscriptSearchLocked, the key, and pageTranscript up to its read.
Cancelled == IF t.search.on THEN PageFailed(t, cl) ELSE t

Fresh(u) == [u EXCEPT !.outcome = "", !.sought = {}]

\* What a key finds.
Current == Fresh(Cancelled)

Press(pressed) ==
  /\ ~ended /\ asked = NoReq
  /\ \E u \in {Render(pressed, cl)} :
       \/ /\ u.search.on
          /\ t' = u /\ searchGen' = searchGen + 1 /\ searchOn' = TRUE
          /\ workers' = workers \cup {[gen |-> searchGen + 1, req |-> NoReq]}
          /\ UNCHANGED asked
       \/ /\ ~u.search.on
          /\ \E a \in {PageCursor(u, cl)} : t' = a.t /\ asked' = a.req
          /\ searchGen' = IF searchOn THEN searchGen + 1 ELSE searchGen
          /\ searchOn' = FALSE /\ UNCHANGED workers
  /\ UNCHANGED <<agent, cl, copy, ended, faults>>

\* j, k, u, d and the wheel.
Scrolled(u, n) ==
  [StopFollowing([u EXCEPT !.offset = @ + n], cl)
     EXCEPT !.checkOlder = @ \/ n < 0, !.checkNewer = @ \/ n > 0]

Scroll(n) == Press(Scrolled(Current, n))

\* gg
Top == Press([StopFollowing(Current, cl) EXCEPT !.offset = 0, !.checkOlder = TRUE])

\* G
Bottom == Press(ResetToTail([Current EXCEPT !.follow = TRUE], cl))

\* Enter after / and a query.
Search ==
  /\ "search" \in use /\ searchGen < MaxSearches
  /\ Press(Find(Current, cl))

\* Ctrl-N and Ctrl-P, with and without Shift.
Select(delta, extend) ==
  /\ "select" \in use
  /\ Press(SelectNode(Current, cl, delta, extend))

\* Any other key, and those typed into a query.
OtherKey == Press(Current)

\* pageTranscript's read returns.
KeyPage ==
  /\ asked # NoReq /\ asked' = NoReq
  /\ \/ t' = ApplyPage(t, cl, asked, ReadTranscriptPage(asked)) /\ UNCHANGED faults
     \/ /\ asked.cached = <<>> /\ faults < MaxFaults
        /\ faults' = faults + 1 /\ t' = PageFailed(t, cl)
  /\ UNCHANGED <<agent, cl, search, copy, ended>>

-----------------------------------------------------------------------------
(* The search worker *)

\* Mutant: a worker of an earlier search is not told apart.
SearchMatchesAny(gen) == searchOn /\ t.search.on

SearchMatches(gen) == gen = searchGen /\ searchOn /\ t.search.on

Others(w) == workers \ {w}

WorkerStale(w) ==
  /\ ~SearchMatches(w.gen) /\ ~ended
  /\ workers' = Others(w)
  /\ UNCHANGED <<agent, cl, t, asked, searchGen, searchOn, copy, ended, faults>>

WorkerAsks(w) ==
  /\ SearchMatches(w.gen) /\ ~ended /\ w.req = NoReq
  /\ \E a \in {PageCursor(t, cl)} :
       /\ t' = a.t
       /\ searchOn' = (a.req # NoReq)
       /\ workers' = IF a.req = NoReq THEN Others(w) ELSE Others(w) \cup {[w EXCEPT !.req = a.req]}
  /\ UNCHANGED <<agent, cl, asked, searchGen, copy, ended, faults>>

WorkerPage(w) ==
  /\ SearchMatches(w.gen) /\ ~ended /\ w.req # NoReq
  /\ \E u \in {ApplyPage(t, cl, w.req, ReadTranscriptPage(w.req))} :
       /\ t' = u /\ searchOn' = u.search.on
       /\ workers' = IF u.search.on THEN Others(w) \cup {[w EXCEPT !.req = NoReq]} ELSE Others(w)
  /\ UNCHANGED <<agent, cl, asked, searchGen, copy, ended, faults>>

WorkerFails(w) ==
  /\ SearchMatches(w.gen) /\ ~ended /\ w.req # NoReq /\ w.req.cached = <<>> /\ faults < MaxFaults
  /\ faults' = faults + 1
  /\ t' = PageFailed(t, cl) /\ searchOn' = FALSE /\ workers' = Others(w)
  /\ UNCHANGED <<agent, cl, asked, searchGen, copy, ended>>

-----------------------------------------------------------------------------
(* Ctrl-C: copy what is selected; close when nothing is, or when copying it has *)
(* failed already.                                                              *)

\* The command leaves; what the transcript held goes with it.
Close ==
  /\ ended' = TRUE /\ t' = Blank /\ copyOn' = FALSE
  /\ copyGen' = IF copyOn THEN copyGen + 1 ELSE copyGen

KeyCopy ==
  /\ ~ended /\ asked = NoReq
  /\ searchGen' = (IF searchOn THEN searchGen + 1 ELSE searchGen) /\ searchOn' = FALSE
  /\ \E u \in {Fresh(Cancelled)} :
     \E plan \in {Plan(u, cl)} :
       \/ /\ ~u.sel.on
          /\ Close /\ UNCHANGED <<copies, copyFailed>>
       \/ /\ u.sel.on /\ copyFailed = Ends(plan)
          /\ Close /\ copyFailed' = <<>> /\ UNCHANGED copies
       \/ /\ u.sel.on /\ copyFailed # Ends(plan) /\ copyOn
          /\ copyOn' = FALSE /\ copyGen' = copyGen + 1
          /\ \E x \in copies : x.gen = copyGen /\ copyFailed' = Ends(x.plan)
          /\ t' = u /\ UNCHANGED <<copies, ended>>
       \/ /\ u.sel.on /\ copyFailed # Ends(plan) /\ ~copyOn /\ copyGen < MaxCopies
          /\ copyOn' = TRUE /\ copyGen' = copyGen + 1 /\ copyFailed' = <<>>
          /\ copies' = copies \cup {[gen |-> copyGen + 1, plan |-> plan]}
          /\ t' = u /\ UNCHANGED ended
  /\ UNCHANGED <<agent, cl, asked, workers, clip, faults>>

CopySelection(x) ==
  /\ ~ended /\ copies' = copies \ {x}
  /\ \/ x.gen # copyGen /\ UNCHANGED <<t, copyOn, copyFailed, clip, faults>>
     \/ /\ x.gen = copyGen /\ copyOn' = FALSE
        /\ \E text \in {SelectionText(x.plan)} :
           \/ /\ text # <<>>
              /\ clip' = [text |-> text, plan |-> x.plan] /\ copyFailed' = <<>>
              /\ t' = IF t.sel.on /\ Ends(Plan(t, cl)) = Ends(x.plan) THEN ClearSelection(t, cl) ELSE t
              /\ UNCHANGED faults
           \/ /\ text = <<>> \/ faults < MaxFaults
              /\ faults' = IF text = <<>> THEN faults ELSE faults + 1
              /\ copyFailed' = Ends(x.plan) /\ UNCHANGED <<t, clip>>
  /\ UNCHANGED <<agent, cl, asked, search, copyGen, ended>>

\* Ctrl-D
Detach ==
  /\ ~ended /\ asked = NoReq
  /\ searchGen' = (IF searchOn THEN searchGen + 1 ELSE searchGen) /\ searchOn' = FALSE
  /\ Close
  /\ UNCHANGED <<agent, cl, asked, workers, copies, copyFailed, clip, faults>>

-----------------------------------------------------------------------------
\* The pager opens on what enterTranscript read.
Init ==
  /\ log \in {SetToSortSeq(s, <) : s \in Start}
  /\ lastLT = (IF log = <<>> THEN 0 ELSE Last(log)) /\ live = FALSE
  /\ hits \in Hits /\ use \in Uses
  /\ "search" \notin use => hits = {}
  /\ cl = [closed |-> LastOf(log, PageSize), open |-> NoPoint]
  /\ t = Render(Blank, cl)
  /\ asked = NoReq /\ workers = {} /\ searchGen = 0 /\ searchOn = FALSE
  /\ copies = {} /\ copyGen = 0 /\ copyOn = FALSE /\ copyFailed = <<>>
  /\ clip = [text |-> <<>>, plan |-> NoPlan] /\ ended = FALSE /\ faults = 0

Key == \/ \E n \in Steps : Scroll(n) \/ Scroll(-n)
       \/ Top \/ Bottom \/ Search \/ OtherKey \/ KeyPage \/ KeyCopy \/ Detach
       \/ \E delta \in {-1, 1}, extend \in BOOLEAN : Select(delta, extend)

Worker == \E w \in workers : WorkerStale(w) \/ WorkerAsks(w) \/ WorkerPage(w) \/ WorkerFails(w)

Next == OpenUnit \/ CloseUnit \/ DiscardUnit \/ Key \/ Worker \/ \E x \in copies : CopySelection(x)

Spec == Init /\ [][Next]_vars

-----------------------------------------------------------------------------
\* The window and the pages described beyond it, nearest first.
Strip == Messages(t) \o FoldLeft(\o, <<>>, Reverse(t.newer))

\* The pages of the window follow one another in the history, no message missing
\* or twice, and so do the evicted pages it can go forward to; the window claims
\* to begin the history only when it does.  However keys, searches, stale
\* workers and failed reads follow one another (applyPage, trimPages, readNextPage,
\* finishSearch).
WindowContiguous ==
  /\ Strip # <<>> => \E i \in 0..(Len(log) - Len(Strip)) : Strip = SubSeq(log, i + 1, i + Len(Strip))
  /\ t.noMoreOlder /\ Strip # <<>> => Head(Strip) = Head(log)

\* A search that gives up of its own accord has not missed a message that was
\* there when it began, and one that succeeds has brought a match into view
\* (find, applyPage, wrapSearchOlder).
SearchComplete ==
  /\ t.outcome = "absent" => t.sought \cap hits = {}
  /\ t.outcome = "found" /\ ~ended =>
       \E i \in (t.offset + 1)..(t.offset + Body) : i <= Len(Rows(t, cl)) /\ Rows(t, cl)[i].lt \in hits

\* What is copied is every message from one end of the selection to the other,
\* in order, ends included as they were when they were selected, although the
\* window has moved, pages were evicted and the open message was closed since
\* (selectionPlan, selectionText).  Not so when the view still holds a message
\* that the agent has discarded and that newer ones have followed.
CopyExact ==
  LET lts == [i \in DOMAIN clip.text |-> clip.text[i].lt]
      lo  == clip.plan.lo
      hi  == clip.plan.hi
      discarded == clip.plan.open.lt \in 1..(hi.lt - 1) \ Range(log)
  IN clip.text # <<>> /\ ~discarded =>
       /\ clip.text[1] = lo /\ Last(clip.text) = hi
       /\ \A i \in 1..(Len(lts) - 1) : lts[i] < lts[i + 1]
       /\ Range(lts) = {lo.lt, hi.lt} \cup {lt \in Range(log) : lt \in lo.lt..hi.lt}
=============================================================================
