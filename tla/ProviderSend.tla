---------------------------- MODULE ProviderSend ----------------------------
(***************************************************************************)
(* One conversation talked to a model: Send of the Anthropic provider      *)
(* ("native"), of the provider over the official SDK ("sdk") and of        *)
(* Copilot's Responses transport ("responses"); Copilot routes a model to  *)
(* one of the last two.  A Send brings the encoded conversation up to date *)
(* from the log and the translation cache, posts it with retries, folds    *)
(* the stream of blocks that answers, lands the message and keeps its      *)
(* native form for replay.                                                 *)
(*                                                                         *)
(* The agent around it (prompts, tool results, the seal of a broken turn)  *)
(* is reduced to what it does to the log; FigaroTurn has its steps.  A     *)
(* block is its type and id; the patch of an entry stands for the          *)
(* chalkboard it leads to.                                                 *)
(***************************************************************************)
EXTENDS RequestShape

CONSTANTS Dialects,    \* those this instance begins with
          Kinds,       \* blocks and endings the server may send
          Patches,     \* chalkboards a prompt may lead to; 0: no patch
          MaxRetries,  \* maxTransientRetries
          MaxLog, MaxBlocks, MaxFaults \* bounds: entries, blocks of the model, faults

ASSUME ProviderSendAssumption ==
  /\ Dialects \subseteq {"native", "sdk", "responses"}
  /\ {MaxRetries, MaxLog, MaxBlocks, MaxFaults} \subseteq Nat
  /\ Patches \subseteq Nat

All == {"native", "sdk", "responses"}

VARIABLES
  log,      \* figLog: entries [role, blocks, patch]; the position is the LT
  fp,       \* the encoder's fingerprint of each dialect
  dialect,  \* the provider, or the route of the model, in use
  cache,    \* the translation log of each dialect: rows [lt, role, fp, wire]
  opened,   \* a dialect's cache is held open (and was checked then)
  proj,     \* the incremental projection of each dialect, in memory
  send,     \* the Send under way
  sent,     \* the last request of each dialect
  faults    \* faults so far

vars == <<log, fp, dialect, cache, opened, proj, send, sent, faults>>

NoProj == [state |-> <<>>, board |-> 0, fp |-> 0, entries |-> 0, last |-> 0, plain |-> FALSE]
NoSent == [fp |-> 0, flat |-> <<>>, plain |-> FALSE]
NoRow == [lt |-> 0, role |-> "user", fp |-> 0, wire |-> <<>>]
Idle == [pc |-> "idle", tries |-> 0, auth |-> FALSE, acc |-> <<>>, lost |-> <<>>,
         ready |-> <<>>, silent |-> FALSE]

Init ==
  /\ log = <<>> /\ dialect \in Dialects /\ faults = 0
  /\ fp = [d \in All |-> 1] /\ cache = [d \in All |-> <<>>] /\ opened = [d \in All |-> FALSE]
  /\ proj = [d \in All |-> NoProj] /\ sent = [d \in All |-> NoSent] /\ send = Idle

Fault == faults < MaxFaults /\ faults' = faults + 1

---------------------------------------------------------------------------
(* The message a stream adds up to. *)

\* Blocks of a stream: kind k, id, some delta was not empty, stopped.
IsCall(b) == b.k \in {"call", "badcall"}

\* A call whose input cannot be read as an object, or was cut short.
Unreadable(b) == b.k = "badcall"

IR(t, id) == [t |-> t, id |-> id]
ToIR(b) == IR(IF IsCall(b) THEN "invoke" ELSE IF b.k = "thinking" THEN "thinking" ELSE "prose", b.id)

\* validNativeBlock: blank text and thinking are dropped.
NativeValid(b) == IsCall(b) \/ (b.k \in {"text", "thinking"} /\ b.got)

NativeDecode(acc) == [i \in DOMAIN SelectSeq(acc, NativeValid) |-> ToIR(SelectSeq(acc, NativeValid)[i])]

\* validAccumulatedBlock.
SDKValid(b) == IsCall(b) \/ (b.k \in {"text", "thinking"} /\ b.got)

SDKDecode(acc) == [i \in DOMAIN SelectSeq(acc, SDKValid) |-> ToIR(SelectSeq(acc, SDKValid)[i])]

\* decodeResponseAssistant; a call that cannot be read is an error before this.
ResponsesDecode(acc) ==
  LET some == SelectSeq(acc, LAMBDA b : IsCall(b) \/ b.got)
  IN [i \in DOMAIN some |-> ToIR(some[i])]

Decode(d, acc) ==
  CASE d = "native" -> NativeDecode(acc) [] d = "sdk" -> SDKDecode(acc) [] OTHER -> ResponsesDecode(acc)

\* partialAssistant: the deltas so far and the calls that were ready.
Partial(acc, ready) ==
  LET some == SelectSeq(acc, LAMBDA b : IF IsCall(b) THEN Contains(ready, b.id) ELSE b.got /\ b.k # "redacted")
  IN [i \in DOMAIN some |-> ToIR(some[i])]

Invokes(blocks) == {blocks[i].id : i \in {j \in DOMAIN blocks : blocks[j].t = "invoke"}}
Results(ids) == LET s == SetToSortSeq(ids, <) IN [i \in DOMAIN s |-> IR("result", s[i])]
Entry(role, blocks, patch) == [role |-> role, blocks |-> blocks, patch |-> patch]

---------------------------------------------------------------------------
(* The wire form of an entry. *)

Wire(t, id, signed) == [t |-> t, id |-> id, signed |-> signed]
Plain(blocks) == [i \in DOMAIN blocks |-> Wire(blocks[i].t, blocks[i].id, FALSE)]
Only(blocks, t) == SelectSeq(blocks, LAMBDA b : b.t = t)

\* renderPatchBlocks: what changes is told against the board before it.
Reminders(e, board) == IF e.patch = 0 THEN <<>> ELSE <<Wire("reminder", 10 * board + e.patch, FALSE)>>

\* renderMessage of the native dialect: thinking goes without its signature.
NativeRender(e, board) ==
  IF e.role = "user" THEN Plain(e.blocks) \o Reminders(e, board) ELSE Plain(e.blocks)

\* renderMessage over the SDK: thinking is dropped.
SDKRender(e, board) ==
  IF e.role = "user" THEN Plain(e.blocks) \o Reminders(e, board)
  ELSE Plain(SelectSeq(e.blocks, LAMBDA b : b.t # "thinking"))

\* encodeResponseMessage: results, then the message, then calls.
ResponsesRender(e, board) ==
  Plain(Only(e.blocks, "result") \o Only(e.blocks, "prose"))
  \o Reminders(e, board) \o Plain(Only(e.blocks, "invoke"))

Encode(d, e, board) ==
  CASE d = "native" -> NativeRender(e, board)
    [] d = "sdk" -> SDKRender(e, board)
    [] OTHER -> ResponsesRender(e, board)

Replayed(acc) == [i \in DOMAIN acc |->
  Wire(IF IsCall(acc[i]) THEN "invoke" ELSE IF acc[i].k = "text" THEN "prose" ELSE acc[i].k,
       acc[i].id, acc[i].k \in {"thinking", "redacted"})]

\* cacheableNativeBlock: signed thinking is kept even when it says nothing.
NativeCacheable(b) == b.k = "text" => b.got

\* assistantCacheNative: one call that cannot be replayed and nothing is kept.
NativePayload(acc) ==
  IF \E i \in DOMAIN acc : Unreadable(acc[i]) THEN <<>> ELSE Replayed(SelectSeq(acc, NativeCacheable))

\* cacheableAccumulatedBlock and assistantCache.
SDKCacheable(b) == b.k = "text" => b.got
SDKPayload(acc) ==
  IF \E i \in DOMAIN acc : Unreadable(acc[i]) THEN <<>> ELSE Replayed(SelectSeq(acc, SDKCacheable))

\* The response's output items, as they are.
ResponsesPayload(acc) == Replayed(acc)

Payload(d, acc) ==
  CASE d = "native" -> NativePayload(acc) [] d = "sdk" -> SDKPayload(acc) [] OTHER -> ResponsesPayload(acc)

---------------------------------------------------------------------------
(* The projection. *)

\* Log.Lookup: the latest row of an LT.
LookupRow(rows, lt) ==
  LET hits == {i \in DOMAIN rows : rows[i].lt = lt}
  IN IF hits = {} THEN NoRow ELSE rows[CHOOSE i \in hits : \A j \in hits : j <= i]

Hit(row, f) == row.fp = f /\ row.wire # <<>>

\* A projection to go on from: of this fingerprint, and its last entry is where
\* it was.
Continues(d) ==
  /\ proj[d].fp = fp[d] /\ proj[d].entries <= Len(log)
  /\ proj[d].entries = 0 \/ proj[d].last = proj[d].entries

\* The chalkboard an entry is encoded against.
BoardBefore(i, prev) ==
  LET patched == SelectSeq(SubSeq(log, prev.entries + 1, i - 1), LAMBDA e : e.patch # 0)
  IN IF patched = <<>> THEN prev.board ELSE Last(patched).patch

\* The wire message of an entry, from its row if that is of this fingerprint.
Projected(d, i, row, prev) ==
  IF Hit(row, fp[d]) THEN row
  ELSE [lt |-> i, role |-> log[i].role, fp |-> fp[d], wire |-> Encode(d, log[i], BoardBefore(i, prev))]

\* From the watermark of the same fingerprint, else from the beginning, each
\* entry from the cache or encoded and cached.
ProjectIncrementally(d, rows, useCache) ==
  LET prev == IF Continues(d) THEN proj[d] ELSE NoProj
      row(i) == IF useCache THEN LookupRow(rows, i) ELSE NoRow
      new == SelectSeq([k \in 1..Len(log) - prev.entries |->
                          Projected(d, prev.entries + k, row(prev.entries + k), prev)],
                       LAMBDA m : m.wire # <<>>)
  IN [rows |-> IF useCache THEN rows \o SelectSeq(new, LAMBDA m : ~ Hit(row(m.lt), fp[d])) ELSE rows,
      proj |-> [state |-> prev.state \o new, board |-> BoardBefore(Len(log) + 1, prev),
                fp |-> fp[d], entries |-> Len(log), last |-> Len(log), plain |-> prev.plain \/ ~ useCache]]

\* coalesceMessages: adjacent messages of a role are one.
Coalesce(state) ==
  LET join(a, m) ==
        IF a # <<>> /\ Last(a).role = m.role
        THEN Front(a) \o <<[Last(a) EXCEPT !.wire = @ \o m.wire, !.lt = m.lt]>>
        ELSE Append(a, m)
  IN FoldLeft(join, <<>>, state)

\* projectMessagesWithLTs, buildParams and sendWithToken.
NativeRequest(state) == state
SDKRequest(state) == Coalesce(state)
ResponsesRequest(state) == state

Request(d, state) ==
  CASE d = "native" -> NativeRequest(state) [] d = "sdk" -> SDKRequest(state) [] OTHER -> ResponsesRequest(state)

Flat(state) == FlattenSeq([i \in DOMAIN state |-> state[i].wire])

---------------------------------------------------------------------------
(* Send. *)

\* The agent appends a prompt, and the chalkboard patch it comes with.
Prompt(patch) ==
  /\ send.pc = "idle" /\ Len(log) < MaxLog
  /\ log' = Append(log, Entry("user", <<IR("prose", Len(log) + 1)>>, patch))
  /\ send' = [Idle EXCEPT !.pc = "start"]
  /\ UNCHANGED <<fp, dialect, cache, opened, proj, sent, faults>>

\* The tools have run: the results, and another round.
AppendResults ==
  /\ send.pc = "results"
  /\ log' = Append(log, Entry("user", Results(Invokes(Last(log).blocks)), 0))
  /\ send' = [Idle EXCEPT !.pc = "start"]
  /\ UNCHANGED <<fp, dialect, cache, opened, proj, sent, faults>>

\* The model of a Copilot conversation changes: another route, or another
\* fingerprint of the Responses route.
SetModel ==
  /\ send.pc = "idle" /\ dialect # "native" /\ Fault
  /\ \/ dialect' = (IF dialect = "sdk" THEN "responses" ELSE "sdk") /\ UNCHANGED fp
     \/ dialect = "responses" /\ fp' = [fp EXCEPT !["responses"] = 3 - @] /\ UNCHANGED dialect
  /\ UNCHANGED <<log, cache, opened, proj, send, sent>>

\* The daemon restarts, maybe with another reminder renderer.
Restart ==
  /\ send.pc = "idle" /\ log # <<>> /\ Fault
  /\ proj' = [d \in All |-> NoProj] /\ opened' = [d \in All |-> FALSE]
  /\ \E f \in {1, 2} : fp' = [fp EXCEPT !["native"] = f, !["sdk"] = f]
  /\ UNCHANGED <<log, dialect, cache, send, sent>>

Stale(d) == cache[d] # <<>> /\ Last(cache[d]).fp # fp[d]

\* cacheFor: the fingerprint is checked when the cache is opened; the Responses
\* route checks it every time.
NativeChecks == ~ opened["native"]
SDKChecks == ~ opened["sdk"]
ResponsesChecks == TRUE

Checks(d) == CASE d = "native" -> NativeChecks [] d = "sdk" -> SDKChecks [] OTHER -> ResponsesChecks

Post(d, p) ==
  /\ proj' = [proj EXCEPT ![d] = p]
  /\ send' = [send EXCEPT !.pc = "request"]
  /\ sent' = [sent EXCEPT ![d] = [fp |-> fp[d], flat |-> Flat(p.state), plain |-> p.plain]]

CatchUp ==
  /\ send.pc = "start"
  /\ \E r \in {ProjectIncrementally(dialect, IF Checks(dialect) /\ Stale(dialect) THEN <<>> ELSE cache[dialect], TRUE)} :
       Post(dialect, r.proj) /\ cache' = [cache EXCEPT ![dialect] = r.rows]
  /\ opened' = [opened EXCEPT ![dialect] = TRUE]
  /\ UNCHANGED <<log, fp, dialect, faults>>

\* The cache cannot be opened, or a stale one not cleared: this Send goes
\* without it.
CatchUpUncached ==
  /\ send.pc = "start" /\ ~ opened[dialect] /\ Fault
  /\ \E r \in {ProjectIncrementally(dialect, <<>>, FALSE)} : Post(dialect, r.proj)
  /\ UNCHANGED <<log, fp, dialect, cache, opened>>

Fail == send' = [send EXCEPT !.pc = "seal", !.silent = FALSE]

\* The Responses route gives up when an option is not valid or the context too
\* large (validateContext), or when a cache it holds cannot be cleared.
CatchUpFails ==
  /\ send.pc = "start" /\ dialect = "responses" /\ Fault
  /\ Fail
  /\ UNCHANGED <<log, fp, dialect, cache, opened, proj, sent>>

Quiet == UNCHANGED <<log, fp, dialect, cache, opened, proj, sent>>

\* doWithAuthRetry: a network error, 429, 529 or 5xx is tried again after a
\* delay; the other dialects leave that to their library.
Transient ==
  /\ send.pc = "request"
  /\ IF dialect = "native" /\ send.tries < MaxRetries
     THEN send' = [send EXCEPT !.tries = @ + 1] ELSE Fail
  /\ Quiet /\ UNCHANGED faults

\* Mutant: every 401 asks for a fresh token, not only the first.
UnauthorizedAgain ==
  /\ send.pc = "request" /\ send' = [send EXCEPT !.pc = "token"]
  /\ Quiet /\ UNCHANGED faults

\* 401: the token is invalidated, the first time.
Unauthorized ==
  /\ send.pc = "request"
  /\ IF send.auth THEN Fail ELSE send' = [send EXCEPT !.pc = "token"]
  /\ Quiet /\ UNCHANGED faults

\* callWithAuthRetry; the Responses route does not compare the tokens.
SDKTokenServes(fresh) == fresh
ResponsesTokenServes(fresh) == TRUE

\* One more attempt, free of charge, if the new token is another one.
NewToken(fresh) ==
  /\ send.pc = "token"
  /\ IF (CASE dialect = "sdk" -> SDKTokenServes(fresh) [] dialect = "responses" -> ResponsesTokenServes(fresh) [] OTHER -> fresh)
     THEN send' = [send EXCEPT !.pc = "request", !.auth = TRUE] ELSE Fail
  /\ Quiet /\ UNCHANGED faults

\* Any other status.
Refused ==
  /\ send.pc = "request" /\ Fail
  /\ Quiet /\ UNCHANGED faults

Accepted ==
  /\ send.pc = "request" /\ send' = [send EXCEPT !.pc = "stream", !.tries = 0, !.auth = @ /\ dialect = "responses"]
  /\ Quiet /\ UNCHANGED faults

Streaming == send.pc = "stream" /\ ~ send.silent
Open == send.acc # <<>> /\ ~ Last(send.acc).done
SetLast(b) == Front(send.acc) \o <<b>>

\* What the bound on blocks counts: those of the assistant's messages.
Said == FoldLeft(LAMBDA n, e : IF e.role = "user" THEN n ELSE n + Len(e.blocks), 0, log)

\* content_block_start; response.output_item.added.  A call is announced.
BlockStart(k) ==
  LET id == 100 * (Len(log) + 1) + (IF send.lost # <<>> THEN 10 ELSE 0) + Len(send.acc) + 1
  IN
  /\ Streaming /\ ~ Open /\ Len(send.acc) + Said < MaxBlocks
  /\ dialect = "responses" => k # "redacted"
  /\ k \in {"call", "badcall"} => Len(log) < MaxLog
  /\ send' = [send EXCEPT !.acc = Append(@, [k |-> k, id |-> id, got |-> FALSE, done |-> FALSE])]
  /\ Quiet /\ UNCHANGED faults

\* The first delta of a block that is not empty; those of a call only add up to
\* its arguments.
TakesDelta(b) == ~ b.got /\ b.k \in {"text", "thinking"}

\* content_block_delta; the delta events of the Responses route.
BlockDelta ==
  /\ Streaming /\ Open /\ TakesDelta(Last(send.acc))
  /\ send' = [send EXCEPT !.acc = SetLast([Last(send.acc) EXCEPT !.got = TRUE])]
  /\ Quiet /\ UNCHANGED faults

\* A call whose input can be read is ready for its tool.
NativeReady(b) == IsCall(b) /\ ~ Unreadable(b)
SDKReady(b) == IsCall(b) /\ ~ Unreadable(b)

\* content_block_stop of the first two dialects.
BlockStop ==
  LET b == [Last(send.acc) EXCEPT !.done = TRUE]
      ready == IF dialect = "native" THEN NativeReady(b) ELSE SDKReady(b)
  IN
  /\ Streaming /\ Open /\ dialect # "responses"
  /\ send' = [send EXCEPT !.acc = SetLast(b),
                          !.ready = IF ready THEN Append(@, b.id) ELSE @]
  /\ Quiet /\ UNCHANGED faults

\* Mutant: a call is ready each time its arguments are complete.
ReadyAgain(b) == Append(send.ready, b.id)

\* readyResponseCall: ready once.
Ready(b) == IF Contains(send.ready, b.id) THEN send.ready ELSE Append(send.ready, b.id)

\* function_call_arguments.done, then output_item.done, of the Responses route.
ArgumentsDone ==
  LET b == Last(send.acc)
  IN
  /\ Streaming /\ Open /\ dialect = "responses" /\ b.k = "call" /\ ~ Contains(send.ready, b.id)
  /\ send' = [send EXCEPT !.ready = Ready(b)]
  /\ Quiet /\ UNCHANGED faults

ItemDone ==
  LET b == [Last(send.acc) EXCEPT !.done = TRUE]
  IN
  /\ Streaming /\ Open /\ dialect = "responses"
  /\ IF b.k = "badcall" THEN Fail
     ELSE send' = [send EXCEPT !.acc = SetLast(b), !.ready = IF IsCall(b) THEN Ready(b) ELSE @]
  /\ Quiet /\ UNCHANGED faults

\* The stream breaks, ends early or carries an error: what it brought is dropped.
Break ==
  /\ Streaming /\ Fail
  /\ Quiet /\ UNCHANGED faults

\* A failure of the Responses route whose text mentions 401, even one in
\* mid-stream, is taken for an expired token and everything is asked again.
BreakUnauthorized ==
  /\ Streaming /\ dialect = "responses" /\ ~ send.auth /\ send.acc # <<>> /\ Fault
  /\ send' = [send EXCEPT !.auth = TRUE, !.lost = send.acc, !.acc = <<>>, !.pc = "request"]
  /\ Quiet

\* The server says nothing more.
Silence ==
  /\ Streaming /\ send' = [send EXCEPT !.silent = TRUE]
  /\ Quiet /\ UNCHANGED faults

\* sseReadTimeout; the timeout of the SDK's client.  The Responses route has none.
Timeout ==
  /\ send.pc = "stream" /\ send.silent /\ dialect # "responses" /\ Fail
  /\ Quiet /\ UNCHANGED faults

\* ctx: the turn is interrupted.
Interrupt ==
  /\ send.pc \in {"request", "stream"} /\ Fail
  /\ Quiet /\ UNCHANGED faults

\* message_stop and response.completed; over the SDK also the clean end of a
\* stream that had none.
SDKEnds == ~ Open \/ "eof" \in Kinds
ResponsesEnds == ~ Open

MessageStop ==
  /\ Streaming /\ (CASE dialect = "sdk" -> SDKEnds [] dialect = "responses" -> ResponsesEnds [] OTHER -> ~ Open)
  /\ send' = [send EXCEPT !.pc = "land"]
  /\ Quiet /\ UNCHANGED faults

\* Nothing was said: no message.
SDKNothing == SDKDecode(send.acc) = <<>>
ResponsesNothing == send.acc = <<>>
Nothing == CASE dialect = "sdk" -> SDKNothing [] dialect = "responses" -> ResponsesNothing [] OTHER -> send.acc = <<>>

LandNothing ==
  /\ send.pc = "land" /\ Nothing /\ send' = Idle
  /\ Quiet /\ UNCHANGED faults

Landed == Append(log, Entry("assistant", Decode(dialect, send.acc), 0))
Row(lt) == [lt |-> lt, role |-> "assistant", fp |-> fp[dialect], wire |-> Payload(dialect, send.acc)]
InMemory == [Row(Len(log)) EXCEPT !.fp = proj[dialect].fp]

\* Mutant: the native form is kept only in memory.
LandUncommitted ==
  /\ send.pc = "land" /\ ~ Nothing
  /\ log' = Landed /\ send' = [send EXCEPT !.pc = "accept"]
  /\ UNCHANGED <<fp, dialect, cache, opened, proj, sent, faults>>

\* PushFigaro: the actor appends the message and commitAssistantCache its native
\* form, then answers.
Land ==
  /\ send.pc = "land" /\ ~ Nothing
  /\ log' = Landed /\ cache' = [cache EXCEPT ![dialect] = Append(@, Row(Len(log) + 1))]
  /\ send' = [send EXCEPT !.pc = "accept"]
  /\ UNCHANGED <<fp, dialect, opened, proj, sent, faults>>

\* The message is in the log, the native form is not: the round fails.
LandFails ==
  /\ send.pc = "land" /\ ~ Nothing /\ Fault
  /\ log' = Landed /\ send' = [send EXCEPT !.pc = "seal", !.acc = <<>>, !.lost = <<>>]
  /\ UNCHANGED <<fp, dialect, cache, opened, proj, sent>>

\* Mutant: the watermark is left behind.
AcceptUncounted ==
  /\ send.pc = "accept"
  /\ proj' = [proj EXCEPT ![dialect].state = IF InMemory.wire = <<>> THEN @ ELSE Append(@, InMemory)]
  /\ send' = IF Invokes(Last(log).blocks) # {} THEN [send EXCEPT !.pc = "results", !.acc = <<>>] ELSE Idle
  /\ UNCHANGED <<log, fp, dialect, cache, opened, sent, faults>>

\* acceptAssistantProjection, without another look at the log.
Accept ==
  /\ send.pc = "accept"
  /\ proj' = [proj EXCEPT
       ![dialect].entries = @ + 1, ![dialect].last = Len(log),
       ![dialect].state = IF InMemory.wire = <<>> THEN @ ELSE Append(@, InMemory)]
  /\ send' = IF Invokes(Last(log).blocks) # {} THEN [send EXCEPT !.pc = "results", !.acc = <<>>] ELSE Idle
  /\ UNCHANGED <<log, fp, dialect, cache, opened, sent, faults>>

\* The turn is cancelled while PushFigaro waits: it panics, the projection stays.
AcceptLost ==
  /\ send.pc = "accept" /\ Fault
  /\ send' = [send EXCEPT !.pc = "seal", !.acc = <<>>, !.lost = <<>>]
  /\ Quiet

\* sealTurn: what was shown of a broken turn, with results for its calls.
Seal ==
  LET partial == Partial(send.lost \o send.acc, send.ready)
      with == IF partial = <<>> THEN log ELSE Append(log, Entry("assistant", partial, 0))
      open == IF with = <<>> \/ Last(with).role = "user" THEN {} ELSE Invokes(Last(with).blocks)
  IN
  /\ send.pc = "seal"
  /\ log' = IF open = {} THEN with ELSE Append(with, Entry("user", Results(open), 0))
  /\ send' = Idle
  /\ UNCHANGED <<fp, dialect, cache, opened, proj, sent, faults>>

---------------------------------------------------------------------------
RequestStep ==
  \/ Transient \/ Unauthorized \/ Refused \/ Accepted

StreamStep ==
  \/ \E k \in Kinds \ {"eof"} : BlockStart(k)
  \/ BlockDelta \/ BlockStop \/ ArgumentsDone \/ ItemDone
  \/ Break \/ BreakUnauthorized \/ Silence \/ MessageStop

OwnStep ==
  \/ \E fresh \in BOOLEAN : NewToken(fresh)
  \/ CatchUp \/ CatchUpUncached \/ CatchUpFails
  \/ LandNothing \/ Land \/ LandFails \/ Accept \/ AcceptLost

AgentStep == AppendResults \/ Seal

\* At most one of these has something to do.
SendStep == RequestStep \/ StreamStep \/ Timeout \/ AgentStep \/ OwnStep

Next ==
  \/ \E patch \in Patches : Prompt(patch)
  \/ SetModel \/ Restart \/ Interrupt
  \/ SendStep

Spec == Init /\ [][Next]_vars

\* A request is answered, a stream goes on or falls silent, the timer of a
\* silent stream fires, and the provider and the agent go on; nobody need
\* interrupt.
FairSpec == Spec /\ WF_vars(SendStep)

---------------------------------------------------------------------------
(* Properties. *)

Pcs == {"idle", "start", "request", "token", "stream", "land", "accept", "results", "seal"}
WireBlock == [t : {"prose", "thinking", "redacted", "invoke", "result", "reminder"}, id : Nat, signed : BOOLEAN]

\* The log alternates nothing by itself, but results only follow calls; a cache
\* has rows of entries there are, and a projection never runs ahead of the log.
TypeOK ==
  /\ \A i \in DOMAIN log :
       /\ log[i].role \in {"user", "assistant"}
       /\ \A j \in DOMAIN log[i].blocks : log[i].blocks[j].t = "result" =>
            i > 1 /\ log[i].blocks[j].id \in Invokes(log[i - 1].blocks)
  /\ fp \in [All -> {1, 2}] /\ dialect \in All /\ faults \in 0..MaxFaults
  /\ \A d \in All :
       /\ \A i \in DOMAIN cache[d] :
            /\ cache[d][i].lt \in DOMAIN log
            /\ \A j \in DOMAIN cache[d][i].wire : cache[d][i].wire[j] \in WireBlock
       /\ proj[d].entries \in 0..Len(log)
       /\ \A i \in DOMAIN proj[d].state : proj[d].state[i].lt \in 1..proj[d].entries
  /\ send.pc \in Pcs /\ send.tries \in 0..MaxRetries

\* What every request tells the model (ProjectIncrementally, acceptAssistantProjection):
\* each entry once and in order, all of them that have something to say, under
\* one fingerprint, and no result of a tool without the call it answers; over the
\* SDK the roles alternate.
WireWhole ==
  send.pc = "request" =>
    LET st == proj[dialect].state
        flat == Flat(st)
    IN /\ \A i \in 1..Len(st) - 1 : st[i].lt < st[i + 1].lt
       /\ \A i \in DOMAIN log : Encode(dialect, log[i], 0) # <<>> => \E k \in DOMAIN st : st[k].lt = i
       /\ \A k \in DOMAIN st : st[k].fp = fp[dialect]
       /\ \A k \in DOMAIN flat : flat[k].t = "result" =>
            \E j \in 1..k - 1 : flat[j].t = "invoke" /\ flat[j].id = flat[k].id
       /\ dialect = "sdk" => LET req == Request(dialect, st) IN \A i \in 1..Len(req) - 1 : req[i].role # req[i + 1].role

\* A request extends the previous one of the same dialect and fingerprint, byte
\* for byte, so the server's prompt cache holds: a message is replayed as it was
\* sent, restarts and changes of model in between included.
PrefixStable ==
  [][\A d \in All :
       (/\ sent'[d] # sent[d] /\ sent'[d].fp = sent[d].fp
        /\ ~ sent[d].plain /\ ~ sent'[d].plain) => IsPrefix(sent[d].flat, sent'[d].flat)]_vars

\* A call is handed to its tool once, and every call of the message that lands
\* and no other was.  Not so for a failure in mid-stream that mentions 401.
ReadyKept ==
  send.lost = <<>> /\ send.pc \in {"accept", "results"} =>
    /\ IsInjective(send.ready)
    /\ ToSet(send.ready) = Invokes(Last(log).blocks)

\* The parts of a request that do not depend on the conversation are ones the
\* server accepts (applyThinking, markCacheBreakpoints, contextSizeForLog,
\* validateContext): see RequestFits; it is enough to look before the first prompt.
RequestsFit == log = <<>> => RequestFits

\* A Send comes to an end, whatever the server does; the Responses route waits
\* on a silent one for ever.
SendEnds ==
  send.pc # "idle" ~> (send.pc = "idle" \/ (send.silent /\ dialect = "responses"))
=============================================================================
