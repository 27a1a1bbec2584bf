---------------------------- MODULE RequestShape ----------------------------
(***************************************************************************)
(* The parts of a request that are computed from the chalkboard and the    *)
(* catalog alone: the room for thinking, the cache breakpoints and the     *)
(* tags that add more, the route and the context limit of a Copilot model  *)
(* and the estimate of the context that is held against it.                *)
(***************************************************************************)
EXTENDS Integers, Sequences, FiniteSets, SequencesExt

CONSTANT TailSize      \* tailSize of contextSizeForLog

ASSUME RequestShapeAssumption == TailSize \in Nat \ {0}

---------------------------------------------------------------------------
(* Thinking. *)

NoThinking(max) == [budget |-> 0, max |-> max]

\* Room for the reply after the thinking.
Room(budget, max) ==
  LET b == IF budget < 1024 THEN 1024 ELSE budget
  IN [budget |-> b, max |-> IF max <= b THEN b + 4096 ELSE max]

\* applyThinking of the native provider; budget 0 with an effort is 10000 tokens.
NativeThinking(budget, effort, adaptive, max) ==
  IF budget <= 0 /\ ~ effort THEN NoThinking(max)
  ELSE IF adaptive THEN [budget |-> 10000, max |-> max]
  ELSE Room(IF budget <= 0 THEN 10000 ELSE budget, max)

\* applyThinking over the SDK: an adaptive model takes an effort, no budget.
SDKThinking(budget, effort, adaptive, max) ==
  IF (budget <= 0 /\ ~ effort) \/ adaptive THEN NoThinking(max) ELSE Room(budget, max)

---------------------------------------------------------------------------
(* Cache breakpoints: the blocks that carry cache_control.  A request is the *)
(* number of its system blocks and tools and its messages [lt, blocks].      *)

Leaf(ms, i) == IF ms[i].blocks = 0 THEN {} ELSE {<<"message", i, ms[i].blocks>>}
Prefix(system, tools) ==
  (IF system > 0 THEN {<<"system", system>>} ELSE {}) \cup (IF tools > 0 THEN {<<"tools", tools>>} ELSE {})

\* markCacheBreakpoints: the message before the last.
NativeBreakpoints(system, tools, ms) ==
  Prefix(system, tools) \cup (IF Len(ms) >= 2 THEN Leaf(ms, Len(ms) - 1) ELSE {})

\* markCacheBreakpoints over the SDK: the last message.
SDKBreakpoints(system, tools, ms) ==
  Prefix(system, tools) \cup (IF Len(ms) >= 1 THEN Leaf(ms, Len(ms)) ELSE {})

\* applyMessageTags: the last message of each tagged LT that has one.
Tagged(ms, lts) ==
  UNION {Leaf(ms, i) : i \in {j \in DOMAIN ms : /\ ms[j].lt \in lts \ {0}
                                                /\ \A k \in DOMAIN ms : ms[k].lt = ms[j].lt => k <= j}}

---------------------------------------------------------------------------
(* Copilot: the route of a model and the size of its context. *)

\* catalogContextLimits.
CatalogLimits(priced, long, window) ==
  [default |-> IF priced = 0 THEN window ELSE priced, long |-> IF long = 0 THEN window ELSE long]

TierLimit(limits, tier) == IF tier = "long_context" /\ limits.long > 0 THEN limits.long ELSE limits.default

\* ContextLimit, what the status line shows; override 0: none.
ContextLimit(limits, tier, override) ==
  LET limit == TierLimit(limits, tier)
  IN IF override > 0 /\ (limit = 0 \/ override < limit) THEN override ELSE limit

\* validateContext.
ValidateContext(limits, tier, override, used) ==
  LET limit == TierLimit(limits, tier)
  IN /\ ~ (override > 0 /\ limit > 0 /\ override > limit)
     /\ LET held == IF override > 0 THEN override ELSE limit IN held = 0 \/ used <= held

\* The entries of a log as contextSizeForLog sees them: what the server counted
\* at an assistant message, 0 for none, and the estimate.
Watermark(s) ==
  LET counted == {i \in DOMAIN s : s[i].usage > 0}
  IN IF counted = {} THEN 0 ELSE CHOOSE i \in counted : \A j \in counted : j <= i

SizeFrom(s, w) ==
  FoldLeft(LAMBDA n, e : n + e.size, IF w = 0 THEN 0 ELSE s[w].usage, SubSeq(s, w + 1, Len(s)))

TailOf(s) == IF Len(s) <= TailSize THEN s ELSE SubSeq(s, Len(s) - TailSize + 1, Len(s))

\* Mutant: a tail that is full is taken for the whole log.
ContextSizeOfTail(s) ==
  LET tail == TailOf(s)
  IN IF Watermark(tail) > 0 THEN SizeFrom(tail, Watermark(tail))
     ELSE IF Len(tail) <= TailSize THEN SizeFrom(tail, 0)
     ELSE SizeFrom(s, Watermark(s))

\* contextSizeForLog: from the tail if that says enough, else from the whole log.
ContextSizeForLog(s) ==
  LET tail == TailOf(s)
  IN IF Watermark(tail) > 0 THEN SizeFrom(tail, Watermark(tail))
     ELSE IF Len(tail) < TailSize THEN SizeFrom(tail, 0)
     ELSE SizeFrom(s, Watermark(s))

---------------------------------------------------------------------------
(* Properties over bounded inputs. *)

\* Inputs.
Budgets == {-1, 0, 1, 1023, 1024, 8192, 10000}
Maxes == {1, 1024, 8192, 16384}
MessageLists == UNION {[1..n -> [lt : 0..2, blocks : 0..2]] : n \in 0..3}
Entries == UNION {[1..n -> [usage : {0, 7}, size : {1, 2}]] : n \in 0..TailSize + 2}

\* A request the server accepts, whatever the chalkboard says: thinking leaves
\* room for the reply (an adaptive model of the native provider, whose budget is
\* fixed, excepted), the automatic breakpoints and one tag are four at most, and a
\* tag marks one message; the context that is held against the limit is what the
\* server last counted and everything after it, however long ago that was, and
\* what the status line shows as the limit is what is enforced.
RequestFits ==
  /\ \A b \in Budgets, e \in BOOLEAN, a \in BOOLEAN, m \in Maxes :
       \A r \in {NativeThinking(b, e, FALSE, m), SDKThinking(b, e, a, m)} :
         r.budget > 0 => r.budget >= 1024 /\ r.budget < r.max
  /\ \A ms \in MessageLists, lt \in 1..2, system \in 0..2, tools \in 0..1 :
       /\ Cardinality(NativeBreakpoints(system, tools, ms) \cup Tagged(ms, {lt})) <= 4
       /\ Cardinality(SDKBreakpoints(system, tools, ms) \cup Tagged(ms, {lt})) <= 4
  /\ \A s \in Entries : ContextSizeForLog(s) = SizeFrom(s, Watermark(s))
  /\ \A p \in {0, 3}, l \in {0, 5}, w \in {0, 4}, t \in {"default", "long_context"}, o \in {0, 2, 4, 6}, used \in 0..6 :
       LET limits == CatalogLimits(p, l, w)
           shown == ContextLimit(limits, t, o)
       IN ValidateContext(limits, t, o, used) => shown = 0 \/ used <= shown
=============================================================================
