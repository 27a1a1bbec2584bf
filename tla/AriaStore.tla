----------------------------- MODULE AriaStore -----------------------------
(***************************************************************************)
(* The store of arias: the tree of trunks, the caches over the write-ahead *)
(* log (figwal, external), the chalkboard channel with its own cache, the  *)
(* record of a fork, and the snapshot of the tree that listings use.       *)
(*                                                                         *)
(* An aria's journal holds the records of its three channels in the order  *)
(* they were appended; the death of the process keeps a prefix of it.  An  *)
(* entry of the "ir" channel has its position there as its LT; the others  *)
(* are keyed to a main LT.                                                 *)
(***************************************************************************)
EXTENDS Naturals, Sequences, FiniteSets, SequencesExt, FiniteSetsExt

CONSTANTS Arias,      \* ids, in the order listings sort them
          MaxIR,      \* entries of an aria's main channel (bound)
          MaxPatches, \* patches of an aria (bound)
          MaxCrashes, \* deaths of the process (bound)
          MaxOps,     \* operations begun (bound)
          Kinds,      \* operations and faults of this instance
          Stump, Root,     \* what a top-level conversation hangs under
          Genesis, Birth,  \* the ceremonial entries
          None

ASSUME AriaStoreAssumption ==
  /\ Arias \subseteq Nat
  /\ MaxIR \in Nat /\ MaxPatches \in Nat /\ MaxCrashes \in Nat /\ MaxOps \in Nat
  /\ None \notin Nat \cup {"agent", "fork"}

VARIABLES
  journal,   \* the records of an aria
  synced,    \* how many of them the store itself has flushed; the flusher and
             \* Kick may have flushed more, so a death keeps any longer prefix
  stored, minted, parent, version,
  stump,     \* the loadout's stump: "none", "bare", "born"
  handle,    \* XwalBackend.open: the shared row caches of an aria
  chalk,     \* XwalBackend.chalk
  chalkBy,   \* who holds chalkCache.mu across a store append
  guess,     \* the main LT ApplyChalkboard takes the patch to have
  agent,     \* the agent of an aria: "none", "up", "orphan" (its handle was dropped)
  board,     \* the agent's own chalkboard.State
  fork,      \* a fork request: the step it is at and the alternative
  removing,  \* a Remove between its caches and the tree
  meta,      \* _meta/<id>.json as a fork seeds it: None, "inherited" or a count
  topology,  \* XwalStore.topology
  crashes, ops,
  raced,     \* history: arias whose patch was keyed while the log grew, or
             \* whose agent read the chalkboard before a fork had stamped it
  failed     \* history: arias for which an append failed

disk == <<journal, synced, stored, minted, parent, version, stump, meta>>
caches == <<handle, chalk, chalkBy, guess, topology>>
clients == <<agent, board, fork, removing>>
history == <<crashes, raced, failed>>
vars == <<disk, caches, clients, history, ops>>

Keys == {"aria_id", "mantra"}

IRRecord(v) == [ch |-> "ir", lt |-> 0, v |-> v]
Patch(lt, k, v) == [ch |-> "chalk", lt |-> lt, v |-> <<k, v>>]

\* The records of j at the positions I, in their order.
Picked(j, I) ==
  LET upto[n \in 0..Len(j)] ==
        IF n = 0 THEN <<>> ELSE IF n \in I THEN Append(upto[n - 1], j[n]) ELSE upto[n - 1]
  IN upto[Len(j)]

OnChannel(j, c) == Picked(j, {i \in DOMAIN j : j[i].ch = c})
Values(s) == [i \in DOMAIN s |-> s[i].v]

IR(a) == Values(OnChannel(journal[a], "ir"))
Patches(a) == OnChannel(journal[a], "chalk")
Translations(a) == [i \in DOMAIN OnChannel(journal[a], "translations") |->
                      OnChannel(journal[a], "translations")[i].lt]
TailLT(a) == Len(IR(a))

\* Snapshot.Apply over a channel: the last patch of a key wins.
Replay(ps) ==
  [k \in Keys |->
     LET at == {i \in DOMAIN ps : ps[i].v[1] = k}
     IN IF at = {} THEN None ELSE ps[Max(at)].v[2]]
Blank == Replay(<<>>)

NoHandle == [open |-> FALSE, rows |-> <<>>, trans |-> None]
NotReady == [ready |-> FALSE, state |-> Blank, patches |-> <<>>]
NoFork == [pc |-> "idle", of |-> None, alt |-> None, at |-> 0]

Init ==
  /\ journal = [a \in Arias |-> <<>>] /\ synced = [a \in Arias |-> 0]
  /\ stored = {} /\ minted = {} /\ parent = [a \in Arias |-> Root] /\ version = 0
  /\ stump = "none"
  /\ handle = [a \in Arias |-> NoHandle]
  /\ chalk = [a \in Arias |-> NotReady]
  /\ chalkBy = [a \in Arias |-> None] /\ guess = [a \in Arias |-> 0]
  /\ agent = [a \in Arias |-> "none"] /\ board = [a \in Arias |-> Blank]
  /\ fork = NoFork /\ removing = None
  /\ meta = [a \in Arias |-> None]
  /\ topology = None
  /\ crashes = 0 /\ ops = 0 /\ raced = {} /\ failed = {}

---------------------------------------------------------------------------
(* Arias come into being. *)

NewId(a) == a \notin minted /\ \A b \in Arias \ minted : a <= b

Appended(a, rs) == journal' = [journal EXCEPT ![a] = @ \o rs]

\* SpawnUnderStump, SpawnUnderRoot, ForkTail, Trunks.ForkAt.
Spawn(a, above, j) ==
  /\ NewId(a)
  /\ minted' = minted \cup {a} /\ stored' = stored \cup {a}
  /\ parent' = [parent EXCEPT ![a] = above]
  /\ version' = version + 1
  /\ journal' = [journal EXCEPT ![a] = j]
  /\ synced' = [synced EXCEPT ![a] = Len(j)]

\* What every conversation under the loadout inherits: a stump without its
\* birth message has only the root's genesis.
LoadoutPrefix ==
  IF stump = "born" THEN <<IRRecord(Genesis), IRRecord(Birth), Patch(2, "mantra", 0)>>
  ELSE <<IRRecord(Genesis)>>

\* CreateLoadout: the stump, then its birth message, flushed before anything
\* may hang under it.  A stump that exists is taken for a loadout.
CreateStump ==
  /\ stump = "none"
  /\ stump' = "making"
  /\ UNCHANGED <<journal, synced, stored, minted, parent, version, meta, caches, clients, history>>

WriteStumpBirth ==
  /\ stump = "making"
  /\ \/ stump' = "born"
     \/ "fault" \in Kinds /\ stump' = "bare"
  /\ UNCHANGED <<journal, synced, stored, minted, parent, version, meta, caches, clients, history>>

\* create: the conversation and its boot patch; the chalkboard of a new id is
\* not cached, so the patch goes to the channel alone.
CreateConversation(a) ==
  /\ "create" \in Kinds /\ stump \in {"born", "bare"}
  /\ Spawn(a, Stump, Append(LoadoutPrefix, Patch(Len(OnChannel(LoadoutPrefix, "ir")) + 1, "aria_id", a)))
  /\ UNCHANGED <<stump, meta, caches, clients, history>>

---------------------------------------------------------------------------
(* Handles and chalkboards. *)

\* handleLocked and newCachedLog: the rows are read once, when the handle is made.
Opened(a) == [handle EXCEPT ![a] = IF @.open THEN @ ELSE [open |-> TRUE, rows |-> IR(a), trans |-> None]]

Loaded(a) ==
  [chalk EXCEPT ![a] = IF @.ready THEN @
                       ELSE [ready |-> TRUE, state |-> Replay(Patches(a)), patches |-> Patches(a)]]

\* aria.read of a stored aria, dormant or not; the answer is a page of the rows.
ReadPage(a) ==
  /\ a \in stored
  /\ handle' = Opened(a)
  /\ UNCHANGED <<disk, chalk, chalkBy, guess, topology, clients, history>>

\* ChalkboardState and ChalkboardPatches wait for the cache's lock.
ChalkboardState(a) ==
  /\ a \in stored /\ chalkBy[a] = None
  /\ chalk' = Loaded(a)
  /\ UNCHANGED <<disk, handle, chalkBy, guess, topology, clients, history>>

\* restoreOne and NewAgent: the agent's chalkboard, then its log.
Attach(a) ==
  /\ a \in stored /\ agent[a] = "none" /\ chalkBy[a] = None
  /\ agent' = [agent EXCEPT ![a] = "up"]
  /\ chalk' = Loaded(a)
  /\ board' = [board EXCEPT ![a] = Loaded(a)[a].state]
  /\ handle' = Opened(a)
  /\ raced' = IF fork.alt = a THEN raced \cup {a} ELSE raced
  /\ UNCHANGED <<disk, chalkBy, guess, topology, fork, removing, crashes, failed>>

Detach(a) ==
  /\ agent[a] # "none" /\ chalkBy[a] # "agent"
  /\ agent' = [agent EXCEPT ![a] = "none"]
  /\ board' = [board EXCEPT ![a] = Blank]
  /\ UNCHANGED <<disk, caches, fork, removing, history>>

Live(a) == agent[a] # "none" /\ chalkBy[a] # "agent"

\* cachedLog.Append: the row is cached once the store has taken it; the rows of
\* a dropped handle are no longer those a reader gets.
Cached(h, a, v) == [h EXCEPT ![a].rows = IF agent[a] = "up" THEN Append(@, v) ELSE @]

\* Mutant: the row is cached before the store answers.
AppendIREager(a) ==
  /\ Live(a) /\ a \in stored /\ TailLT(a) < MaxIR
  /\ handle' = Cached(handle, a, TailLT(a) + 1)
  /\ \/ /\ Appended(a, <<IRRecord(TailLT(a) + 1)>>)
        /\ raced' = IF chalkBy[a] # None /\ guess[a] > 0 THEN raced \cup {a} ELSE raced
        /\ UNCHANGED failed
     \/ /\ "fault" \in Kinds
        /\ UNCHANGED <<journal, raced>>
        /\ failed' = failed \cup {a}
  /\ UNCHANGED <<synced, stored, minted, parent, version, stump, meta, chalk, chalkBy, guess,
                 topology, clients, crashes>>

AppendIR(a) ==
  /\ Live(a) /\ a \in stored /\ TailLT(a) < MaxIR
  /\ \/ /\ Appended(a, <<IRRecord(TailLT(a) + 1)>>)
        /\ handle' = Cached(handle, a, TailLT(a) + 1)
        /\ raced' = IF chalkBy[a] # None /\ guess[a] > 0 THEN raced \cup {a} ELSE raced
        /\ UNCHANGED failed
     \/ /\ "fault" \in Kinds
        /\ UNCHANGED <<journal, handle, raced>>
        /\ failed' = failed \cup {a}
  /\ UNCHANGED <<synced, stored, minted, parent, version, stump, meta, chalk, chalkBy, guess,
                 topology, clients, crashes>>

\* commitAssistantCache: OpenTranslation, and an entry keyed to the last message.
AppendTranslation(a) ==
  LET h == handle[a]
      rows == IF h.trans = None THEN Translations(a) ELSE h.trans
  IN
  /\ "translate" \in Kinds /\ Live(a) /\ agent[a] = "up" /\ a \in stored
  /\ ~ Contains(Translations(a), TailLT(a))
  /\ Appended(a, <<[ch |-> "translations", lt |-> TailLT(a), v |-> None]>>)
  /\ handle' = [handle EXCEPT ![a].trans = Append(rows, TailLT(a))]
  /\ UNCHANGED <<synced, stored, minted, parent, version, stump, meta, chalk, chalkBy, guess,
                 topology, clients, history>>

\* A cache of another fingerprint is cleared, on disk and in memory.
ClearTranslations(a) ==
  /\ "translate" \in Kinds /\ Live(a) /\ agent[a] = "up" /\ a \in stored
  /\ Translations(a) # <<>>
  /\ journal' = [journal EXCEPT ![a] = Picked(@, {i \in DOMAIN @ : @[i].ch # "translations"})]
  /\ synced' = [synced EXCEPT ![a] = Len(journal'[a])]
  /\ handle' = [handle EXCEPT ![a].trans = <<>>]
  /\ UNCHANGED <<stored, minted, parent, version, stump, meta, chalk, chalkBy, guess, topology,
                 clients, history>>

\* Mutant: the patch is keyed to the last entry, not past it.
GuessTail(a) == IF chalk[a].ready /\ handle[a].open THEN Len(handle[a].rows) ELSE 0

\* ApplyChalkboard, up to the store's append: the cache's lock is taken and, for
\* a ready cache and an open log, the patch's main LT is worked out from the rows.
Guess(a) == IF chalk[a].ready /\ handle[a].open THEN Len(handle[a].rows) + 1 ELSE 0

ApplyBegin(a, who) ==
  /\ chalkBy[a] = None
  /\ chalkBy' = [chalkBy EXCEPT ![a] = who]
  /\ guess' = [guess EXCEPT ![a] = Guess(a)]

\* The rest of it: the store keys the patch to its own tail.
ApplyEnd(a, k, v) ==
  LET ok == chalk[a].ready /\ guess[a] > 0
      p == Patch(guess[a], k, v)
  IN
  /\ Appended(a, <<Patch(TailLT(a) + 1, k, v)>>)
  /\ chalk' = [chalk EXCEPT ![a] =
       IF ok THEN [ready |-> TRUE, state |-> [@.state EXCEPT ![k] = v], patches |-> Append(@.patches, p)]
       ELSE NotReady]
  /\ chalkBy' = [chalkBy EXCEPT ![a] = None] /\ guess' = [guess EXCEPT ![a] = 0]

ApplyFails(a) ==
  /\ UNCHANGED <<journal, chalk>>
  /\ chalkBy' = [chalkBy EXCEPT ![a] = None] /\ guess' = [guess EXCEPT ![a] = 0]

AgentApplyBegin(a) ==
  /\ "patch" \in Kinds /\ Live(a)
  /\ Len(Patches(a)) < MaxPatches
  /\ ApplyBegin(a, "agent")
  /\ UNCHANGED <<disk, handle, chalk, topology, clients, history>>

\* applyControlPatch leaves the agent's chalkboard alone when the append fails,
\* appendUserMessage patches it all the same.
AgentApplyEnd(a) ==
  /\ chalkBy[a] = "agent"
  /\ LET v == Len(Patches(a)) IN
     \/ /\ a \in stored /\ ApplyEnd(a, "mantra", v)
        /\ board' = [board EXCEPT ![a]["mantra"] = v]
        /\ UNCHANGED failed
     \/ /\ a \notin stored \/ "fault" \in Kinds
        /\ ApplyFails(a)
        /\ \/ UNCHANGED board
           \/ board' = [board EXCEPT ![a]["mantra"] = v]
        /\ failed' = failed \cup {a}
  /\ UNCHANGED <<synced, stored, minted, parent, version, stump, meta, handle, topology, agent,
                 fork, removing, crashes, raced>>

---------------------------------------------------------------------------
(* Forks, promotion, removal. *)

\* The chain from an aria up to its loadout or the root.
Above(a) ==
  LET up[n \in 0..Cardinality(Arias)] ==
        IF n = 0 THEN a ELSE IF up[n - 1] \in Arias THEN parent[up[n - 1]] ELSE up[n - 1]
  IN up[Cardinality(Arias)]

\* Whose entry a main LT is: the root's genesis, the loadout's birth, or a turn.
Owner(a, at) == CASE IR(a)[at] = Genesis -> Root
                  [] IR(a)[at] = Birth -> Stump
                  [] OTHER -> a

\* The LT of a record: that of a message is its position on its channel.
LTOf(j, i) == IF j[i].ch = "ir" THEN Len(OnChannel(SubSeq(j, 1, i), "ir")) ELSE j[i].lt

\* [1..at] of every channel.
UpTo(j, at) == Picked(j, {i \in DOMAIN j : LTOf(j, i) <= at})

\* Mutant: the loadout's birth message is counted.
MessageCountAtBirth(a, at) == IF at <= 1 THEN 0 ELSE at - 1

\* loadoutAncestor and messageCountAt: the position less the genesis and, when
\* the walk up from a stored aria meets a loadout, its birth.
MessageCountAt(a, at) ==
  IF at <= 1 THEN 0 ELSE IF a \in stored /\ Above(a) = Stump THEN at - 2 ELSE at - 1

\* Messages an aria's log really has.
MessageCount(j) == Len(SelectSeq(Values(OnChannel(j, "ir")), LAMBDA v : v \notin {Genesis, Birth}))

\* Fork at the head (0), or ForkAt, which cauterizes: what the root or the
\* loadout owns is not split, a fresh conversation is spawned beneath its owner.
ForkTree(a, at) ==
  /\ "fork" \in Kinds /\ fork = NoFork /\ a \in stored
  /\ \E b \in Arias :
       /\ IF at = 0 THEN Spawn(b, a, journal[a])
          ELSE CASE Owner(a, at) = Root -> Spawn(b, Root, <<IRRecord(Genesis)>>)
                 [] Owner(a, at) = Stump -> Spawn(b, Stump, LoadoutPrefix)
                 [] OTHER -> Spawn(b, a, UpTo(journal[a], at))
       /\ fork' = [pc |-> "meta", of |-> a, alt |-> b, at |-> at]
  /\ UNCHANGED <<stump, meta, caches, agent, board, removing, history>>

\* forkMetaSnapshot and seedForkMeta: a fork at the head inherits its parent's
\* record, one further back works its count out.
SeedForkMeta ==
  /\ fork.pc = "meta"
  /\ meta' = [meta EXCEPT ![fork.alt] = IF fork.at = 0 THEN "inherited"
                                       ELSE MessageCountAt(fork.of, fork.at)]
  /\ fork' = [fork EXCEPT !.pc = "stamp"]
  /\ UNCHANGED <<journal, synced, stored, minted, parent, version, stump, caches, agent, board,
                 removing, history>>

\* fork gives the alternative its own aria_id.
StampBegin ==
  /\ fork.pc = "stamp"
  /\ ApplyBegin(fork.alt, "fork")
  /\ fork' = [fork EXCEPT !.pc = "stamping"]
  /\ UNCHANGED <<disk, handle, chalk, topology, agent, board, removing, history>>

StampEnd ==
  /\ fork.pc = "stamping"
  /\ IF fork.alt \in stored THEN ApplyEnd(fork.alt, "aria_id", fork.alt) ELSE ApplyFails(fork.alt)
  /\ fork' = NoFork
  /\ UNCHANGED <<synced, stored, minted, parent, version, stump, meta, handle, topology, agent,
                 board, removing, history>>

Promote(a) ==
  /\ "promote" \in Kinds /\ a \in stored /\ parent[a] \in stored
  /\ parent' = [parent EXCEPT ![a] = parent[parent[a]], ![parent[a]] = a]
  /\ version' = version + 1
  /\ UNCHANGED <<journal, synced, stored, minted, stump, meta, caches, clients, history>>

Children(a) == {b \in stored : parent[b] = a}

Subtree(a) ==
  LET below[n \in 0..Cardinality(Arias)] ==
        IF n = 0 THEN {a} ELSE below[n - 1] \cup UNION {Children(b) : b \in below[n - 1]}
  IN below[Cardinality(Arias)]

\* Remove drops the caches and the meta record before it asks the tree.  "late":
\* an agent was restored between the kill of the last one and the removal.
RemoveCaches(a) ==
  /\ "remove" \in Kinds /\ removing = None /\ a \in stored
  /\ agent[a] = "none" \/ "late" \in Kinds
  /\ chalkBy[a] = None
  /\ handle' = [handle EXCEPT ![a] = NoHandle]
  /\ chalk' = [chalk EXCEPT ![a] = NotReady]
  /\ agent' = [agent EXCEPT ![a] = IF @ = "up" THEN "orphan" ELSE @]
  /\ meta' = [meta EXCEPT ![a] = None]
  /\ removing' = a
  /\ UNCHANGED <<journal, synced, stored, minted, parent, version, stump, chalkBy, guess,
                 topology, board, fork, history>>

RemoveLeaf(rec) ==
  LET a == removing
      gone == IF rec \/ Children(a) = {} THEN Subtree(a) ELSE {}
  IN
  /\ removing # None
  /\ stored' = stored \ gone
  /\ journal' = [b \in Arias |-> IF b \in gone THEN <<>> ELSE journal[b]]
  /\ synced' = [b \in Arias |-> IF b \in gone THEN 0 ELSE synced[b]]
  /\ version' = IF gone = {} THEN version ELSE version + 1
  /\ removing' = None
  /\ UNCHANGED <<minted, parent, stump, meta, caches, agent, board, fork, history>>

---------------------------------------------------------------------------
(* Listings. *)

IsRoot(a) == parent[a] \notin stored

Siblings(a) == IF IsRoot(a) THEN {b \in stored : IsRoot(b)} ELSE Children(parent[a])

\* Mutant: its index among all arias.
IndexOfAll(a) == Cardinality({b \in stored : b < a})

\* Its index among its siblings in the order of their ids.
Index(a) == Cardinality({b \in Siblings(a) : b < a})

\* vectorsLocked: the path of child indexes from a top-level conversation.
Vector(a) ==
  LET vec[n \in 0..Cardinality(Arias), b \in stored] ==
        IF IsRoot(b) \/ n = 0 THEN <<Index(b)>> ELSE Append(vec[n - 1, parent[b]], Index(b))
  IN vec[Cardinality(Arias), a]

NodeViews == [a \in stored |-> [parent |-> parent[a], vector |-> Vector(a)]]

\* topologySnapshot: the forest is read again when its version has moved.
TopologySnapshot ==
  /\ "list" \in Kinds
  /\ topology' = IF topology # None /\ topology.version = version THEN topology
                 ELSE [version |-> version, nodes |-> NodeViews]
  /\ UNCHANGED <<disk, handle, chalk, chalkBy, guess, clients, history>>

---------------------------------------------------------------------------
\* The process dies: of each journal at least what was flushed is left.
Crash ==
  /\ crashes < MaxCrashes
  /\ crashes' = crashes + 1
  /\ \E keep \in [stored -> 0..Max({Len(journal[a]) : a \in stored} \cup {0})] :
       /\ \A a \in stored : synced[a] <= keep[a] /\ keep[a] <= Len(journal[a])
       /\ journal' = [a \in Arias |-> IF a \in stored THEN SubSeq(journal[a], 1, keep[a]) ELSE <<>>]
       /\ synced' = [a \in Arias |-> IF a \in stored THEN keep[a] ELSE 0]
  /\ stump' = IF stump = "making" THEN "bare" ELSE stump
  /\ handle' = [a \in Arias |-> NoHandle]
  /\ chalk' = [a \in Arias |-> NotReady]
  /\ chalkBy' = [a \in Arias |-> None] /\ guess' = [a \in Arias |-> 0]
  /\ agent' = [a \in Arias |-> "none"] /\ board' = [a \in Arias |-> Blank]
  /\ fork' = NoFork /\ removing' = None /\ topology' = None
  /\ raced' = {} /\ failed' = {}
  /\ UNCHANGED <<stored, minted, parent, version, meta>>

\* An operation begins, or is done at once.
Begin ==
  \/ TopologySnapshot
  \/ \E a \in Arias :
       \/ CreateConversation(a) \/ ReadPage(a) \/ ChalkboardState(a) \/ Attach(a) \/ Detach(a)
       \/ AppendIR(a) \/ AppendTranslation(a) \/ ClearTranslations(a) \/ AgentApplyBegin(a)
       \/ Promote(a) \/ RemoveCaches(a)
       \/ \E at \in 0..TailLT(a) : ForkTree(a, at)

\* One that has begun goes on; the first create has to make its loadout.
Continue ==
  \/ CreateStump \/ WriteStumpBirth \/ SeedForkMeta \/ StampBegin \/ StampEnd
  \/ \E rec \in BOOLEAN : RemoveLeaf(rec)
  \/ \E a \in Arias : AgentApplyEnd(a)

Next ==
  \/ ops < MaxOps /\ ops' = ops + 1 /\ Begin
  \/ (Continue \/ Crash) /\ UNCHANGED ops

Spec == Init /\ [][Next]_vars

---------------------------------------------------------------------------
(* Properties. *)

\* The type of every variable.
TypeOK ==
  /\ stored \subseteq minted /\ minted \subseteq Arias
  /\ parent \in [Arias -> Arias \cup {Stump, Root}]
  /\ stump \in {"none", "making", "bare", "born"}
  /\ \A a \in Arias :
       /\ \A i \in DOMAIN journal[a] : journal[a][i].ch \in {"ir", "chalk", "translations"}
       /\ synced[a] \in 0..Len(journal[a])
       /\ chalkBy[a] \in {None, "agent", "fork"} /\ guess[a] \in Nat
       /\ agent[a] \in {"none", "up", "orphan"}
       /\ a \notin stored => journal[a] = <<>>
  /\ fork.pc \in {"idle", "meta", "stamp", "stamping"}

\* Every cache tells what a replay of its channel would tell: the translations
\* through appends and clears, and the chalkboard although ApplyChalkboard keys
\* the patch itself instead of asking the store - the same state always, the same
\* keys unless the log grew while a fork was stamped.  A live agent's own
\* chalkboard agrees too, unless an append of its failed or it was restored
\* before the fork had stamped it.
CachesFaithful ==
  \A a \in stored :
    /\ handle[a].trans # None => handle[a].trans = Translations(a)
    /\ chalk[a].ready =>
         /\ chalk[a].state = Replay(Patches(a))
         /\ a \notin raced => chalk[a].patches = Patches(a)
    /\ agent[a] = "up" /\ a \notin raced \cup failed => board[a] = Replay(Patches(a))

\* The alternative of a fork is recorded with as many messages as it shares,
\* wherever it was forked: the arithmetic of messageCountAt over the ceremonial
\* entries agrees with the log, unless the loadout was left without a birth.
ForkCounted ==
  [][fork.pc = "meta" /\ fork'.pc = "stamp" /\ fork.at > 0 /\ stump # "bare"
       /\ {fork.of, fork.alt} \subseteq stored =>
     meta'[fork.alt] = MessageCount(UpTo(journal[fork.alt], fork.at))]_vars

\* A listing taken from a snapshot of the current version shows the forest as it
\* is: a branch's vector extends its parent's, siblings count from 0 without gaps.
ForestListed ==
  topology # None /\ topology.version = version =>
    /\ DOMAIN topology.nodes = stored
    /\ \A a \in stored :
         LET v == topology.nodes[a].vector IN
         /\ topology.nodes[a].parent = parent[a]
         /\ ~ IsRoot(a) => Front(v) = topology.nodes[parent[a]].vector
         /\ IsRoot(a) => Len(v) = 1
         /\ Last(v) > 0 => \E b \in stored : topology.nodes[b].vector = [v EXCEPT ![Len(v)] = @ - 1]
    /\ \A a, b \in stored : a # b => topology.nodes[a].vector # topology.nodes[b].vector

\* What a reader of an aria sees: the shared rows, or those of a handle made now.
ReaderView == [a \in Arias |-> IF a \notin stored THEN <<>>
                               ELSE IF handle[a].open THEN handle[a].rows ELSE IR(a)]

Shared == INSTANCE AriaLog WITH
  log <- ReaderView, exists <- stored, deaths <- crashes, Message <- 1..MaxIR,
  Births <- {<<Genesis>>, <<Genesis, Birth>>}

\* The store implements one append-only log per aria for readers and writer,
\* through every combination of handles, forks, removals and crashes.
SharedLog == Shared!LogSpec

=============================================================================
