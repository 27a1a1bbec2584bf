------------------------------ MODULE Angelus ------------------------------
(***************************************************************************)
(* The supervisor daemon: the registry of live agents and of the shells    *)
(* bound to them, the RPC handlers that create, restore, bind, fork and    *)
(* kill arias concurrently, the shutdown, and what survives a restart.     *)
(*                                                                         *)
(* An agent is what NewAgent starts: from then on its drain loop may write *)
(* the aria's log until it is cancelled and done.  The store is the tree   *)
(* of arias that exist; its contents are the subject of AriaStore.         *)
(***************************************************************************)
EXTENDS Naturals, Sequences, FiniteSets, SequencesExt

CONSTANTS Arias,      \* ids the store may mint
          Known,      \* arias that exist at first, each with an agent
          Pids,       \* shells
          Handlers,   \* RPC requests that may be in flight at a time
          MaxAgents,  \* agents alive or referred to at a time (bound)
          MaxStarts,  \* processes that may use one pid, one after the other (bound)
          MaxOps,     \* requests (bound)
          MaxCrashes, \* times the daemon may die (bound)
          Kinds,      \* requests and events of this instance
          None

ASSUME AngelusAssumption ==
  /\ Known \subseteq Arias
  /\ IsFiniteSet(Arias) /\ IsFiniteSet(Pids)
  /\ None \notin Arias \cup Pids \cup Nat
  /\ Handlers \subseteq Nat
  /\ Cardinality(Known) <= MaxAgents
  /\ MaxAgents \in Nat \ {0}
  /\ MaxStarts \in Nat \ {0}
  /\ MaxOps \in Nat
  /\ MaxCrashes \in Nat

VARIABLES
  figaros,      \* Registry.figaros: the agent published for an aria
  pidToFigaro, pidToLT, figaroPIDs, killing, draining,
  agent,        \* the agents of this daemon: aria and state of the drain loop
  stored, minted, parent,   \* the store's tree
  closed,       \* Backend.Close has run
  daemon,       \* "down", "restoring" (before Run), "up", "signalled",
                \* "draining", "stopped" (the store is closed)
  file,         \* bindings.json, a sequence of entries
  todo,         \* entries RestoreBindings has not looked at
  procs, starts,\* the process that has a pid (0: none), and how many have had it
  reaping,      \* pids the monitor has listed and not looked at
  drainer,      \* Shutdown's goroutine of each aria
  lock,         \* restoreLocks
  pc, req, mine,\* a handler: where it is, its request, the agent it works on
  saving,       \* a SaveBindings in progress: arias left, entries so far
  listing,      \* a list in progress: the registry's part of the answer
  ops, crashes,
  asked,        \* history: the fork point the pid's last bind asked for
  kept          \* history: what the last save should bring back

registry == <<figaros, pidToFigaro, pidToLT, figaroPIDs, killing>>
tree == <<stored, minted, parent, closed>>
shells == <<procs, starts>>
life == <<daemon, draining, drainer, crashes>>
boot == <<file, todo, kept>>
handler == <<pc, req, mine, saving, listing, lock, ops>>

vars == <<registry, tree, shells, life, boot, handler, agent, reaping, asked>>

Agents == 1..MaxAgents
Stump == "stump"

Request == [op : {"create", "attach", "bind", "kill", "fork", "save", "list"},
            aria : Arias \cup {None}, pid : Pids \cup {None},
            lt : {0, 1}, rec : BOOLEAN]
NoRequest == [op |-> "attach", aria |-> None, pid |-> None, lt |-> 0, rec |-> FALSE]
Entry == [pid : Pids, aria : Arias, start : 0..MaxStarts]
Unborn == [aria |-> None, st |-> "unborn"]
NoSave == [left |-> {}, entries |-> <<>>, was |-> [p \in Pids |-> None]]
NoList == [live |-> {}, dormant |-> {}, pids |-> [a \in Arias |-> {}], was |-> {}]
NoDrain == [st |-> "none", agent |-> None]

Running(n) == agent[n].st \in {"live", "cancelled"}
Registered(a) == figaros[a] # None

\* An agent nobody refers to and whose drain loop has ended is gone.
Free(n) ==
  /\ ~ Running(n)
  /\ \A a \in Arias : figaros[a] # n /\ drainer[a].agent # n
  /\ \A h \in Handlers : mine[h] # n

---------------------------------------------------------------------------
(* The registry's operations, each under Registry.mu. *)

Publish(a, n) ==
  /\ figaros' = [figaros EXCEPT ![a] = n]
  /\ figaroPIDs' = [figaroPIDs EXCEPT ![a] = {}]

\* The second half of Registry.Kill; the pids' pending fork points stay behind.
Unpublish(a) ==
  /\ pidToFigaro' = [p \in Pids |-> IF p \in figaroPIDs[a] THEN None ELSE pidToFigaro[p]]
  /\ figaroPIDs' = [figaroPIDs EXCEPT ![a] = {}]
  /\ figaros' = [figaros EXCEPT ![a] = None]
  /\ killing' = killing \ {a}
  /\ UNCHANGED pidToLT

Bound(pids, p, a) ==
  [b \in Arias |-> IF b = a THEN pids[b] \cup {p}
                   ELSE IF b = pidToFigaro[p] THEN pids[b] \ {p} ELSE pids[b]]

\* Mutant: a rebind to the same aria keeps the old fork point.
BindKeepsPoint(p, a, lt) ==
  /\ pidToFigaro' = [pidToFigaro EXCEPT ![p] = a]
  /\ pidToLT' = [pidToLT EXCEPT ![p] = IF pidToFigaro[p] = a THEN @ ELSE lt]
  /\ figaroPIDs' = Bound(figaroPIDs, p, a)
  /\ asked' = [asked EXCEPT ![p] = lt]

Bind(p, a, lt) ==
  /\ pidToFigaro' = [pidToFigaro EXCEPT ![p] = a]
  /\ pidToLT' = [pidToLT EXCEPT ![p] = lt]
  /\ figaroPIDs' = Bound(figaroPIDs, p, a)
  /\ asked' = [asked EXCEPT ![p] = lt]

Unbind(p) ==
  IF pidToFigaro[p] = None THEN UNCHANGED <<pidToFigaro, pidToLT, figaroPIDs>>
  ELSE /\ pidToFigaro' = [pidToFigaro EXCEPT ![p] = None]
       /\ pidToLT' = [pidToLT EXCEPT ![p] = 0]
       /\ figaroPIDs' = [figaroPIDs EXCEPT ![pidToFigaro[p]] = @ \ {p}]

\* Agent.Kill cancels; the drain loop seals its turn and ends in AgentExit.
Cancelled(n) == [agent EXCEPT ![n].st = IF @ = "live" THEN "cancelled" ELSE @]

\* figaro.NewAgent: the drain loop runs from here on, registered or not.
Started(n, a) == [agent EXCEPT ![n] = [aria |-> a, st |-> "live"]]

---------------------------------------------------------------------------
(* The store's tree: a conversation hangs under a loadout's stump or under *)
(* the conversation it was forked from.                                    *)

Children(a) == {b \in stored : parent[b] = a}

\* A branch of a branch: the tree has at most Cardinality(Arias) levels.
Subtree(a) ==
  LET below[k \in 0..Cardinality(Arias)] ==
        IF k = 0 THEN {a} ELSE below[k - 1] \cup UNION {Children(b) : b \in below[k - 1]}
  IN below[Cardinality(Arias)]

\* Which node owns a main-LT: 0 stands for the head, 1 for a point before
\* the trunk's own first message.
OwnerOf(a, lt) == IF lt = 0 THEN a ELSE parent[a]

Mint(a, above) ==
  /\ minted' = minted \cup {a}
  /\ stored' = stored \cup {a}
  /\ parent' = [parent EXCEPT ![a] = above]
  /\ UNCHANGED closed

\* A daemon that has restored the arias it knows, with no shell bound.
Init ==
  /\ \E f \in [Known -> 1..Cardinality(Known)] :
       /\ IsInjective(f)
       /\ figaros = [a \in Arias |-> IF a \in Known THEN f[a] ELSE None]
       /\ agent = [n \in Agents |->
                     IF n \in Range(f) THEN [aria |-> CHOOSE a \in Known : f[a] = n, st |-> "live"]
                     ELSE Unborn]
  /\ pidToFigaro = [p \in Pids |-> None]
  /\ pidToLT = [p \in Pids |-> 0]
  /\ figaroPIDs = [a \in Arias |-> {}]
  /\ killing = {} /\ draining = FALSE
  /\ stored = Known /\ minted = Known /\ closed = FALSE
  /\ parent = [a \in Arias |-> Stump]
  /\ daemon = "up" /\ file = <<>> /\ todo = <<>>
  /\ procs = [p \in Pids |-> 1] /\ starts = [p \in Pids |-> 1]
  /\ reaping = {}
  /\ drainer = [a \in Arias |-> NoDrain]
  /\ lock = [a \in Arias |-> None]
  /\ pc = [h \in Handlers |-> "idle"]
  /\ req = [h \in Handlers |-> NoRequest]
  /\ mine = [h \in Handlers |-> None]
  /\ saving = [h \in Handlers |-> NoSave]
  /\ listing = [h \in Handlers |-> NoList]
  /\ ops = 0 /\ crashes = 0
  /\ asked = [p \in Pids |-> 0]
  /\ kept = [p \in Pids |-> None]

---------------------------------------------------------------------------
(* A handler's steps. *)

FirstStep(op) ==
  CASE op = "create" -> "spawn"
    [] op \in {"attach", "bind"} -> "lookup"
    [] op = "kill" -> "killGet"
    [] op = "fork" -> "forkGet"
    [] op = "save" -> "saveList"
    [] op = "list" -> "listLive"

\* Requests that may yet take an id (the ids of an instance are finite).
Minting == Cardinality({h \in Handlers : pc[h] \in {"spawn", "forkGet", "fork"}})

\* A request takes the first handler that is idle: they are interchangeable.
Accept(h, r) ==
  /\ daemon = "up" /\ pc[h] = "idle"
  /\ \A g \in Handlers : g < h => pc[g] # "idle"
  /\ r.op \in Kinds /\ ops < MaxOps
  /\ r.op \in {"attach", "bind", "kill", "fork"} => r.aria \in minted
  /\ r.op = "bind" => procs[r.pid] # 0
  /\ r.op \in {"create", "fork"} => Cardinality(minted) + Minting < Cardinality(Arias)
  /\ ops' = ops + 1
  /\ pc' = [pc EXCEPT ![h] = FirstStep(r.op)]
  /\ req' = [req EXCEPT ![h] = r]
  /\ UNCHANGED <<registry, tree, shells, life, boot, agent, reaping, asked, mine, saving, listing, lock>>

\* The requests that differ in what the handlers look at.
Requests ==
  {r \in Request :
     /\ (r.op \in {"create", "save", "list"}) <=> (r.aria = None)
     /\ (r.op = "bind") <=> (r.pid # None)
     /\ r.op \notin {"bind", "fork"} => r.lt = 0
     /\ r.op # "kill" => ~ r.rec}

Goto(h, where) == pc' = [pc EXCEPT ![h] = where]

\* Mutant: an early return that does not unlock.
ReturnLocked(h) ==
  /\ pc' = [pc EXCEPT ![h] = "idle"]
  /\ req' = [req EXCEPT ![h] = NoRequest]
  /\ mine' = [mine EXCEPT ![h] = None]
  /\ UNCHANGED lock

\* A handler that returns frees the restore lock it holds.
Return(h) ==
  /\ pc' = [pc EXCEPT ![h] = "idle"]
  /\ req' = [req EXCEPT ![h] = NoRequest]
  /\ mine' = [mine EXCEPT ![h] = None]
  /\ lock' = [a \in Arias |-> IF lock[a] = h THEN None ELSE lock[a]]

\* create: the conversation is in the tree before anything else is done.
Spawn(h) ==
  /\ pc[h] = "spawn"
  /\ \/ /\ closed /\ Return(h) /\ UNCHANGED tree
     \/ /\ ~ closed
        /\ \E a \in Arias \ minted :
             /\ Mint(a, Stump)
             /\ req' = [req EXCEPT ![h].aria = a]
        /\ Goto(h, "seed") /\ UNCHANGED <<mine, lock>>
  /\ UNCHANGED <<registry, shells, life, boot, agent, reaping, asked, saving, listing, ops>>

\* create: the boot patch and the chalkboard; an aria removed meanwhile fails.
Seed(h) ==
  /\ pc[h] = "seed"
  /\ IF req[h].aria \in stored /\ ~ closed
     THEN Goto(h, "build") /\ UNCHANGED <<req, mine, lock>>
     ELSE Return(h)
  /\ UNCHANGED <<registry, tree, shells, life, boot, agent, reaping, asked, saving, listing, ops>>

\* attach and bind: restoreByID without the lock, for a registered aria.
Found(h) ==
  IF req[h].op = "bind"
  THEN Goto(h, "bind") /\ lock' = [a \in Arias |-> IF lock[a] = h THEN None ELSE lock[a]]
       /\ UNCHANGED <<req, mine>>
  ELSE Return(h)

Lookup(h) ==
  /\ pc[h] = "lookup"
  /\ IF Registered(req[h].aria) THEN Found(h)
     ELSE Goto(h, "lock") /\ UNCHANGED <<req, mine, lock>>
  /\ UNCHANGED <<registry, tree, shells, life, boot, agent, reaping, asked, saving, listing, ops>>

\* Mutant: no second look under the lock.
LockBlind(h) ==
  /\ pc[h] = "lock" /\ lock[req[h].aria] = None
  /\ lock' = [lock EXCEPT ![req[h].aria] = h]
  /\ Goto(h, "open") /\ UNCHANGED <<req, mine>>
  /\ UNCHANGED <<registry, tree, shells, life, boot, agent, reaping, asked, saving, listing, ops>>

\* restoreByID: one restore of an aria at a time, and a second look under the lock.
Lock(h) ==
  LET a == req[h].aria IN
  /\ pc[h] = "lock" /\ lock[a] = None
  /\ IF Registered(a) THEN Found(h)
     ELSE /\ lock' = [lock EXCEPT ![a] = h]
          /\ Goto(h, "open") /\ UNCHANGED <<req, mine>>
  /\ UNCHANGED <<registry, tree, shells, life, boot, agent, reaping, asked, saving, listing, ops>>

\* restoreOne reads the chalkboard: an aria that is not in the tree fails.
Open(h) ==
  /\ pc[h] = "open"
  /\ IF req[h].aria \in stored /\ ~ closed
     THEN Goto(h, "build") /\ UNCHANGED <<req, mine, lock>>
     ELSE Return(h)
  /\ UNCHANGED <<registry, tree, shells, life, boot, agent, reaping, asked, saving, listing, ops>>

Build(h) ==
  /\ pc[h] = "build"
  /\ \E n \in Agents :
       /\ Free(n) /\ \A m \in Agents : m < n => ~ Free(m)
       /\ agent' = Started(n, req[h].aria)
       /\ mine' = [mine EXCEPT ![h] = n]
  /\ Goto(h, "admit")
  /\ UNCHANGED <<registry, tree, shells, life, boot, reaping, asked, req, saving, listing, lock, ops>>

\* Registry.Register, before it takes the lock.
Admit(h) ==
  /\ pc[h] = "admit"
  /\ Goto(h, IF draining THEN "discard" ELSE "enter")
  /\ agent' = IF draining THEN Cancelled(mine[h]) ELSE agent
  /\ UNCHANGED <<registry, tree, shells, life, boot, reaping, asked, req, mine, saving, listing, lock, ops>>

\* Registry.Register, under the lock.
Enter(h) ==
  LET a == req[h].aria IN
  /\ pc[h] = "enter"
  /\ IF Registered(a)
     THEN /\ Goto(h, "discard") /\ agent' = Cancelled(mine[h])
          /\ UNCHANGED <<figaros, figaroPIDs, req, mine, lock>>
     ELSE Publish(a, mine[h]) /\ Found(h) /\ UNCHANGED agent
  /\ UNCHANGED <<pidToFigaro, pidToLT, killing, tree, shells, life, boot, reaping, asked, saving, listing, ops>>

\* agent.Kill() of an agent that was refused waits for its drain loop.
Discard(h) ==
  /\ pc[h] = "discard" /\ agent[mine[h]].st = "done"
  /\ Return(h)
  /\ UNCHANGED <<registry, tree, shells, life, boot, agent, reaping, asked, saving, listing, ops>>

BindShell(h) ==
  LET r == req[h] IN
  /\ pc[h] = "bind"
  /\ IF Registered(r.aria) THEN Bind(r.pid, r.aria, r.lt)
     ELSE UNCHANGED <<pidToFigaro, pidToLT, figaroPIDs, asked>>
  /\ Return(h)
  /\ UNCHANGED <<figaros, killing, tree, shells, life, boot, agent, reaping, saving, listing, ops>>

KillGet(h) ==
  /\ pc[h] = "killGet"
  /\ Goto(h, IF Registered(req[h].aria) THEN "killMark" ELSE "remove")
  /\ UNCHANGED <<registry, tree, shells, life, boot, agent, reaping, asked, req, mine, saving, listing, lock, ops>>

\* The first half of Registry.Kill, and the cancel of the agent it kills.
KillMark(h) ==
  LET a == req[h].aria IN
  /\ pc[h] = "killMark"
  /\ IF ~ Registered(a) \/ a \in killing
     THEN Return(h) /\ UNCHANGED <<killing, agent>>
     ELSE /\ killing' = killing \cup {a}
          /\ agent' = Cancelled(figaros[a])
          /\ mine' = [mine EXCEPT ![h] = figaros[a]]
          /\ Goto(h, "killWait") /\ UNCHANGED <<req, lock>>
  /\ UNCHANGED <<figaros, pidToFigaro, pidToLT, figaroPIDs, tree, shells, life, boot, reaping, asked, saving, listing, ops>>

KillWait(h) ==
  /\ pc[h] = "killWait" /\ agent[mine[h]].st = "done"
  /\ Unpublish(req[h].aria)
  /\ Goto(h, "remove")
  /\ UNCHANGED <<tree, shells, life, boot, agent, reaping, asked, req, mine, saving, listing, lock, ops>>

\* Backend.Remove refuses a trunk with branches unless it is asked for them too.
RemoveAria(h) ==
  LET a == req[h].aria IN
  /\ pc[h] = "remove"
  /\ stored' = IF closed \/ (Children(a) # {} /\ ~ req[h].rec) THEN stored
               ELSE stored \ Subtree(a)
  /\ Return(h)
  /\ UNCHANGED <<registry, minted, parent, closed, shells, life, boot, agent, reaping, asked, saving, listing, ops>>

\* fork: the trunk that owns the fork point coordinates, if it has an agent.
ForkGet(h) ==
  LET a == req[h].aria
      o == OwnerOf(a, req[h].lt)
      c == IF o \in Arias /\ o # a /\ Registered(o) THEN o ELSE a
  IN /\ pc[h] = "forkGet"
     /\ mine' = [mine EXCEPT ![h] = figaros[c]]
     /\ Goto(h, "fork")
     /\ UNCHANGED <<registry, tree, shells, life, boot, agent, reaping, asked, req, saving, listing, lock, ops>>

\* runFork, on the agent's drain loop or, for a dormant aria, in the handler.
Fork(h) ==
  LET a == req[h].aria
      st == IF mine[h] = None THEN "live" ELSE agent[mine[h]].st
  IN
  /\ pc[h] = "fork"
  /\ st # "cancelled"
  /\ IF st = "live" /\ a \in stored /\ ~ closed
     THEN \E alt \in Arias \ minted : Mint(alt, OwnerOf(a, req[h].lt))
     ELSE UNCHANGED tree
  /\ Return(h)
  /\ UNCHANGED <<registry, shells, life, boot, agent, reaping, asked, saving, listing, ops>>

\* SaveBindings: the list of arias, then the pids of each, then the file.
\* A pid that is dead when it is looked up is written with start 0.
SaveList(h) ==
  /\ pc[h] = "saveList"
  /\ saving' = [saving EXCEPT ![h] =
                  [left |-> {a \in Arias : Registered(a)}, entries |-> <<>>,
                   was |-> pidToFigaro]]
  /\ Goto(h, "saveAria")
  /\ UNCHANGED <<listing, registry, tree, shells, life, boot, agent, reaping, asked, req, mine, lock, ops>>

SaveAria(h) ==
  /\ pc[h] = "saveAria"
  /\ \E a \in saving[h].left :
       LET new == {[pid |-> p, aria |-> a, start |-> procs[p]] : p \in figaroPIDs[a]}
       IN saving' = [saving EXCEPT ![h].left = @ \ {a}, ![h].entries = @ \o SetToSeq(new)]
  /\ UNCHANGED <<listing, registry, tree, shells, life, boot, agent, reaping, asked, pc, req, mine, lock, ops>>

\* What the save found for a pid: two arias when the pid moved meanwhile.
Saved(h, p) == {e \in Range(saving[h].entries) : e.pid = p}

SaveWrite(h) ==
  /\ pc[h] = "saveAria" /\ saving[h].left = {}
  /\ file' = saving[h].entries
  /\ kept' = [p \in Pids |->
                IF \E e \in Saved(h, p) : /\ Saved(h, p) = {e}
                                           /\ e.aria = saving[h].was[p]
                                           /\ e.aria = pidToFigaro[p]
                THEN CHOOSE e \in Saved(h, p) : TRUE ELSE None]
  /\ saving' = [saving EXCEPT ![h] = NoSave]
  /\ Return(h)
  /\ UNCHANGED <<listing, registry, tree, shells, life, todo, agent, reaping, asked, ops>>

\* list: the agents, then the pids of every aria in one look at the registry,
\* then the conversations of the tree that were not among the agents.
ListLive(h) ==
  /\ pc[h] = "listLive"
  /\ listing' = [listing EXCEPT ![h].live = {a \in Arias : Registered(a)}, ![h].was = stored]
  /\ Goto(h, "listPids")
  /\ UNCHANGED <<registry, tree, shells, life, boot, agent, reaping, asked, req, mine, saving, lock, ops>>

BoundPIDsByFigaro(h) ==
  /\ pc[h] = "listPids"
  /\ listing' = [listing EXCEPT ![h].pids = figaroPIDs]
  /\ Goto(h, "listTree")
  /\ UNCHANGED <<registry, tree, shells, life, boot, agent, reaping, asked, req, mine, saving, lock, ops>>

ListTree(h) ==
  /\ pc[h] = "listTree"
  /\ listing' = [listing EXCEPT ![h].dormant = stored \ listing[h].live]
  /\ Goto(h, "listed")
  /\ UNCHANGED <<registry, tree, shells, life, boot, agent, reaping, asked, req, mine, saving, lock, ops>>

ListAnswer(h) ==
  /\ pc[h] = "listed"
  /\ listing' = [listing EXCEPT ![h] = NoList]
  /\ Return(h)
  /\ UNCHANGED <<registry, tree, shells, life, boot, agent, reaping, asked, saving, ops>>

Step(h) ==
  \/ ListLive(h) \/ BoundPIDsByFigaro(h) \/ ListTree(h) \/ ListAnswer(h)
  \/ Spawn(h) \/ Seed(h) \/ Lookup(h) \/ Lock(h) \/ Open(h) \/ Build(h)
  \/ Admit(h) \/ Enter(h) \/ Discard(h) \/ BindShell(h)
  \/ KillGet(h) \/ KillMark(h) \/ KillWait(h) \/ RemoveAria(h)
  \/ ForkGet(h) \/ Fork(h) \/ SaveList(h) \/ SaveAria(h) \/ SaveWrite(h)

\* figaro.unbind; the handler is one call of the registry.
RequestUnbind(p) ==
  /\ daemon = "up" /\ "unbind" \in Kinds /\ ops < MaxOps
  /\ Unbind(p)
  /\ ops' = ops + 1
  /\ UNCHANGED <<figaros, killing, tree, shells, life, boot, pc, req, mine, saving, listing, lock,
                 agent, reaping, asked>>

\* figaro.promote: a branch takes the place of the trunk it hangs on.
Promote(a) ==
  /\ daemon = "up" /\ "promote" \in Kinds /\ ops < MaxOps
  /\ a \in stored /\ parent[a] \in stored
  /\ parent' = [parent EXCEPT ![a] = parent[parent[a]], ![parent[a]] = a]
  /\ ops' = ops + 1
  /\ UNCHANGED <<registry, stored, minted, closed, shells, life, boot, pc, req, mine,
                 saving, listing, lock, agent, reaping, asked>>

\* The drain loop of a cancelled agent has sealed its turn.
AgentExit(n) ==
  /\ agent[n].st = "cancelled"
  /\ agent' = [agent EXCEPT ![n].st = "done"]
  /\ UNCHANGED <<registry, tree, shells, life, boot, handler, reaping, asked>>

---------------------------------------------------------------------------
(* Shells come and go; the monitor unbinds those it finds dead. *)

ShellExits(p) ==
  /\ "shell" \in Kinds /\ procs[p] # 0
  /\ procs' = [procs EXCEPT ![p] = 0]
  /\ UNCHANGED <<registry, tree, starts, life, boot, handler, agent, reaping, asked>>

ShellStarts(p) ==
  /\ procs[p] = 0 /\ starts[p] < MaxStarts
  /\ starts' = [starts EXCEPT ![p] = @ + 1]
  /\ procs' = [procs EXCEPT ![p] = starts[p] + 1]
  /\ UNCHANGED <<registry, tree, life, boot, handler, agent, reaping, asked>>

Serving == daemon \in {"up", "signalled", "draining"}

ReapList ==
  /\ Serving /\ reaping = {}
  /\ reaping' = {p \in Pids : pidToFigaro[p] # None}
  /\ UNCHANGED <<registry, tree, shells, life, boot, handler, agent, asked>>

ReapOne(p) ==
  /\ p \in reaping
  /\ reaping' = reaping \ {p}
  /\ IF procs[p] = 0 THEN Unbind(p) ELSE UNCHANGED <<pidToFigaro, pidToLT, figaroPIDs>>
  /\ UNCHANGED <<figaros, killing, tree, shells, life, boot, handler, agent, asked>>

---------------------------------------------------------------------------
(* Shutdown, death and restart of the daemon. *)

Signal ==
  /\ daemon = "up" /\ "signal" \in Kinds
  /\ daemon' = "signalled" /\ draining' = TRUE
  /\ UNCHANGED <<registry, tree, shells, drainer, crashes, boot, handler, agent, reaping, asked>>

\* Registry.All, and a goroutine for each agent in the list.
DrainList ==
  /\ daemon = "signalled"
  /\ daemon' = "draining"
  /\ drainer' = [a \in Arias |-> IF Registered(a) THEN [st |-> "wait", agent |-> figaros[a]]
                                 ELSE NoDrain]
  /\ UNCHANGED <<draining, crashes, registry, tree, shells, boot, handler, agent, reaping, asked>>

\* waitForIdle is over, idle or not: Registry.Kill starts, or reports that the
\* id is gone or being killed by somebody else.
DrainKill(a) ==
  /\ drainer[a].st = "wait"
  /\ IF ~ Registered(a) \/ a \in killing
     THEN /\ drainer' = [drainer EXCEPT ![a] = NoDrain]
          /\ UNCHANGED <<killing, agent>>
     ELSE /\ killing' = killing \cup {a}
          /\ agent' = Cancelled(figaros[a])
          /\ drainer' = [drainer EXCEPT ![a] = [st |-> "kill", agent |-> figaros[a]]]
  /\ UNCHANGED <<figaros, pidToFigaro, pidToLT, figaroPIDs, tree, shells, daemon, draining,
                 crashes, boot, handler, reaping, asked>>

DrainUnpublish(a) ==
  /\ drainer[a].st \in {"kill", "abandoned"}
  /\ agent[drainer[a].agent].st = "done"
  /\ Unpublish(a)
  /\ drainer' = [drainer EXCEPT ![a] = NoDrain]
  /\ UNCHANGED <<tree, shells, daemon, draining, crashes, boot, handler, agent, reaping, asked>>

\* The agent outlasts its grace; the goroutine that kills it goes on.
DrainAbandon(a) ==
  /\ "abandon" \in Kinds /\ drainer[a].st = "kill"
  /\ drainer' = [drainer EXCEPT ![a].st = "abandoned"]
  /\ UNCHANGED <<registry, tree, shells, daemon, draining, crashes, boot, handler, agent, reaping, asked>>

CloseStore ==
  /\ daemon = "draining"
  /\ \A a \in Arias : drainer[a].st \notin {"wait", "kill"}
  /\ daemon' = "stopped" /\ closed' = TRUE /\ reaping' = {}
  /\ UNCHANGED <<registry, stored, minted, parent, shells, draining, drainer, crashes, boot,
                 handler, agent, asked>>

\* What a process takes with it.
Wiped ==
  /\ figaros' = [a \in Arias |-> None]
  /\ pidToFigaro' = [p \in Pids |-> None]
  /\ pidToLT' = [p \in Pids |-> 0]
  /\ figaroPIDs' = [a \in Arias |-> {}]
  /\ killing' = {} /\ draining' = FALSE
  /\ agent' = [n \in Agents |-> Unborn]
  /\ drainer' = [a \in Arias |-> NoDrain]
  /\ lock' = [a \in Arias |-> None]
  /\ pc' = [h \in Handlers |-> "idle"]
  /\ req' = [h \in Handlers |-> NoRequest]
  /\ mine' = [h \in Handlers |-> None]
  /\ saving' = [h \in Handlers |-> NoSave]
  /\ listing' = [h \in Handlers |-> NoList]
  /\ reaping' = {} /\ todo' = <<>> /\ closed' = FALSE
  /\ asked' = [p \in Pids |-> 0]

Exit ==
  /\ daemon = "stopped"
  /\ Wiped /\ daemon' = "down"
  /\ UNCHANGED <<stored, minted, parent, shells, crashes, file, kept, ops>>

Crash ==
  /\ daemon # "down" /\ crashes < MaxCrashes
  /\ Wiped /\ daemon' = "down" /\ crashes' = crashes + 1
  /\ UNCHANGED <<stored, minted, parent, shells, file, kept, ops>>

\* Mutant: the bindings file is removed as soon as it was read.
StartRemoves ==
  /\ daemon = "down"
  /\ daemon' = "restoring" /\ todo' = file /\ file' = <<>>
  /\ UNCHANGED <<registry, tree, shells, draining, drainer, crashes, kept, handler, agent,
                 reaping, asked>>

\* ensureAngelus starts a daemon; lockStore admits one.
Start ==
  /\ daemon = "down"
  /\ daemon' = "restoring" /\ todo' = file
  /\ UNCHANGED <<registry, tree, shells, draining, drainer, crashes, file, kept, handler, agent,
                 reaping, asked>>

\* One entry of bindings.json: skipped when the process or the aria is gone,
\* or when the pid is another process's; else the aria is restored and bound.
RestoreNext ==
  /\ daemon = "restoring" /\ todo # <<>>
  /\ todo' = Tail(todo)
  /\ LET e == Head(todo) IN
     IF \/ procs[e.pid] = 0 \/ (e.start # 0 /\ procs[e.pid] # e.start)
        \/ e.aria \notin stored
     THEN UNCHANGED <<registry, agent, asked>>
     ELSE /\ \E n \in Agents :
               /\ IF Registered(e.aria) THEN n = figaros[e.aria] /\ UNCHANGED agent
                  ELSE Free(n) /\ (\A m \in Agents : m < n => ~ Free(m))
                       /\ agent' = Started(n, e.aria)
               /\ figaros' = [figaros EXCEPT ![e.aria] = n]
          /\ Bind(e.pid, e.aria, 0)
          /\ UNCHANGED killing
  /\ UNCHANGED <<tree, shells, life, file, kept, handler, reaping>>

\* The file is removed when the last entry was looked at.
RestoreDone ==
  /\ daemon = "restoring" /\ todo = <<>>
  /\ daemon' = "up" /\ file' = <<>>
  /\ kept' = [p \in Pids |-> None]
  /\ UNCHANGED <<registry, tree, shells, draining, drainer, crashes, todo, handler, agent, reaping, asked>>

SomeExit == \E n \in Agents : AgentExit(n)

Reap == ReapList \/ \E p \in Pids : ReapOne(p)

Drain == DrainList \/ CloseStore \/ Exit \/ \E a \in Arias : DrainKill(a) \/ DrainUnpublish(a)

Restart == Start \/ RestoreNext \/ RestoreDone

Next ==
  \/ \E h \in Handlers : Step(h) \/ \E r \in Requests : Accept(h, r)
  \/ \E p \in Pids : RequestUnbind(p) \/ ShellExits(p) \/ ShellStarts(p)
  \/ \E a \in Arias : Promote(a) \/ DrainAbandon(a)
  \/ SomeExit \/ Reap \/ Signal \/ Drain \/ Crash \/ Restart

Spec == Init /\ [][Next]_vars

\* The Go scheduler runs some goroutine that can move, a cancelled drain loop
\* ends, and the two-second ticker keeps firing.  Fairness to each handler would
\* be justified too; this is less and is enough.
Progress == (\E h \in Handlers : Step(h)) \/ SomeExit \/ Drain \/ Restart

FairSpec == Spec /\ WF_vars(Progress) /\ WF_vars(Reap)

---------------------------------------------------------------------------
(* Properties. *)

\* The type of every variable.
TypeOK ==
  /\ figaros \in [Arias -> Agents \cup {None}]
  /\ pidToFigaro \in [Pids -> Arias \cup {None}]
  /\ pidToLT \in [Pids -> {0, 1}]
  /\ figaroPIDs \in [Arias -> SUBSET Pids]
  /\ killing \subseteq Arias
  /\ draining \in BOOLEAN /\ closed \in BOOLEAN
  /\ agent \in [Agents -> [aria : Arias \cup {None},
                           st : {"unborn", "live", "cancelled", "done"}]]
  /\ stored \subseteq minted /\ minted \subseteq Arias
  /\ parent \in [Arias -> Arias \cup {Stump}]
  /\ daemon \in {"down", "restoring", "up", "signalled", "draining", "stopped"}
  /\ Range(file) \subseteq Entry /\ Range(todo) \subseteq Entry
  /\ procs \in [Pids -> 0..MaxStarts] /\ starts \in [Pids -> 1..MaxStarts]
  /\ reaping \subseteq Pids
  /\ drainer \in [Arias -> [st : {"none", "wait", "kill", "abandoned"},
                            agent : Agents \cup {None}]]
  /\ lock \in [Arias -> Handlers \cup {None}]
  /\ req \in [Handlers -> Request] /\ mine \in [Handlers -> Agents \cup {None}]
  /\ asked \in [Pids -> {0, 1}]

\* Each side of a binding names the other, only a registered aria is bound, and
\* the pending fork point is the one the pid's last bind asked for even though
\* Kill leaves the old one behind.
MapsAgree ==
  \A p \in Pids :
    /\ \A a \in Arias : p \in figaroPIDs[a] <=> pidToFigaro[p] = a
    /\ pidToFigaro[p] # None => Registered(pidToFigaro[p]) /\ pidToLT[p] = asked[p]

\* An aria that was in the tree from the listing's first look to its last is in
\* it, as an agent or dormant, and a shell is shown under one aria only.
ListingWhole ==
  \A h \in Handlers : pc[h] = "listed" =>
    /\ listing[h].was \cap stored \subseteq listing[h].live \cup listing[h].dormant
    /\ \A a, b \in Arias : a # b => listing[h].pids[a] \cap listing[h].pids[b] = {}

\* The registry's three maps agree with each other, and with what `figaro list`
\* tells of them, whatever is bound, unbound, reaped, killed and restored
\* meanwhile (Registry.Bind, Unbind, Kill, List).
BindingsAgree == MapsAgree /\ ListingWhole

\* Handlers that hold an agent Register has not accepted, or has refused.
Unaccepted(n) == \E h \in Handlers : mine[h] = n /\ pc[h] \in {"admit", "enter", "discard"}

\* Never two drain loops on one aria's log: a restored aria has one agent at a
\* time whatever attaches, binds, kills and shutdowns overlap; for an aria that
\* was created by this program a second agent can only be one that Register has
\* not accepted (create does not take the restore lock).
OneWriter ==
  \A m, n \in Agents :
    m # n /\ Running(m) /\ Running(n) /\ agent[m].aria = agent[n].aria =>
      agent[m].aria \notin Known /\ (Unaccepted(m) \/ Unaccepted(n))

\* A binding that was in force while SaveBindings ran and whose shell and aria
\* still exist is in force again when the next daemon starts to serve, also when
\* a daemon died while it restored.
BindingsSurviveRest ==
  [][daemon = "restoring" /\ daemon' = "up" =>
       \A p \in Pids :
         kept[p] # None /\ procs[p] # 0 /\ kept[p].start = procs[p] /\ kept[p].aria \in stored =>
           pidToFigaro'[p] = kept[p].aria]_vars

\* Whatever has happened, the system comes to rest: every request is answered, a
\* signalled daemon exits and the next one serves, and no dead shell is bound.
ComesToRest ==
  []<>(/\ daemon = "up"
       /\ \A h \in Handlers : pc[h] = "idle"
       /\ \A p \in Pids : procs[p] = 0 => pidToFigaro[p] = None)

=============================================================================
