--------------------------- MODULE AngelusProofs ---------------------------
(* Proofs about Angelus, for every value of its constants. *)
EXTENDS Angelus, TLAPS, FunctionTheorems, FiniteSetTheorems, SequenceTheorems

-----------------------------------------------------------------------------
(* Types, and what a handler knows at each of its steps *)

AgentState == {"unborn", "live", "cancelled", "done"}
DrainState == {"none", "wait", "kill", "abandoned"}
Restoring == {"build", "admit", "enter", "discard"}
OnAria == {"seed", "lookup", "lock", "open", "bind", "killGet", "killMark", "killWait", "remove",
           "forkGet", "fork"} \cup Restoring
Places == {"idle", "spawn", "saveList", "saveAria", "listLive", "listPids", "listTree", "listed"}
          \cup OnAria

RegistryOK ==
  /\ figaros \in [Arias -> Agents \cup {None}]
  /\ pidToFigaro \in [Pids -> Arias \cup {None}]
  /\ pidToLT \in [Pids -> {0, 1}]
  /\ figaroPIDs \in [Arias -> SUBSET Pids]
  /\ killing \subseteq Arias
  /\ asked \in [Pids -> {0, 1}]

AgentsOK ==
  /\ agent \in [Agents -> [aria : Arias \cup {None}, st : AgentState]]
  /\ drainer \in [Arias -> [st : DrainState, agent : Agents \cup {None}]]
  /\ \A a \in Arias : drainer[a].st # "none" => drainer[a].agent \in Agents

TreeOK == stored \subseteq minted /\ minted \subseteq Arias

HandlerOK(h) ==
  /\ pc[h] \in OnAria => req[h].aria \in Arias
  /\ pc[h] \in {"spawn", "seed"} => req[h].op = "create"
  /\ pc[h] \in {"lookup", "lock", "open"} => req[h].op \in {"attach", "bind"}
  /\ pc[h] \in Restoring => req[h].op \in {"create", "attach", "bind"}
  /\ pc[h] = "bind" => req[h].op = "bind"
  /\ req[h].op = "bind" => req[h].pid \in Pids
  /\ pc[h] \in {"admit", "enter", "discard", "killWait"} => mine[h] \in Agents

HandlersOK ==
  /\ pc \in [Handlers -> Places]
  /\ req \in [Handlers -> Request]
  /\ mine \in [Handlers -> Agents \cup {None}]
  /\ lock \in [Arias -> Handlers \cup {None}]
  /\ \A h \in Handlers : HandlerOK(h)

ListingOK ==
  listing \in [Handlers -> [live : SUBSET Arias, dormant : SUBSET Arias,
                            pids : [Arias -> SUBSET Pids], was : SUBSET Arias]]

ShellsOK ==
  /\ procs \in [Pids -> 0..MaxStarts] /\ starts \in [Pids -> 1..MaxStarts]
  /\ reaping \subseteq Pids

FilesOK ==
  /\ file \in Seq(Entry) /\ todo \in Seq(Entry)
  /\ kept \in [Pids -> Entry \cup {None}]
  /\ saving \in [Handlers -> [left : SUBSET Arias, entries : Seq(Entry),
                              was : [Pids -> Arias \cup {None}]]]

TypeInv == RegistryOK /\ AgentsOK /\ TreeOK /\ HandlersOK /\ ListingOK /\ ShellsOK /\ FilesOK


\* A handler that goes on to its next step with the request it has.
LEMMA GotoOK ==
  ASSUME HandlersOK, NEW h \in Handlers, NEW w \in Places, Goto(h, w), UNCHANGED req,
         mine' \in [Handlers -> Agents \cup {None}], lock' \in [Arias -> Handlers \cup {None}],
         \A g \in Handlers : g # h => mine'[g] = mine[g],
         HandlerOK(h)'
  PROVE  HandlersOK'
<1>1. pc' = [pc EXCEPT ![h] = w]
  BY DEF Goto
<1>2. \A g \in Handlers : g # h => HandlerOK(g)'
  BY <1>1 DEF HandlersOK, HandlerOK
<1> QED BY <1>1, <1>2 DEF HandlersOK

\* A handler that returns.
LEMMA ReturnOK ==
  ASSUME HandlersOK, NEW h \in Handlers, Return(h)
  PROVE  HandlersOK'
<1>1. /\ pc' = [pc EXCEPT ![h] = "idle"] /\ req' = [req EXCEPT ![h] = NoRequest]
      /\ mine' = [mine EXCEPT ![h] = None]
      /\ lock' = [a \in Arias |-> IF lock[a] = h THEN None ELSE lock[a]]
  BY DEF Return
<1>2. NoRequest \in Request
  BY DEF NoRequest, Request
<1>3. /\ pc' \in [Handlers -> Places] /\ req' \in [Handlers -> Request]
      /\ mine' \in [Handlers -> Agents \cup {None}] /\ lock' \in [Arias -> Handlers \cup {None}]
  BY <1>1, <1>2 DEF HandlersOK, Places
<1>4. \A g \in Handlers : g # h => HandlerOK(g)'
  BY <1>1 DEF HandlersOK, HandlerOK
<1>5. HandlerOK(h)'
  BY <1>1 DEF HandlersOK, HandlerOK, NoRequest, OnAria, Restoring
<1> QED BY <1>3, <1>4, <1>5 DEF HandlersOK

\* restoreByID has an agent: a bind goes on, the others return.
LEMMA FoundOK ==
  ASSUME HandlersOK, NEW h \in Handlers, pc[h] \in OnAria, Found(h)
  PROVE  HandlersOK'
<1>1. CASE req[h].op = "bind"
  <2>1. /\ pc' = [pc EXCEPT ![h] = "bind"] /\ UNCHANGED <<req, mine>>
        /\ lock' = [a \in Arias |-> IF lock[a] = h THEN None ELSE lock[a]]
    BY <1>1 DEF Found, Goto
  <2>2. HandlerOK(h)'
    BY <1>1, <2>1 DEF HandlersOK, HandlerOK, OnAria, Restoring
  <2> QED BY <2>1, <2>2, GotoOK DEF HandlersOK, Goto, Places, OnAria
<1>2. CASE req[h].op # "bind"
  BY <1>2, ReturnOK DEF Found
<1> QED BY <1>1, <1>2

\* A step that moves a handler and touches nothing else.
LEMMA OnlyHandler ==
  ASSUME TypeInv, HandlersOK',
         UNCHANGED <<registry, tree, shells, life, boot, agent, reaping, asked, saving, listing>>
  PROVE  TypeInv'
  BY DEF TypeInv, RegistryOK, AgentsOK, TreeOK, ListingOK, ShellsOK, FilesOK,
         registry, tree, shells, life, boot

\* Agents are cancelled and started.
LEMMA CancelledOK ==
  ASSUME AgentsOK, NEW n \in Agents, agent' = Cancelled(n), UNCHANGED drainer
  PROVE  AgentsOK'
<1>1. agent' \in [Agents -> [aria : Arias \cup {None}, st : AgentState]]
  BY DEF AgentsOK, Cancelled, AgentState
<1> QED BY <1>1 DEF AgentsOK

LEMMA StartedOK ==
  ASSUME AgentsOK, NEW n \in Agents, NEW a \in Arias, agent' = Started(n, a), UNCHANGED drainer
  PROVE  AgentsOK'
  BY DEF AgentsOK, Started, AgentState

LEMMA SpawnType ==
  ASSUME TypeInv, NEW h \in Handlers, Spawn(h) PROVE TypeInv'
<1> USE DEF TypeInv
<1>1. CASE Return(h) /\ UNCHANGED tree
  BY <1>1, ReturnOK, OnlyHandler DEF Spawn
<1>2. CASE \E a \in Arias \ minted :
             /\ Mint(a, Stump) /\ req' = [req EXCEPT ![h].aria = a]
             /\ Goto(h, "seed") /\ UNCHANGED <<mine, lock>>
  <2>1. PICK a \in Arias \ minted :
          /\ Mint(a, Stump) /\ req' = [req EXCEPT ![h].aria = a]
          /\ Goto(h, "seed") /\ UNCHANGED <<mine, lock>>
    BY <1>2
  <2>2. TreeOK'
    BY <2>1 DEF TreeOK, Mint
  <2>3. req' \in [Handlers -> Request] /\ \A g \in Handlers : g # h => req'[g] = req[g]
    BY <2>1 DEF HandlersOK, Request
  <2>4. req'[h].aria = a /\ req'[h].op = "create" /\ pc' = [pc EXCEPT ![h] = "seed"]
    BY <2>1 DEF Spawn, HandlersOK, HandlerOK, Request, Goto
  <2>5. HandlerOK(h)'
    BY <2>1, <2>4 DEF HandlersOK, HandlerOK, OnAria, Restoring
  <2>6. \A g \in Handlers : g # h => HandlerOK(g)'
    BY <2>1, <2>3, <2>4 DEF HandlersOK, HandlerOK
  <2>7. HandlersOK'
    BY <2>1, <2>3, <2>4, <2>5, <2>6 DEF HandlersOK, Places, OnAria
  <2> QED BY <2>2, <2>7 DEF Spawn, RegistryOK, AgentsOK, ListingOK, ShellsOK, FilesOK,
                            registry, shells, life, boot
<1> QED BY <1>1, <1>2 DEF Spawn

LEMMA SeedType ==
  ASSUME TypeInv, NEW h \in Handlers, Seed(h) PROVE TypeInv'
<1> USE DEF TypeInv
<1>1. CASE Goto(h, "build") /\ UNCHANGED <<req, mine, lock>>
  <2>1. HandlerOK(h)'
    BY <1>1 DEF Seed, Goto, HandlersOK, HandlerOK, OnAria, Restoring
  <2>2. HandlersOK'
    BY <1>1, <2>1, GotoOK DEF HandlersOK, Places, OnAria, Restoring
  <2> QED BY <2>2, OnlyHandler DEF Seed
<1>2. CASE Return(h)
  BY <1>2, ReturnOK, OnlyHandler DEF Seed
<1> QED BY <1>1, <1>2 DEF Seed

LEMMA LookupType ==
  ASSUME TypeInv, NEW h \in Handlers, Lookup(h) PROVE TypeInv'
<1> USE DEF TypeInv
<1>1. CASE Found(h)
  BY <1>1, FoundOK, OnlyHandler DEF Lookup, OnAria
<1>2. CASE Goto(h, "lock") /\ UNCHANGED <<req, mine, lock>>
  <2>1. HandlerOK(h)'
    BY <1>2 DEF Lookup, Goto, HandlersOK, HandlerOK, OnAria, Restoring
  <2>2. HandlersOK'
    BY <1>2, <2>1, GotoOK DEF HandlersOK, Places, OnAria
  <2> QED BY <2>2, OnlyHandler DEF Lookup
<1> QED BY <1>1, <1>2 DEF Lookup

LEMMA LockType ==
  ASSUME TypeInv, NEW h \in Handlers, Lock(h) PROVE TypeInv'
<1> USE DEF TypeInv
<1>0. pc[h] = "lock" /\ req[h].aria \in Arias
  BY DEF Lock, HandlersOK, HandlerOK, OnAria
<1>1. CASE Found(h)
  BY <1>0, <1>1, FoundOK, OnlyHandler DEF Lock, OnAria
<1>2. CASE lock' = [lock EXCEPT ![req[h].aria] = h] /\ Goto(h, "open") /\ UNCHANGED <<req, mine>>
  <2>1. HandlerOK(h)'
    BY <1>0, <1>2 DEF Goto, HandlersOK, HandlerOK, OnAria, Restoring
  <2>2. lock' \in [Arias -> Handlers \cup {None}]
    BY <1>0, <1>2 DEF HandlersOK
  <2>3. HandlersOK'
    BY <1>2, <2>1, <2>2, GotoOK DEF HandlersOK, Places, OnAria
  <2> QED BY <2>3, OnlyHandler DEF Lock
<1> QED BY <1>1, <1>2 DEF Lock

LEMMA OpenType ==
  ASSUME TypeInv, NEW h \in Handlers, Open(h) PROVE TypeInv'
<1> USE DEF TypeInv
<1>1. CASE Goto(h, "build") /\ UNCHANGED <<req, mine, lock>>
  <2>1. HandlerOK(h)'
    BY <1>1 DEF Open, Goto, HandlersOK, HandlerOK, OnAria, Restoring
  <2>2. HandlersOK'
    BY <1>1, <2>1, GotoOK DEF HandlersOK, Places, OnAria, Restoring
  <2> QED BY <2>2, OnlyHandler DEF Open
<1>2. CASE Return(h)
  BY <1>2, ReturnOK, OnlyHandler DEF Open
<1> QED BY <1>1, <1>2 DEF Open

LEMMA BuildType ==
  ASSUME TypeInv, NEW h \in Handlers, Build(h) PROVE TypeInv'
<1> USE DEF TypeInv
<1>1. PICK n \in Agents : agent' = Started(n, req[h].aria) /\ mine' = [mine EXCEPT ![h] = n]
  BY DEF Build
<1>2. pc[h] = "build" /\ req[h].aria \in Arias
  BY DEF Build, HandlersOK, HandlerOK, OnAria, Restoring
<1>3. AgentsOK'
  BY <1>1, <1>2, StartedOK DEF Build, life
<1>4. /\ mine' \in [Handlers -> Agents \cup {None}] /\ mine'[h] \in Agents
      /\ \A g \in Handlers : g # h => mine'[g] = mine[g]
  BY <1>1 DEF HandlersOK
<1>5. Goto(h, "admit") /\ UNCHANGED <<req, lock>>
  BY DEF Build
<1>6. HandlerOK(h)'
  BY <1>2, <1>4, <1>5 DEF Goto, HandlersOK, HandlerOK, OnAria, Restoring
<1>7. HandlersOK'
  BY <1>4, <1>5, <1>6, GotoOK DEF HandlersOK, Places, OnAria, Restoring
<1> QED BY <1>3, <1>7 DEF Build, RegistryOK, TreeOK, ListingOK, ShellsOK, FilesOK,
                          registry, tree, shells, life, boot

LEMMA AdmitType ==
  ASSUME TypeInv, NEW h \in Handlers, Admit(h) PROVE TypeInv'
<1> USE DEF TypeInv
<1>1. pc[h] = "admit" /\ mine[h] \in Agents /\ UNCHANGED <<req, mine, lock>>
  BY DEF Admit, HandlersOK, HandlerOK
<1>2. PICK w \in {"discard", "enter"} : Goto(h, w)
  BY DEF Admit
<1>3. HandlerOK(h)'
  BY <1>1, <1>2 DEF Goto, HandlersOK, HandlerOK, OnAria, Restoring
<1>4. HandlersOK'
  BY <1>1, <1>2, <1>3, GotoOK DEF HandlersOK, Places, OnAria, Restoring
<1>5. AgentsOK'
  BY <1>1, CancelledOK DEF Admit, AgentsOK, life
<1> QED BY <1>4, <1>5 DEF Admit, RegistryOK, TreeOK, ListingOK, ShellsOK, FilesOK,
                          registry, tree, shells, life, boot

LEMMA EnterType ==
  ASSUME TypeInv, NEW h \in Handlers, Enter(h) PROVE TypeInv'
<1> USE DEF TypeInv
<1>0. pc[h] = "enter" /\ mine[h] \in Agents
  BY DEF Enter, HandlersOK, HandlerOK
<1>1. HandlersOK'
  <2>1. CASE Registered(req[h].aria)
    <3>1. Goto(h, "discard") /\ UNCHANGED <<req, mine, lock>>
      BY <2>1 DEF Enter
    <3>2. HandlerOK(h)'
      BY <1>0, <3>1 DEF Goto, HandlersOK, HandlerOK, OnAria, Restoring
    <3> QED BY <3>1, <3>2, GotoOK DEF HandlersOK, Places, OnAria, Restoring
  <2>2. CASE ~ Registered(req[h].aria)
    BY <2>2, FoundOK DEF Enter, OnAria, Restoring
  <2> QED BY <2>1, <2>2
<1>2. RegistryOK'
  BY <1>0 DEF Enter, Publish, RegistryOK, HandlersOK
<1>3. AgentsOK'
  BY <1>0, CancelledOK DEF Enter, AgentsOK, life
<1> QED BY <1>1, <1>2, <1>3 DEF Enter, TreeOK, ListingOK, ShellsOK, FilesOK, tree, shells, life, boot

LEMMA DiscardType ==
  ASSUME TypeInv, NEW h \in Handlers, Discard(h) PROVE TypeInv'
  BY ReturnOK, OnlyHandler DEF TypeInv, Discard

\* Registry.Bind keeps the shape of the maps.
LEMMA BindOK ==
  ASSUME RegistryOK, NEW p \in Pids, NEW a \in Arias, NEW lt \in {0, 1}, Bind(p, a, lt)
  PROVE  /\ pidToFigaro' \in [Pids -> Arias \cup {None}] /\ pidToLT' \in [Pids -> {0, 1}]
         /\ figaroPIDs' \in [Arias -> SUBSET Pids] /\ asked' \in [Pids -> {0, 1}]
<1>1. Bound(figaroPIDs, p, a) \in [Arias -> SUBSET Pids]
  BY DEF RegistryOK, Bound
<1> QED BY <1>1 DEF RegistryOK, Bind

\* So do Unbind and the second half of Kill.
LEMMA UnbindOK ==
  ASSUME RegistryOK, NEW p \in Pids, Unbind(p)
  PROVE  /\ pidToFigaro' \in [Pids -> Arias \cup {None}] /\ pidToLT' \in [Pids -> {0, 1}]
         /\ figaroPIDs' \in [Arias -> SUBSET Pids]
<1>1. CASE pidToFigaro[p] = None
  BY <1>1 DEF Unbind, RegistryOK
<1>2. CASE pidToFigaro[p] # None
  BY <1>2 DEF Unbind, RegistryOK
<1> QED BY <1>1, <1>2

LEMMA UnpublishOK ==
  ASSUME RegistryOK, NEW a \in Arias, Unpublish(a), UNCHANGED asked
  PROVE  RegistryOK'
  BY DEF RegistryOK, Unpublish

LEMMA BindShellType ==
  ASSUME TypeInv, NEW h \in Handlers, BindShell(h) PROVE TypeInv'
<1> USE DEF TypeInv
<1>1. pc[h] = "bind" /\ req[h].aria \in Arias /\ req[h].pid \in Pids /\ req[h].lt \in {0, 1}
  BY DEF BindShell, HandlersOK, HandlerOK, OnAria, Request
<1>2. RegistryOK'
  <2>1. CASE Bind(req[h].pid, req[h].aria, req[h].lt)
    BY <1>1, <2>1, BindOK DEF BindShell, RegistryOK
  <2>2. CASE UNCHANGED <<pidToFigaro, pidToLT, figaroPIDs, asked>>
    BY <2>2 DEF BindShell, RegistryOK
  <2> QED BY <2>1, <2>2 DEF BindShell
<1>3. HandlersOK'
  BY ReturnOK DEF BindShell
<1> QED BY <1>2, <1>3 DEF BindShell, AgentsOK, TreeOK, ListingOK, ShellsOK, FilesOK,
                          tree, shells, life, boot

LEMMA KillGetType ==
  ASSUME TypeInv, NEW h \in Handlers, KillGet(h) PROVE TypeInv'
<1> USE DEF TypeInv
<1>1. PICK w \in {"killMark", "remove"} : Goto(h, w)
  BY DEF KillGet
<1>2. HandlerOK(h)'
  BY <1>1 DEF KillGet, Goto, HandlersOK, HandlerOK, OnAria, Restoring
<1>3. HandlersOK'
  BY <1>1, <1>2, GotoOK DEF KillGet, HandlersOK, Places, OnAria
<1> QED BY <1>3, OnlyHandler DEF KillGet

LEMMA KillMarkType ==
  ASSUME TypeInv, NEW h \in Handlers, KillMark(h) PROVE TypeInv'
<1> USE DEF TypeInv
<1>1. pc[h] = "killMark" /\ req[h].aria \in Arias
  BY DEF KillMark, HandlersOK, HandlerOK, OnAria
<1>2. CASE Return(h) /\ UNCHANGED <<killing, agent>>
  BY <1>2, ReturnOK, OnlyHandler DEF KillMark, registry
<1>3. CASE /\ Registered(req[h].aria)
           /\ killing' = killing \cup {req[h].aria} /\ agent' = Cancelled(figaros[req[h].aria])
           /\ mine' = [mine EXCEPT ![h] = figaros[req[h].aria]]
           /\ Goto(h, "killWait") /\ UNCHANGED <<req, lock>>
  <2>1. PICK n \in Agents : n = figaros[req[h].aria]
    BY <1>1, <1>3 DEF Registered, RegistryOK
  <2>2. AgentsOK'
    BY <1>3, <2>1, CancelledOK DEF KillMark, life
  <2>3. /\ mine' \in [Handlers -> Agents \cup {None}] /\ mine'[h] \in Agents
        /\ \A g \in Handlers : g # h => mine'[g] = mine[g]
    BY <1>3, <2>1 DEF HandlersOK
  <2>4. HandlerOK(h)'
    BY <1>1, <1>3, <2>3 DEF Goto, HandlersOK, HandlerOK, OnAria, Restoring
  <2>5. HandlersOK'
    BY <1>3, <2>3, <2>4, GotoOK DEF HandlersOK, Places, OnAria
  <2>6. RegistryOK'
    BY <1>1, <1>3 DEF KillMark, RegistryOK
  <2> QED BY <2>2, <2>5, <2>6 DEF KillMark, TreeOK, ListingOK, ShellsOK, FilesOK,
                                  tree, shells, life, boot
<1> QED BY <1>2, <1>3 DEF KillMark

LEMMA KillWaitType ==
  ASSUME TypeInv, NEW h \in Handlers, KillWait(h) PROVE TypeInv'
<1> USE DEF TypeInv
<1>1. req[h].aria \in Arias /\ Goto(h, "remove") /\ UNCHANGED <<req, mine, lock>>
  BY DEF KillWait, HandlersOK, HandlerOK, OnAria
<1>2. HandlerOK(h)'
  BY <1>1 DEF Goto, HandlersOK, HandlerOK, OnAria, Restoring
<1>3. HandlersOK'
  BY <1>1, <1>2, GotoOK DEF HandlersOK, Places, OnAria
<1>4. RegistryOK'
  BY <1>1, UnpublishOK DEF KillWait
<1> QED BY <1>3, <1>4 DEF KillWait, AgentsOK, TreeOK, ListingOK, ShellsOK, FilesOK,
                          tree, shells, life, boot

LEMMA RemoveAriaType ==
  ASSUME TypeInv, NEW h \in Handlers, RemoveAria(h) PROVE TypeInv'
<1> USE DEF TypeInv
<1>1. HandlersOK'
  BY ReturnOK DEF RemoveAria
<1>2. stored' \subseteq stored /\ UNCHANGED minted
  BY DEF RemoveAria
<1>3. TreeOK'
  BY <1>2 DEF TreeOK
<1> QED BY <1>1, <1>3 DEF RemoveAria, RegistryOK, AgentsOK, ListingOK, ShellsOK, FilesOK,
                          registry, shells, life, boot

LEMMA ForkGetType ==
  ASSUME TypeInv, NEW h \in Handlers, ForkGet(h) PROVE TypeInv'
<1> USE DEF TypeInv
<1>1. PICK c \in Arias : mine' = [mine EXCEPT ![h] = figaros[c]]
  BY DEF ForkGet, HandlersOK, HandlerOK, OnAria
<1>2. /\ mine' \in [Handlers -> Agents \cup {None}]
      /\ \A g \in Handlers : g # h => mine'[g] = mine[g]
  BY <1>1 DEF HandlersOK, RegistryOK
<1>3. Goto(h, "fork") /\ UNCHANGED <<req, lock>> /\ pc[h] = "forkGet"
  BY DEF ForkGet
<1>4. HandlerOK(h)'
  BY <1>3 DEF Goto, HandlersOK, HandlerOK, OnAria, Restoring
<1>5. HandlersOK'
  BY <1>2, <1>3, <1>4, GotoOK DEF HandlersOK, Places, OnAria
<1> QED BY <1>5, OnlyHandler DEF ForkGet

LEMMA ForkType ==
  ASSUME TypeInv, NEW h \in Handlers, Fork(h) PROVE TypeInv'
<1> USE DEF TypeInv
<1>1. HandlersOK'
  BY ReturnOK DEF Fork
<1>2. TreeOK'
  BY DEF Fork, Mint, TreeOK, tree
<1> QED BY <1>1, <1>2 DEF Fork, RegistryOK, AgentsOK, ListingOK, ShellsOK, FilesOK,
                          registry, shells, life, boot

\* A finite set as a sequence: its elements and no other.
LEMMA SetToSeqOK ==
  ASSUME NEW S, IsFiniteSet(S)
  PROVE  SetToSeq(S) \in Seq(S) /\ Range(SetToSeq(S)) = S
<1>1. Cardinality(S) \in Nat /\ ExistsBijection(1..Cardinality(S), S)
  BY FS_CardinalityType
<1>2. \E f \in [1..Cardinality(S) -> S] : IsInjective(f)
  BY <1>1 DEF ExistsBijection, Bijection, Injection
<1>3. /\ SetToSeq(S) \in [1..Cardinality(S) -> S]
      /\ IsInjective(SetToSeq(S))
  BY <1>2 DEF SetToSeq
<1>4. SetToSeq(S) \in Injection(1..Cardinality(S), S)
  BY <1>3 DEF Injection
<1>5. IsFiniteSet(1..Cardinality(S)) /\ Cardinality(1..Cardinality(S)) = Cardinality(S)
  BY <1>1, FS_Interval
<1>6. SetToSeq(S) \in Surjection(1..Cardinality(S), S)
  BY <1>4, <1>5, FS_Injection
<1>7. Range(SetToSeq(S)) = S
  BY <1>6, Fun_SurjectionProperties
<1>8. SetToSeq(S) \in Seq(S)
  BY <1>1, <1>3, SeqDef
<1> QED BY <1>7, <1>8

\* The entries SaveBindings takes from one aria.
EntriesOf(a) == {[pid |-> p, aria |-> a, start |-> procs[p]] : p \in figaroPIDs[a]}

LEMMA EntriesOfOK ==
  ASSUME TypeInv, NEW a \in Arias
  PROVE  /\ SetToSeq(EntriesOf(a)) \in Seq(Entry)
         /\ Range(SetToSeq(EntriesOf(a))) = EntriesOf(a)
<1>1. figaroPIDs[a] \subseteq Pids /\ IsFiniteSet(figaroPIDs[a])
  BY AngelusAssumption, FS_Subset DEF TypeInv, RegistryOK
<1>2. EntriesOf(a) \subseteq Entry
  BY <1>1 DEF EntriesOf, Entry, TypeInv, ShellsOK
<1>3. IsFiniteSet(EntriesOf(a))
  <2> DEFINE f == [p \in figaroPIDs[a] |-> [pid |-> p, aria |-> a, start |-> procs[p]]]
  <2>1. f \in [figaroPIDs[a] -> EntriesOf(a)] /\ \A e \in EntriesOf(a) : \E p \in figaroPIDs[a] : f[p] = e
    BY DEF EntriesOf
  <2> HIDE DEF f
  <2>2. f \in Surjection(figaroPIDs[a], EntriesOf(a))
    BY <2>1, Fun_IsSurj
  <2> QED BY <1>1, <2>2, FS_Surjection
<1>4. SetToSeq(EntriesOf(a)) \in Seq(EntriesOf(a)) /\ Range(SetToSeq(EntriesOf(a))) = EntriesOf(a)
  BY <1>3, SetToSeqOK
<1> QED BY <1>2, <1>4

LEMMA SaveListType ==
  ASSUME TypeInv, NEW h \in Handlers, SaveList(h) PROVE TypeInv'
<1> USE DEF TypeInv
<1>1. Goto(h, "saveAria") /\ UNCHANGED <<req, mine, lock>>
  BY DEF SaveList
<1>2. HandlerOK(h)'
  BY <1>1 DEF Goto, HandlersOK, HandlerOK, OnAria, Restoring
<1>3. HandlersOK'
  BY <1>1, <1>2, GotoOK DEF HandlersOK, Places
<1>4. FilesOK'
  <2>1. [left |-> {a \in Arias : Registered(a)}, entries |-> <<>>, was |-> pidToFigaro] \in
          [left : SUBSET Arias, entries : Seq(Entry), was : [Pids -> Arias \cup {None}]]
    BY DEF RegistryOK
  <2> QED BY <2>1 DEF SaveList, FilesOK, boot
<1> QED BY <1>3, <1>4 DEF SaveList, RegistryOK, AgentsOK, TreeOK, ListingOK, ShellsOK,
                          registry, tree, shells, life, boot

\* One aria's pids are added to the entries of the save.
LEMMA SaveAriaStep ==
  ASSUME TypeInv, NEW h \in Handlers, SaveAria(h)
  PROVE  \E a \in saving[h].left :
           /\ a \in Arias
           /\ saving' = [saving EXCEPT ![h] =
                           [left |-> saving[h].left \ {a},
                            entries |-> saving[h].entries \o SetToSeq(EntriesOf(a)),
                            was |-> saving[h].was]]
<1>1. PICK a \in saving[h].left :
        saving' = [saving EXCEPT ![h].left = @ \ {a}, ![h].entries = @ \o SetToSeq(EntriesOf(a))]
  BY DEF SaveAria, EntriesOf
<1>2. saving[h] \in [left : SUBSET Arias, entries : Seq(Entry), was : [Pids -> Arias \cup {None}]]
  BY DEF TypeInv, FilesOK
<1>3. a \in Arias
  BY <1>2
<1>4. saving' = [saving EXCEPT ![h] =
                   [left |-> saving[h].left \ {a},
                    entries |-> saving[h].entries \o SetToSeq(EntriesOf(a)),
                    was |-> saving[h].was]]
  <2>1. PICK e : e = SetToSeq(EntriesOf(a))
    OBVIOUS
  <2>2. saving' = [saving EXCEPT ![h] = [[saving[h] EXCEPT !.left = saving[h].left \ {a}]
                                           EXCEPT !.entries = saving[h].entries \o e]]
    BY <1>1, <1>2, <2>1 DEF TypeInv, FilesOK
  <2>3. PICK r \in [left : SUBSET Arias, entries : Seq(Entry), was : [Pids -> Arias \cup {None}]] :
          r = saving[h]
    BY <1>2
  <2>4. PICK q : q = [r EXCEPT !.left = r.left \ {a}]
    OBVIOUS
  <2>5. q = [left |-> r.left \ {a}, entries |-> r.entries, was |-> r.was]
    BY <2>4
  <2>9. q \in [left : SUBSET Arias, entries : Seq(Entry), was : [Pids -> Arias \cup {None}]]
    BY <2>5
  <2>6. q.left = r.left \ {a} /\ q.was = r.was /\ q.entries = r.entries
    BY <2>5
  <2>7. [q EXCEPT !.entries = q.entries \o e]
          = [left |-> q.left, entries |-> q.entries \o e, was |-> q.was]
    <3>1. PICK x : x = q.entries \o e
      OBVIOUS
    <3>2. [q EXCEPT !.entries = x] = [left |-> q.left, entries |-> x, was |-> q.was]
      BY <2>9
    <3> QED BY <3>1, <3>2
  <2>8. saving' = [saving EXCEPT ![h] = [q EXCEPT !.entries = q.entries \o e]]
    BY <2>2, <2>3, <2>4, <2>6
  <2> QED BY <2>1, <2>3, <2>6, <2>7, <2>8
<1> QED BY <1>3, <1>4

LEMMA SaveAriaType ==
  ASSUME TypeInv, NEW h \in Handlers, SaveAria(h) PROVE TypeInv'
<1> USE DEF TypeInv
<1>1. PICK a \in saving[h].left :
           /\ a \in Arias
           /\ saving' = [saving EXCEPT ![h] =
                           [left |-> saving[h].left \ {a},
                            entries |-> saving[h].entries \o SetToSeq(EntriesOf(a)),
                            was |-> saving[h].was]]
  BY SaveAriaStep
<1>2. saving[h] \in [left : SUBSET Arias, entries : Seq(Entry), was : [Pids -> Arias \cup {None}]]
  BY DEF FilesOK
<1>3. saving[h].entries \o SetToSeq(EntriesOf(a)) \in Seq(Entry)
  BY <1>1, <1>2, EntriesOfOK, ConcatProperties
<1>4. saving' \in [Handlers -> [left : SUBSET Arias, entries : Seq(Entry),
                                was : [Pids -> Arias \cup {None}]]]
  BY <1>1, <1>2, <1>3 DEF FilesOK
<1>5. UNCHANGED <<listing, registry, tree, shells, life, boot, agent, reaping, asked, pc, req, mine, lock>>
  BY DEF SaveAria
<1>6. FilesOK'
  BY <1>4, <1>5 DEF FilesOK, boot
<1>7. HandlersOK'
  BY <1>5 DEF HandlersOK, HandlerOK
<1> QED BY <1>5, <1>6, <1>7 DEF RegistryOK, AgentsOK, TreeOK, ListingOK, ShellsOK,
                          registry, tree, shells, life, boot

LEMMA SaveWriteType ==
  ASSUME TypeInv, NEW h \in Handlers, SaveWrite(h) PROVE TypeInv'
<1> USE DEF TypeInv
<1>1. HandlersOK'
  BY ReturnOK DEF SaveWrite
<1>2. saving[h] \in [left : SUBSET Arias, entries : Seq(Entry), was : [Pids -> Arias \cup {None}]]
  BY DEF FilesOK
<1>3. \A p \in Pids : Saved(h, p) \subseteq Entry
  BY <1>2 DEF Saved, Range
<1>4. kept' \in [Pids -> Entry \cup {None}]
  BY <1>3 DEF SaveWrite
<1>5. NoSave \in [left : SUBSET Arias, entries : Seq(Entry), was : [Pids -> Arias \cup {None}]]
  BY DEF NoSave
<1>6. FilesOK'
  BY <1>2, <1>4, <1>5 DEF SaveWrite, FilesOK
<1> QED BY <1>1, <1>6 DEF SaveWrite, RegistryOK, AgentsOK, TreeOK, ListingOK, ShellsOK,
                          registry, tree, shells, life

Listed == [live : SUBSET Arias, dormant : SUBSET Arias, pids : [Arias -> SUBSET Pids],
           was : SUBSET Arias]

\* A list's next look at the registry or at the tree.
LEMMA ListStep ==
  ASSUME TypeInv, NEW h \in Handlers, NEW w \in {"listPids", "listTree", "listed"}, Goto(h, w),
         NEW l \in Listed, listing' = [listing EXCEPT ![h] = l],
         UNCHANGED <<registry, tree, shells, life, boot, agent, reaping, asked, req, mine, saving, lock>>
  PROVE  TypeInv'
<1> USE DEF TypeInv
<1>1. HandlerOK(h)'
  BY DEF Goto, HandlersOK, HandlerOK, OnAria, Restoring
<1>2. HandlersOK'
  BY <1>1, GotoOK DEF HandlersOK, Places
<1>3. ListingOK'
  BY DEF ListingOK, Listed
<1> QED BY <1>2, <1>3 DEF RegistryOK, AgentsOK, TreeOK, ShellsOK, FilesOK,
                          registry, tree, shells, life, boot

\* What each look adds to the answer.
LEMMA ListLiveStep ==
  ASSUME TypeInv, NEW h \in Handlers, ListLive(h)
  PROVE  listing' = [listing EXCEPT ![h] =
                       [live |-> {a \in Arias : Registered(a)}, dormant |-> listing[h].dormant,
                        pids |-> listing[h].pids, was |-> stored]]
<1>1. PICK l \in Listed : l = listing[h]
  BY DEF TypeInv, ListingOK, Listed
<1>2. PICK q : q = [l EXCEPT !.live = {a \in Arias : Registered(a)}]
  OBVIOUS
<1>3. q = [live |-> {a \in Arias : Registered(a)}, dormant |-> l.dormant, pids |-> l.pids, was |-> l.was]
  BY <1>2 DEF Listed
<1>4. q \in Listed
  BY <1>3 DEF Listed
<1>5. q.live = {a \in Arias : Registered(a)} /\ q.dormant = l.dormant /\ q.pids = l.pids
  BY <1>3
<1>6. [q EXCEPT !.was = stored] = [live |-> q.live, dormant |-> q.dormant, pids |-> q.pids, was |-> stored]
  BY <1>4 DEF Listed
<1>7. listing' = [listing EXCEPT ![h] = [q EXCEPT !.was = stored]]
  BY <1>1, <1>2 DEF ListLive, TypeInv, ListingOK
<1> QED BY <1>1, <1>5, <1>6, <1>7

LEMMA ListPidsStep ==
  ASSUME TypeInv, NEW h \in Handlers, BoundPIDsByFigaro(h)
  PROVE  listing' = [listing EXCEPT ![h] =
                       [live |-> listing[h].live, dormant |-> listing[h].dormant,
                        pids |-> figaroPIDs, was |-> listing[h].was]]
<1>1. PICK l \in Listed : l = listing[h]
  BY DEF TypeInv, ListingOK, Listed
<1>2. [l EXCEPT !.pids = figaroPIDs]
        = [live |-> l.live, dormant |-> l.dormant, pids |-> figaroPIDs, was |-> l.was]
  BY DEF Listed
<1>3. listing' = [listing EXCEPT ![h] = [l EXCEPT !.pids = figaroPIDs]]
  BY <1>1 DEF BoundPIDsByFigaro, TypeInv, ListingOK
<1> QED BY <1>1, <1>2, <1>3

LEMMA ListTreeStep ==
  ASSUME TypeInv, NEW h \in Handlers, ListTree(h)
  PROVE  listing' = [listing EXCEPT ![h] =
                       [live |-> listing[h].live, dormant |-> stored \ listing[h].live,
                        pids |-> listing[h].pids, was |-> listing[h].was]]
<1>1. PICK l \in Listed : l = listing[h]
  BY DEF TypeInv, ListingOK, Listed
<1>2. [l EXCEPT !.dormant = stored \ l.live]
        = [live |-> l.live, dormant |-> stored \ l.live, pids |-> l.pids, was |-> l.was]
  <2>1. PICK x : x = stored \ l.live
    OBVIOUS
  <2>2. [l EXCEPT !.dormant = x] = [live |-> l.live, dormant |-> x, pids |-> l.pids, was |-> l.was]
    BY DEF Listed
  <2> QED BY <2>1, <2>2
<1>3. listing' = [listing EXCEPT ![h] = [l EXCEPT !.dormant = stored \ l.live]]
  BY <1>1 DEF ListTree, TypeInv, ListingOK
<1> QED BY <1>1, <1>2, <1>3

LEMMA ListLiveType ==
  ASSUME TypeInv, NEW h \in Handlers, ListLive(h) PROVE TypeInv'
<1>1. [live |-> {a \in Arias : Registered(a)}, dormant |-> listing[h].dormant,
       pids |-> listing[h].pids, was |-> stored] \in Listed
  BY DEF TypeInv, ListingOK, TreeOK, Listed
<1> QED BY <1>1, ListLiveStep, ListStep DEF ListLive

LEMMA ListPidsType ==
  ASSUME TypeInv, NEW h \in Handlers, BoundPIDsByFigaro(h) PROVE TypeInv'
<1>1. [live |-> listing[h].live, dormant |-> listing[h].dormant,
       pids |-> figaroPIDs, was |-> listing[h].was] \in Listed
  BY DEF TypeInv, ListingOK, RegistryOK, Listed
<1> QED BY <1>1, ListPidsStep, ListStep DEF BoundPIDsByFigaro

LEMMA ListTreeType ==
  ASSUME TypeInv, NEW h \in Handlers, ListTree(h) PROVE TypeInv'
<1>1. [live |-> listing[h].live, dormant |-> stored \ listing[h].live,
       pids |-> listing[h].pids, was |-> listing[h].was] \in Listed
  BY DEF TypeInv, ListingOK, TreeOK, Listed
<1> QED BY <1>1, ListTreeStep, ListStep DEF ListTree

LEMMA ListAnswerType ==
  ASSUME TypeInv, NEW h \in Handlers, ListAnswer(h) PROVE TypeInv'
<1> USE DEF TypeInv
<1>1. HandlersOK'
  BY ReturnOK DEF ListAnswer
<1>2. NoList \in Listed
  BY DEF NoList, Listed
<1>3. ListingOK'
  BY <1>2 DEF ListAnswer, ListingOK, Listed
<1> QED BY <1>1, <1>3 DEF ListAnswer, RegistryOK, AgentsOK, TreeOK, ShellsOK, FilesOK,
                          registry, tree, shells, life, boot

LEMMA StepType ==
  ASSUME TypeInv, NEW h \in Handlers, Step(h) PROVE TypeInv'
  BY ListLiveType, ListPidsType, ListTreeType, ListAnswerType, SpawnType, SeedType, LookupType,
     LockType, OpenType, BuildType, AdmitType, EnterType, DiscardType, BindShellType, KillGetType,
     KillMarkType, KillWaitType, RemoveAriaType, ForkGetType, ForkType, SaveListType, SaveAriaType,
     SaveWriteType DEF Step

\* A request: the operations about an aria name one, and a bind names a shell.
LEMMA AcceptType ==
  ASSUME TypeInv, NEW h \in Handlers, NEW r \in Requests, Accept(h, r) PROVE TypeInv'
<1> USE DEF TypeInv
<1>1. /\ r \in Request
      /\ r.op \notin {"create", "save", "list"} => r.aria \in Arias
      /\ r.op = "bind" => r.pid \in Pids
      /\ r.op \in {"create", "attach", "bind", "kill", "fork", "save", "list"}
  BY DEF Requests, Request
<1>2. /\ pc' = [pc EXCEPT ![h] = FirstStep(r.op)] /\ req' = [req EXCEPT ![h] = r]
      /\ UNCHANGED <<mine, lock>>
  BY DEF Accept
<1>3. /\ FirstStep(r.op) \in Places
      /\ r.op = "create" => FirstStep(r.op) = "spawn"
      /\ r.op \in {"attach", "bind"} => FirstStep(r.op) = "lookup"
      /\ r.op = "kill" => FirstStep(r.op) = "killGet"
      /\ r.op = "fork" => FirstStep(r.op) = "forkGet"
      /\ r.op = "save" => FirstStep(r.op) = "saveList"
      /\ r.op = "list" => FirstStep(r.op) = "listLive"
  BY <1>1 DEF FirstStep, Places, OnAria
<1>4. pc' \in [Handlers -> Places] /\ req' \in [Handlers -> Request]
  BY <1>1, <1>2, <1>3 DEF HandlersOK
<1>5. \A g \in Handlers : g # h => HandlerOK(g)'
  BY <1>2 DEF HandlersOK, HandlerOK
<1>6. pc'[h] = FirstStep(r.op) /\ req'[h] = r
  BY <1>2 DEF HandlersOK
<1>7. HandlerOK(h)'
  BY <1>1, <1>3, <1>6 DEF HandlerOK, OnAria, Restoring
<1>8. HandlersOK'
  BY <1>2, <1>4, <1>5, <1>7 DEF HandlersOK
<1> QED BY <1>8, OnlyHandler DEF Accept

\* A step that touches no handler and no save or list in progress.
LEMMA NoHandler ==
  ASSUME TypeInv, UNCHANGED <<pc, req, mine, lock, saving, listing>>
  PROVE  HandlersOK' /\ ListingOK'
  BY DEF TypeInv, HandlersOK, HandlerOK, ListingOK

LEMMA UnbindType ==
  ASSUME TypeInv, NEW p \in Pids, RequestUnbind(p) PROVE TypeInv'
<1> USE DEF TypeInv
<1>1. HandlersOK' /\ ListingOK'
  BY NoHandler DEF RequestUnbind
<1>2. RegistryOK'
  BY UnbindOK DEF RequestUnbind, RegistryOK
<1> QED BY <1>1, <1>2 DEF RequestUnbind, AgentsOK, TreeOK, ShellsOK, FilesOK,
                          tree, shells, life, boot

LEMMA PromoteType ==
  ASSUME TypeInv, NEW a \in Arias, Promote(a) PROVE TypeInv'
<1> USE DEF TypeInv
<1>1. HandlersOK' /\ ListingOK'
  BY NoHandler DEF Promote
<1> QED BY <1>1 DEF Promote, RegistryOK, AgentsOK, TreeOK, ShellsOK, FilesOK,
                    registry, shells, life, boot

LEMMA AgentExitType ==
  ASSUME TypeInv, NEW n \in Agents, AgentExit(n) PROVE TypeInv'
<1> USE DEF TypeInv
<1>1. HandlersOK' /\ ListingOK'
  BY NoHandler DEF AgentExit, handler
<1>2. AgentsOK'
  BY DEF AgentExit, AgentsOK, AgentState, life
<1> QED BY <1>1, <1>2 DEF AgentExit, RegistryOK, TreeOK, ShellsOK, FilesOK,
                    registry, tree, shells, life, boot, handler

LEMMA ShellType ==
  ASSUME TypeInv, NEW p \in Pids, ShellExits(p) \/ ShellStarts(p) PROVE TypeInv'
<1> USE DEF TypeInv
<1>1. HandlersOK' /\ ListingOK'
  BY NoHandler DEF ShellExits, ShellStarts, handler
<1>2. ShellsOK'
  BY AngelusAssumption DEF ShellExits, ShellStarts, ShellsOK
<1> QED BY <1>1, <1>2 DEF ShellExits, ShellStarts, RegistryOK, AgentsOK, TreeOK, FilesOK,
                    registry, tree, life, boot, handler

LEMMA ReapType ==
  ASSUME TypeInv, Reap PROVE TypeInv'
<1> USE DEF TypeInv
<1>1. HandlersOK' /\ ListingOK'
  BY NoHandler DEF Reap, ReapList, ReapOne, handler
<1>2. RegistryOK'
  <2>1. ASSUME NEW p \in Pids, ReapOne(p) PROVE RegistryOK'
    BY <2>1, UnbindOK DEF ReapOne, RegistryOK
  <2> QED BY <2>1 DEF Reap, ReapList, RegistryOK, registry
<1>3. ShellsOK'
  BY DEF Reap, ReapList, ReapOne, ShellsOK, shells
<1> QED BY <1>1, <1>2, <1>3 DEF Reap, ReapList, ReapOne, AgentsOK, TreeOK, FilesOK,
                                tree, life, boot, handler

LEMMA SignalType ==
  ASSUME TypeInv, Signal PROVE TypeInv'
<1> USE DEF TypeInv
<1>1. HandlersOK' /\ ListingOK'
  BY NoHandler DEF Signal, handler
<1> QED BY <1>1 DEF Signal, RegistryOK, AgentsOK, TreeOK, ShellsOK, FilesOK,
                    registry, tree, shells, boot, handler

LEMMA DrainListType ==
  ASSUME TypeInv, DrainList PROVE TypeInv'
<1> USE DEF TypeInv
<1>1. HandlersOK' /\ ListingOK'
  BY NoHandler DEF DrainList, handler
<1>2. AgentsOK'
  <2>1. \A a \in Arias : Registered(a) => figaros[a] \in Agents
    BY DEF Registered, RegistryOK
  <2> QED BY <2>1 DEF DrainList, AgentsOK, DrainState, NoDrain
<1> QED BY <1>1, <1>2 DEF DrainList, RegistryOK, TreeOK, ShellsOK, FilesOK,
                    registry, tree, shells, boot, handler

LEMMA DrainKillType ==
  ASSUME TypeInv, NEW a \in Arias, DrainKill(a) PROVE TypeInv'
<1> USE DEF TypeInv
<1>1. HandlersOK' /\ ListingOK'
  BY NoHandler DEF DrainKill, handler
<1>2. RegistryOK'
  BY DEF DrainKill, RegistryOK
<1>3. AgentsOK'
  <2>1. CASE drainer' = [drainer EXCEPT ![a] = NoDrain] /\ UNCHANGED agent
    BY <2>1 DEF AgentsOK, NoDrain, DrainState
  <2>2. CASE /\ Registered(a) /\ agent' = Cancelled(figaros[a])
             /\ drainer' = [drainer EXCEPT ![a] = [st |-> "kill", agent |-> figaros[a]]]
    <3>1. PICK n \in Agents : n = figaros[a]
      BY <2>2 DEF Registered, RegistryOK
    <3>2. agent' \in [Agents -> [aria : Arias \cup {None}, st : AgentState]]
      BY <2>2, <3>1 DEF AgentsOK, Cancelled, AgentState
    <3> QED BY <2>2, <3>1, <3>2 DEF AgentsOK, DrainState
  <2> QED BY <2>1, <2>2 DEF DrainKill
<1> QED BY <1>1, <1>2, <1>3 DEF DrainKill, TreeOK, ShellsOK, FilesOK, tree, shells, boot, handler

LEMMA DrainUnpublishType ==
  ASSUME TypeInv, NEW a \in Arias, DrainUnpublish(a) PROVE TypeInv'
<1> USE DEF TypeInv
<1>1. HandlersOK' /\ ListingOK'
  BY NoHandler DEF DrainUnpublish, handler
<1>2. RegistryOK'
  BY UnpublishOK DEF DrainUnpublish
<1>3. AgentsOK'
  BY DEF DrainUnpublish, AgentsOK, NoDrain, DrainState
<1> QED BY <1>1, <1>2, <1>3 DEF DrainUnpublish, TreeOK, ShellsOK, FilesOK, tree, shells, boot, handler

LEMMA DrainAbandonType ==
  ASSUME TypeInv, NEW a \in Arias, DrainAbandon(a) PROVE TypeInv'
<1> USE DEF TypeInv
<1>1. HandlersOK' /\ ListingOK'
  BY NoHandler DEF DrainAbandon, handler
<1>2. AgentsOK'
  BY DEF DrainAbandon, AgentsOK, DrainState
<1> QED BY <1>1, <1>2 DEF DrainAbandon, RegistryOK, TreeOK, ShellsOK, FilesOK,
                          registry, tree, shells, boot, handler

LEMMA CloseStoreType ==
  ASSUME TypeInv, CloseStore PROVE TypeInv'
<1> USE DEF TypeInv
<1>1. HandlersOK' /\ ListingOK'
  BY NoHandler DEF CloseStore, handler
<1> QED BY <1>1 DEF CloseStore, RegistryOK, AgentsOK, TreeOK, ShellsOK, FilesOK,
                    registry, shells, boot, handler

\* A daemon that is gone: nothing is in progress.
LEMMA WipedType ==
  ASSUME TypeInv, Wiped, UNCHANGED <<stored, minted, shells, file, kept>> PROVE TypeInv'
<1> USE DEF TypeInv
<1>1. RegistryOK' /\ ShellsOK' /\ TreeOK'
  BY DEF Wiped, RegistryOK, ShellsOK, TreeOK, shells
<1>2. AgentsOK'
  BY DEF Wiped, AgentsOK, Unborn, NoDrain, AgentState, DrainState
<1>3. NoRequest \in Request
  BY DEF NoRequest, Request
<1>4. HandlersOK'
  <2>1. \A h \in Handlers : HandlerOK(h)'
    BY DEF Wiped, HandlerOK, OnAria, Restoring, NoRequest
  <2> QED BY <1>3, <2>1 DEF Wiped, HandlersOK, Places
<1>5. NoList \in Listed
  BY DEF NoList, Listed
<1>6. ListingOK'
  BY <1>5 DEF Wiped, ListingOK, Listed
<1>7. NoSave \in [left : SUBSET Arias, entries : Seq(Entry), was : [Pids -> Arias \cup {None}]]
  BY DEF NoSave
<1>8. FilesOK'
  BY <1>7 DEF Wiped, FilesOK
<1> QED BY <1>1, <1>2, <1>4, <1>6, <1>8

LEMMA StartType ==
  ASSUME TypeInv, Start \/ RestoreDone PROVE TypeInv'
<1> USE DEF TypeInv
<1>1. HandlersOK' /\ ListingOK'
  BY NoHandler DEF Start, RestoreDone, handler
<1> QED BY <1>1 DEF Start, RestoreDone, RegistryOK, AgentsOK, TreeOK, ShellsOK, FilesOK,
                    registry, tree, shells, handler

LEMMA RestoreNextType ==
  ASSUME TypeInv, RestoreNext PROVE TypeInv'
<1> USE DEF TypeInv
<1>1. HandlersOK' /\ ListingOK'
  BY NoHandler DEF RestoreNext, handler
<1>2. Head(todo) \in Entry /\ todo' \in Seq(Entry)
  BY HeadTailProperties DEF RestoreNext, FilesOK
<1>3. PICK e \in Entry : e = Head(todo)
  BY <1>2
<1>4. e.pid \in Pids /\ e.aria \in Arias
  BY DEF Entry
<1>5. CASE UNCHANGED <<registry, agent, asked>>
  BY <1>1, <1>2, <1>5 DEF RestoreNext, RegistryOK, AgentsOK, TreeOK, ShellsOK, FilesOK,
                          registry, tree, shells, life, handler
<1>6. CASE /\ \E n \in Agents : /\ agent' \in {agent, Started(n, e.aria)}
                                /\ figaros' = [figaros EXCEPT ![e.aria] = n]
           /\ Bind(e.pid, e.aria, 0) /\ UNCHANGED killing
  <2>1. PICK n \in Agents : /\ agent' \in {agent, Started(n, e.aria)}
                            /\ figaros' = [figaros EXCEPT ![e.aria] = n]
    BY <1>6
  <2>2. AgentsOK'
    BY <1>4, <2>1, StartedOK DEF RestoreNext, AgentsOK, life
  <2>3. /\ pidToFigaro' \in [Pids -> Arias \cup {None}] /\ pidToLT' \in [Pids -> {0, 1}]
        /\ figaroPIDs' \in [Arias -> SUBSET Pids] /\ asked' \in [Pids -> {0, 1}]
    BY <1>4, <1>6, BindOK
  <2>4. RegistryOK'
    BY <1>4, <1>6, <2>1, <2>3 DEF RegistryOK
  <2> QED BY <1>1, <1>2, <2>2, <2>4 DEF RestoreNext, TreeOK, ShellsOK, FilesOK,
                                        tree, shells, life, handler
<1> QED BY <1>3, <1>5, <1>6 DEF RestoreNext

LEMMA NextType ==
  ASSUME TypeInv, Next PROVE TypeInv'
<1>1. ASSUME Exit \/ Crash PROVE TypeInv'
  BY <1>1, WipedType DEF Exit, Crash
<1> QED BY <1>1, StepType, AcceptType, UnbindType, ShellType, PromoteType, DrainAbandonType,
           AgentExitType, ReapType, SignalType, DrainListType, DrainKillType, DrainUnpublishType,
           CloseStoreType, StartType, RestoreNextType
     DEF Next, SomeExit, Drain, Restart

\* Every agent of the first daemon serves one of the arias it knows.
LEMMA InitType ==
  ASSUME Init PROVE TypeInv
<1>1. PICK f \in [Known -> 1..Cardinality(Known)] :
       /\ figaros = [a \in Arias |-> IF a \in Known THEN f[a] ELSE None]
       /\ agent = [n \in Agents |->
                     IF n \in Range(f) THEN [aria |-> CHOOSE a \in Known : f[a] = n, st |-> "live"]
                     ELSE Unborn]
  BY DEF Init
<1>2. Cardinality(Known) \in Nat /\ 1..Cardinality(Known) \subseteq Agents
  BY AngelusAssumption, FS_Subset, FS_CardinalityType DEF Agents
<1>3. RegistryOK
  BY <1>1, <1>2, AngelusAssumption DEF Init, RegistryOK
<1>4. \A n \in Range(f) : (CHOOSE a \in Known : f[a] = n) \in Arias
  BY AngelusAssumption DEF Range
<1>5. AgentsOK
  <2>1. agent \in [Agents -> [aria : Arias \cup {None}, st : AgentState]]
    <3>1. Unborn \in [aria : Arias \cup {None}, st : AgentState]
      BY DEF Unborn, AgentState
    <3>2. ASSUME NEW n \in Agents PROVE agent[n] \in [aria : Arias \cup {None}, st : AgentState]
      BY <1>1, <1>4, <3>1 DEF AgentState
    <3> QED BY <1>1, <3>2
  <2>2. drainer \in [Arias -> [st : DrainState, agent : Agents \cup {None}]]
    BY DEF Init, NoDrain, DrainState
  <2>3. \A a \in Arias : drainer[a].st = "none"
    BY DEF Init, NoDrain
  <2> QED BY <2>1, <2>2, <2>3 DEF AgentsOK
<1>6. TreeOK /\ ShellsOK
  BY AngelusAssumption DEF Init, TreeOK, ShellsOK
<1>7. NoRequest \in Request
  BY DEF NoRequest, Request
<1>8. HandlersOK
  <2>1. \A h \in Handlers : HandlerOK(h)
    BY DEF Init, HandlerOK, OnAria, Restoring, NoRequest
  <2> QED BY <1>7, <2>1 DEF Init, HandlersOK, Places
<1>9. NoList \in Listed
  BY DEF NoList, Listed
<1>10. ListingOK
  BY <1>9 DEF Init, ListingOK, Listed
<1>11. NoSave \in [left : SUBSET Arias, entries : Seq(Entry), was : [Pids -> Arias \cup {None}]]
  BY DEF NoSave
<1>12. FilesOK
  BY <1>11 DEF Init, FilesOK
<1> QED BY <1>3, <1>5, <1>6, <1>8, <1>10, <1>12 DEF TypeInv

LEMMA TypeInvCorrect == Spec => []TypeInv
<1>1. Init => TypeInv
  BY InitType
<1>2. TypeInv /\ [Next]_vars => TypeInv'
  <2>1. ASSUME TypeInv, UNCHANGED vars PROVE TypeInv'
    BY <2>1 DEF vars, registry, tree, shells, life, boot, handler, TypeInv, RegistryOK, AgentsOK,
            TreeOK, HandlersOK, HandlerOK, ListingOK, ShellsOK, FilesOK
  <2> QED BY <2>1, NextType
<1> QED BY <1>1, <1>2, PTL DEF Spec

-----------------------------------------------------------------------------
(* The registry's maps agree *)

MapsOf == <<figaros, pidToFigaro, pidToLT, figaroPIDs, asked>>

LEMMA MapsUnchanged ==
  ASSUME MapsAgree, UNCHANGED MapsOf PROVE MapsAgree'
  BY DEF MapsAgree, MapsOf, Registered

\* Registry.Bind of an aria that is registered by now.
LEMMA BindMaps ==
  ASSUME RegistryOK, MapsAgree, NEW p \in Pids, NEW a \in Arias, NEW lt \in {0, 1}, Bind(p, a, lt),
         figaros'[a] # None, \A b \in Arias : Registered(b) => figaros'[b] # None
  PROVE  MapsAgree'
<1>1. /\ pidToFigaro' = [pidToFigaro EXCEPT ![p] = a] /\ pidToLT' = [pidToLT EXCEPT ![p] = lt]
      /\ asked' = [asked EXCEPT ![p] = lt]
      /\ figaroPIDs' = [b \in Arias |-> IF b = a THEN figaroPIDs[b] \cup {p}
                          ELSE IF b = pidToFigaro[p] THEN figaroPIDs[b] \ {p} ELSE figaroPIDs[b]]
  BY DEF Bind, Bound
<1>2. ASSUME NEW q \in Pids, NEW b \in Arias PROVE q \in figaroPIDs'[b] <=> pidToFigaro'[q] = b
  BY <1>1, <1>2, AngelusAssumption DEF MapsAgree, RegistryOK
<1>3. ASSUME NEW q \in Pids, pidToFigaro'[q] # None
      PROVE  figaros'[pidToFigaro'[q]] # None /\ pidToLT'[q] = asked'[q]
  BY <1>1, <1>3 DEF MapsAgree, RegistryOK, Registered
<1> QED BY <1>2, <1>3 DEF MapsAgree, Registered

\* Registry.Unbind; the fork point of a pid that is not bound does not matter.
LEMMA UnbindMaps ==
  ASSUME RegistryOK, MapsAgree, NEW p \in Pids, Unbind(p), UNCHANGED <<figaros, asked>>
  PROVE  MapsAgree'
<1>1. CASE pidToFigaro[p] = None
  BY <1>1, MapsUnchanged DEF Unbind, MapsOf
<1>2. CASE pidToFigaro[p] # None
  <2>1. /\ pidToFigaro' = [pidToFigaro EXCEPT ![p] = None] /\ pidToLT' = [pidToLT EXCEPT ![p] = 0]
        /\ figaroPIDs' = [figaroPIDs EXCEPT ![pidToFigaro[p]] = @ \ {p}]
    BY <1>2 DEF Unbind
  <2>2. ASSUME NEW q \in Pids, NEW b \in Arias PROVE q \in figaroPIDs'[b] <=> pidToFigaro'[q] = b
    BY <1>2, <2>1, <2>2, AngelusAssumption DEF MapsAgree, RegistryOK
  <2>3. ASSUME NEW q \in Pids, pidToFigaro'[q] # None
        PROVE  figaros'[pidToFigaro'[q]] # None /\ pidToLT'[q] = asked'[q]
    BY <2>1, <2>3 DEF MapsAgree, RegistryOK, Registered
  <2> QED BY <2>2, <2>3 DEF MapsAgree, Registered
<1> QED BY <1>1, <1>2

\* The second half of Kill forgets the pids of the aria it takes away.
LEMMA UnpublishMaps ==
  ASSUME RegistryOK, MapsAgree, NEW a \in Arias, Unpublish(a), UNCHANGED asked
  PROVE  MapsAgree'
<1>1. /\ pidToFigaro' = [p \in Pids |-> IF p \in figaroPIDs[a] THEN None ELSE pidToFigaro[p]]
      /\ figaroPIDs' = [figaroPIDs EXCEPT ![a] = {}] /\ figaros' = [figaros EXCEPT ![a] = None]
      /\ UNCHANGED pidToLT
  BY DEF Unpublish
<1>2. ASSUME NEW q \in Pids, NEW b \in Arias PROVE q \in figaroPIDs'[b] <=> pidToFigaro'[q] = b
  BY <1>1, <1>2, AngelusAssumption DEF MapsAgree, RegistryOK
<1>3. ASSUME NEW q \in Pids, pidToFigaro'[q] # None
      PROVE  figaros'[pidToFigaro'[q]] # None /\ pidToLT'[q] = asked'[q]
  BY <1>1, <1>3 DEF MapsAgree, RegistryOK, Registered
<1> QED BY <1>2, <1>3 DEF MapsAgree, Registered

LEMMA EnterMaps ==
  ASSUME TypeInv, MapsAgree, NEW h \in Handlers, Enter(h) PROVE MapsAgree'
<1>0. PICK a \in Arias : a = req[h].aria
  BY DEF Enter, TypeInv, HandlersOK, HandlerOK, OnAria, Restoring
<1>1. CASE Registered(a)
  BY <1>0, <1>1, MapsUnchanged DEF Enter, MapsOf
<1>2. CASE ~ Registered(a)
  <2>1. /\ figaros' = [figaros EXCEPT ![a] = mine[h]] /\ figaroPIDs' = [figaroPIDs EXCEPT ![a] = {}]
        /\ UNCHANGED <<pidToFigaro, pidToLT, asked>>
    BY <1>0, <1>2 DEF Enter, Publish
  <2>2. mine[h] # None
    BY AngelusAssumption DEF Enter, TypeInv, HandlersOK, HandlerOK, Agents
  <2>3. \A p \in Pids : pidToFigaro[p] # a
    BY <1>2, AngelusAssumption DEF MapsAgree
  <2>4. ASSUME NEW q \in Pids, NEW b \in Arias PROVE q \in figaroPIDs'[b] <=> pidToFigaro'[q] = b
    BY <2>1, <2>3 DEF MapsAgree, TypeInv, RegistryOK
  <2>5. ASSUME NEW q \in Pids, pidToFigaro'[q] # None
        PROVE  figaros'[pidToFigaro'[q]] # None /\ pidToLT'[q] = asked'[q]
    BY <2>1, <2>2, <2>5 DEF MapsAgree, TypeInv, RegistryOK, Registered
  <2> QED BY <2>4, <2>5 DEF MapsAgree, Registered
<1> QED BY <1>1, <1>2

LEMMA BindShellMaps ==
  ASSUME TypeInv, MapsAgree, NEW h \in Handlers, BindShell(h) PROVE MapsAgree'
<1>1. req[h].aria \in Arias /\ req[h].pid \in Pids /\ req[h].lt \in {0, 1}
  BY DEF BindShell, TypeInv, HandlersOK, HandlerOK, OnAria, Request
<1>2. CASE Registered(req[h].aria)
  <2>1. Bind(req[h].pid, req[h].aria, req[h].lt) /\ UNCHANGED figaros
    BY <1>2 DEF BindShell
  <2> QED BY <1>1, <1>2, <2>1, BindMaps DEF TypeInv, Registered
<1>3. CASE ~ Registered(req[h].aria)
  BY <1>3, MapsUnchanged DEF BindShell, MapsOf
<1> QED BY <1>2, <1>3

LEMMA RestoreNextMaps ==
  ASSUME TypeInv, MapsAgree, RestoreNext PROVE MapsAgree'
<1>1. PICK e \in Entry : e = Head(todo)
  BY HeadTailProperties DEF RestoreNext, TypeInv, FilesOK
<1>2. e.pid \in Pids /\ e.aria \in Arias
  BY DEF Entry
<1>3. CASE UNCHANGED <<registry, agent, asked>>
  BY <1>3, MapsUnchanged DEF MapsOf, registry
<1>4. CASE /\ \E n \in Agents : figaros' = [figaros EXCEPT ![e.aria] = n]
           /\ Bind(e.pid, e.aria, 0)
  <2>1. /\ figaros'[e.aria] # None
        /\ \A b \in Arias : Registered(b) => figaros'[b] # None
    BY <1>2, <1>4, AngelusAssumption DEF TypeInv, RegistryOK, Registered, Agents
  <2> QED BY <1>2, <1>4, <2>1, BindMaps DEF TypeInv
<1> QED BY <1>1, <1>3, <1>4 DEF RestoreNext

LEMMA WipedMaps ==
  ASSUME Wiped PROVE MapsAgree'
  BY AngelusAssumption DEF Wiped, MapsAgree

\* Whatever is bound, unbound, reaped, killed, restored and lost.
LEMMA NextMaps ==
  ASSUME TypeInv, MapsAgree, Next PROVE MapsAgree'
<1> USE MapsUnchanged, AngelusAssumption DEF MapsOf
<1>1. ASSUME NEW h \in Handlers, Step(h) PROVE MapsAgree'
  <2>1. CASE KillWait(h)
    <3>1. req[h].aria \in Arias
      BY <2>1 DEF KillWait, TypeInv, HandlersOK, HandlerOK, OnAria
    <3> QED BY <2>1, <3>1, UnpublishMaps DEF KillWait, TypeInv
  <2>2. CASE ListLive(h) \/ BoundPIDsByFigaro(h) \/ ListTree(h) \/ ListAnswer(h)
    BY <2>2 DEF ListLive, BoundPIDsByFigaro, ListTree, ListAnswer, registry
  <2>3. CASE Spawn(h) \/ Seed(h) \/ Lookup(h) \/ Lock(h) \/ Open(h) \/ Build(h) \/ Admit(h) \/ Discard(h)
    BY <2>3 DEF Spawn, Seed, Lookup, Lock, Open, Build, Admit, Discard, registry
  <2>4. CASE KillGet(h) \/ KillMark(h) \/ RemoveAria(h) \/ ForkGet(h) \/ Fork(h)
    BY <2>4 DEF KillGet, KillMark, RemoveAria, ForkGet, Fork, registry
  <2>5. CASE SaveList(h) \/ SaveAria(h) \/ SaveWrite(h)
    BY <2>5 DEF SaveList, SaveAria, SaveWrite, registry
  <2> QED BY <1>1, <2>1, <2>2, <2>3, <2>4, <2>5, EnterMaps, BindShellMaps DEF Step
<1>2. ASSUME NEW h \in Handlers, NEW r \in Requests, Accept(h, r) PROVE MapsAgree'
  BY <1>2 DEF Accept, registry
<1>3. ASSUME NEW p \in Pids, RequestUnbind(p) PROVE MapsAgree'
  BY <1>3, UnbindMaps DEF RequestUnbind, TypeInv
<1>4. ASSUME NEW p \in Pids, ShellExits(p) \/ ShellStarts(p) PROVE MapsAgree'
  BY <1>4 DEF ShellExits, ShellStarts, registry
<1>5. ASSUME NEW a \in Arias, Promote(a) \/ DrainAbandon(a) PROVE MapsAgree'
  BY <1>5 DEF Promote, DrainAbandon, registry
<1>6. ASSUME SomeExit \/ Signal \/ DrainList \/ CloseStore \/ Start \/ RestoreDone PROVE MapsAgree'
  BY <1>6 DEF SomeExit, AgentExit, Signal, DrainList, CloseStore, Start, RestoreDone, registry
<1>7. ASSUME Reap PROVE MapsAgree'
  <2>1. ASSUME NEW p \in Pids, ReapOne(p) PROVE MapsAgree'
    BY <2>1, UnbindMaps DEF ReapOne, TypeInv
  <2> QED BY <1>7, <2>1 DEF Reap, ReapList, registry
<1>8. ASSUME NEW a \in Arias, DrainKill(a) \/ DrainUnpublish(a) PROVE MapsAgree'
  BY <1>8, UnpublishMaps DEF DrainKill, DrainUnpublish, TypeInv
<1>9. ASSUME Exit \/ Crash PROVE MapsAgree'
  BY <1>9, WipedMaps DEF Exit, Crash
<1> QED BY <1>1, <1>2, <1>3, <1>4, <1>5, <1>6, <1>7, <1>8, <1>9, RestoreNextMaps
        DEF Next, Drain, Restart

-----------------------------------------------------------------------------
(* What a list in progress has seen *)

ListOK(h) ==
  /\ pc[h] \in {"listPids", "listTree", "listed"} => listing[h].was \subseteq minted
  /\ pc[h] = "listed" => listing[h].was \cap stored \subseteq listing[h].live \cup listing[h].dormant
  /\ pc[h] \in {"listTree", "listed"} =>
       \A a, b \in Arias : a # b => listing[h].pids[a] \cap listing[h].pids[b] = {}

ListInv == \A h \in Handlers : ListOK(h)

\* The tree only grows by ids nobody has seen.
TreeStep == minted \subseteq minted' /\ (stored' \ stored) \cap minted = {}

LEMMA MintStep ==
  ASSUME NEW a \in Arias \ minted, NEW above, Mint(a, above)
  PROVE  TreeStep
  BY DEF Mint, TreeStep

\* A list that is not looking keeps what it has.
LEMMA ListKept ==
  ASSUME ListInv, TreeStep, NEW h \in Handlers, listing'[h] = listing[h],
         pc'[h] \in {pc[h], "idle"}
  PROVE  ListOK(h)'
<1>1. ListOK(h)
  BY DEF ListInv
<1>2. CASE pc'[h] = "idle"
  BY <1>2 DEF ListOK
<1>3. CASE pc'[h] = pc[h]
  BY <1>1, <1>3 DEF ListOK, TreeStep
<1> QED BY <1>2, <1>3

LEMMA ListMoves ==
  ASSUME TypeInv, ListInv, TreeStep, NEW h \in Handlers, UNCHANGED listing,
         NEW w \in Places \ {"listPids", "listTree", "listed"}, pc' = [pc EXCEPT ![h] = w]
  PROVE  ListInv'
<1>1. ASSUME NEW g \in Handlers, g # h PROVE ListOK(g)'
  <2>1. pc'[g] = pc[g]
    BY <1>1 DEF TypeInv, HandlersOK
  <2> QED BY <2>1, ListKept
<1>2. ListOK(h)'
  BY DEF ListOK, TypeInv, HandlersOK
<1> QED BY <1>1, <1>2 DEF ListInv

\* The steps of the handlers that are not a list's.
LEMMA StepPlace ==
  ASSUME TypeInv, NEW h \in Handlers, Step(h),
         ~ (ListLive(h) \/ BoundPIDsByFigaro(h) \/ ListTree(h) \/ ListAnswer(h))
  PROVE  /\ \E w \in Places \ {"listPids", "listTree", "listed"} : pc' = [pc EXCEPT ![h] = w]
         /\ UNCHANGED listing
         /\ TreeStep
<1> DEFINE Elsewhere == Places \ {"listPids", "listTree", "listed"}
<1> DEFINE P == \E w \in Elsewhere : pc' = [pc EXCEPT ![h] = w]
<1>0. \A w \in {"idle", "spawn", "saveList", "saveAria"} \cup OnAria : Goto(h, w) => P
  BY DEF Goto, Places, OnAria, Restoring
<1>1. Return(h) => P
  <2>1. "idle" \in Elsewhere
    BY DEF Places
  <2> QED BY <2>1 DEF Return
<1>2. Found(h) => P
  BY <1>0, <1>1 DEF Found, OnAria
<1> HIDE DEF P
<1>3. UNCHANGED <<stored, minted>> => TreeStep
  BY DEF TreeStep
<1>4. CASE Spawn(h)
  <2>1. P
    BY <1>4, <1>0, <1>1 DEF Spawn, OnAria
  <2>2. TreeStep
    BY <1>4, <1>3, MintStep DEF Spawn, tree
  <2> QED BY <1>4, <2>1, <2>2 DEF Spawn, P
<1>5. CASE Fork(h)
  <2>1. P
    BY <1>5, <1>1 DEF Fork
  <2>2. CASE UNCHANGED tree
    BY <1>5, <1>3, <2>1, <2>2 DEF Fork, P, tree
  <2>3. CASE ~ UNCHANGED tree
    <3>1. PICK alt \in Arias \ minted : Mint(alt, OwnerOf(req[h].aria, req[h].lt))
      BY <1>5, <2>3 DEF Fork
    <3> QED BY <1>5, <2>1, <3>1, MintStep DEF Fork, P
  <2> QED BY <2>2, <2>3
<1>6. CASE RemoveAria(h)
  <2>1. P
    BY <1>6, <1>1 DEF RemoveAria
  <2>2. TreeStep
    BY <1>6 DEF RemoveAria, TreeStep
  <2> QED BY <1>6, <2>1, <2>2 DEF RemoveAria, P
<1>7. CASE Seed(h) \/ Lookup(h) \/ Lock(h) \/ Open(h) \/ Build(h) \/ Admit(h) \/ Enter(h) \/ Discard(h)
  <2>1. P
    BY <1>7, <1>0, <1>1, <1>2
       DEF Seed, Lookup, Lock, Open, Build, Admit, Enter, Discard, OnAria, Restoring
  <2>2. TreeStep
    BY <1>7, <1>3 DEF Seed, Lookup, Lock, Open, Build, Admit, Enter, Discard, tree
  <2>3. UNCHANGED listing
    BY <1>7 DEF Seed, Lookup, Lock, Open, Build, Admit, Enter, Discard
  <2> QED BY <2>1, <2>2, <2>3 DEF P
<1>8. CASE BindShell(h) \/ KillGet(h) \/ KillMark(h) \/ KillWait(h) \/ ForkGet(h)
           \/ SaveList(h) \/ SaveWrite(h)
  <2>1. P
    BY <1>8, <1>0, <1>1 DEF BindShell, KillGet, KillMark, KillWait, ForkGet, SaveList, SaveWrite, OnAria
  <2>2. TreeStep
    BY <1>8, <1>3 DEF BindShell, KillGet, KillMark, KillWait, ForkGet, SaveList, SaveWrite, tree
  <2>3. UNCHANGED listing
    BY <1>8 DEF BindShell, KillGet, KillMark, KillWait, ForkGet, SaveList, SaveWrite
  <2> QED BY <2>1, <2>2, <2>3 DEF P
<1>9. CASE SaveAria(h)
  <2>1. "saveAria" \in Elsewhere
    BY DEF Places
  <2>2. pc' = [pc EXCEPT ![h] = "saveAria"]
    BY <1>9 DEF SaveAria, TypeInv, HandlersOK
  <2>3. TreeStep
    BY <1>9, <1>3 DEF SaveAria, tree
  <2> QED BY <1>9, <2>1, <2>2, <2>3 DEF SaveAria
<1> QED BY <1>4, <1>5, <1>6, <1>7, <1>8, <1>9 DEF Step

\* The three looks of a list, one after the other.
LEMMA ListLooks ==
  ASSUME TypeInv, MapsAgree, ListInv, NEW h \in Handlers,
         ListLive(h) \/ BoundPIDsByFigaro(h) \/ ListTree(h) \/ ListAnswer(h)
  PROVE  ListInv'
<1>1. TreeStep
  BY DEF ListLive, BoundPIDsByFigaro, ListTree, ListAnswer, tree, TreeStep
<1>2. ASSUME NEW g \in Handlers, g # h PROVE ListOK(g)'
  <2>1. listing'[g] = listing[g] /\ pc'[g] = pc[g]
    BY <1>2 DEF ListLive, BoundPIDsByFigaro, ListTree, ListAnswer, Goto, Return,
                TypeInv, HandlersOK, ListingOK
  <2> QED BY <1>1, <2>1, ListKept
<1>3. ListOK(h) /\ UNCHANGED tree
  BY DEF ListInv, ListLive, BoundPIDsByFigaro, ListTree, ListAnswer
<1>4. CASE ListLive(h)
  <2>1. pc'[h] = "listPids" /\ listing'[h].was = stored
    <3>1. pc'[h] = "listPids"
      BY <1>4 DEF ListLive, Goto, TypeInv, HandlersOK
    <3>2. PICK l : /\ l = [live |-> {a \in Arias : Registered(a)}, dormant |-> listing[h].dormant,
                           pids |-> listing[h].pids, was |-> stored]
                   /\ listing' = [listing EXCEPT ![h] = l]
      BY <1>4, ListLiveStep
    <3>3. listing'[h] = l
      BY <3>2 DEF TypeInv, ListingOK
    <3> QED BY <3>1, <3>2, <3>3
  <2> QED BY <1>2, <1>3, <2>1 DEF ListInv, ListOK, TypeInv, TreeOK, tree
<1>5. CASE BoundPIDsByFigaro(h)
  <2>1. /\ pc[h] = "listPids" /\ pc'[h] = "listTree"
        /\ listing'[h].was = listing[h].was /\ listing'[h].pids = figaroPIDs
    BY <1>5, ListPidsStep DEF BoundPIDsByFigaro, Goto, TypeInv, HandlersOK, ListingOK
  <2>2. \A a, b \in Arias : a # b => figaroPIDs[a] \cap figaroPIDs[b] = {}
    BY DEF MapsAgree, TypeInv, RegistryOK
  <2> QED BY <1>2, <1>3, <2>1, <2>2 DEF ListInv, ListOK, tree
<1>6. CASE ListTree(h)
  <2>1. /\ pc[h] = "listTree" /\ pc'[h] = "listed" /\ listing'[h].was = listing[h].was
        /\ listing'[h].pids = listing[h].pids /\ listing'[h].live = listing[h].live
        /\ listing'[h].dormant = stored \ listing[h].live
    BY <1>6, ListTreeStep DEF ListTree, Goto, TypeInv, HandlersOK, ListingOK
  <2> QED BY <1>2, <1>3, <2>1 DEF ListInv, ListOK, tree
<1>7. CASE ListAnswer(h)
  <2>1. pc'[h] = "idle"
    BY <1>7 DEF ListAnswer, Return, TypeInv, HandlersOK
  <2> QED BY <1>2, <2>1 DEF ListInv, ListOK
<1> QED BY <1>4, <1>5, <1>6, <1>7

LEMMA NextList ==
  ASSUME TypeInv, MapsAgree, ListInv, Next PROVE ListInv'
<1>1. ASSUME NEW h \in Handlers, Step(h) PROVE ListInv'
  BY <1>1, StepPlace, ListMoves, ListLooks
<1>2. ASSUME NEW h \in Handlers, NEW r \in Requests, Accept(h, r) PROVE ListInv'
  <2>1. FirstStep(r.op) \in Places \ {"listPids", "listTree", "listed"}
    BY DEF FirstStep, Places, OnAria, Requests, Request
  <2>2. TreeStep /\ UNCHANGED listing /\ pc' = [pc EXCEPT ![h] = FirstStep(r.op)]
    BY <1>2 DEF Accept, TreeStep, tree
  <2> QED BY <2>1, <2>2, ListMoves
<1>3. ASSUME UNCHANGED <<pc, listing>>, UNCHANGED <<stored, minted>> PROVE ListInv'
  BY <1>3 DEF ListInv, ListOK
<1>4. ASSUME NEW p \in Pids, RequestUnbind(p) \/ ShellExits(p) \/ ShellStarts(p) PROVE ListInv'
  BY <1>4, <1>3 DEF RequestUnbind, ShellExits, ShellStarts, tree, handler
<1>5. ASSUME NEW a \in Arias, Promote(a) \/ DrainAbandon(a) \/ DrainKill(a) \/ DrainUnpublish(a)
      PROVE  ListInv'
  BY <1>5, <1>3 DEF Promote, DrainAbandon, DrainKill, DrainUnpublish, tree, handler
<1>6. ASSUME SomeExit \/ Reap \/ Signal \/ DrainList \/ CloseStore \/ Restart PROVE ListInv'
  BY <1>6, <1>3 DEF SomeExit, AgentExit, Reap, ReapList, ReapOne, Signal, DrainList, CloseStore,
                    Restart, Start, RestoreNext, RestoreDone, tree, handler
<1>7. ASSUME Exit \/ Crash PROVE ListInv'
  <2>1. \A h \in Handlers : pc'[h] = "idle"
    BY <1>7 DEF Exit, Crash, Wiped
  <2> QED BY <2>1 DEF ListInv, ListOK
<1> QED BY <1>1, <1>2, <1>4, <1>5, <1>6, <1>7 DEF Next, Drain

\* The registry's maps agree with each other, and `figaro list` with them and
\* with the tree, for any number of arias, shells and concurrent requests, and
\* through shutdowns, crashes and restarts (Registry.Bind, Unbind, Kill, List).
THEOREM BindingsAgreeCorrect == Spec => []BindingsAgree
<1> DEFINE Inv == MapsAgree /\ ListInv
<1>1. Init => Inv
  BY AngelusAssumption DEF Init, MapsAgree, ListInv, ListOK
<1>2. TypeInv /\ Inv /\ [Next]_vars => Inv'
  <2>1. ASSUME Inv, UNCHANGED vars PROVE Inv'
    BY <2>1 DEF vars, registry, tree, handler, MapsAgree, Registered, ListInv, ListOK
  <2> QED BY <2>1, NextMaps, NextList
<1>3. Inv => BindingsAgree
  BY DEF BindingsAgree, ListingWhole, ListInv, ListOK
<1> QED BY <1>1, <1>2, <1>3, TypeInvCorrect, PTL DEF Spec

-----------------------------------------------------------------------------
(* One writer of an aria's log                                              *)
(*                                                                          *)
(* A running agent is the one published for its aria, or a handler that     *)
(* made it still has it; a killer has the published agent until it takes it *)
(* out of the registry; and while an aria the store knew is being restored  *)
(* nobody has published it, because its restore lock is held.               *)

Holding == {"admit", "enter", "discard"}
Busy == {"seed", "open", "killWait"} \cup Restoring
Taking == {"kill", "abandoned"}

Published == \A a \in Arias : Registered(a) => agent[figaros[a]].aria = a

Holder(h, n) == pc[h] \in Holding /\ mine[h] = n

OwnedBy(n) ==
  /\ agent[n].aria \in Arias
  /\ figaros[agent[n].aria] = n \/ \E h \in Handlers : Holder(h, n)

Owned == \A n \in Agents : Running(n) => OwnedBy(n)

WorkOK(h) ==
  /\ pc[h] \in {"open"} \cup Restoring /\ req[h].op # "create" => lock[req[h].aria] = h
  /\ pc[h] \in {"seed"} \cup Restoring /\ req[h].op = "create" => req[h].aria \notin Known
  /\ pc[h] \in {"open"} \cup Restoring /\ req[h].aria \in Known => ~ Registered(req[h].aria)
  /\ pc[h] \in Holding => agent[mine[h]].aria = req[h].aria
  /\ pc[h] = "killWait" =>
       /\ req[h].aria \in killing /\ figaros[req[h].aria] = mine[h]
       /\ drainer[req[h].aria].st \notin Taking

OneKiller ==
  \A g, h \in Handlers :
    g # h /\ pc[g] = "killWait" /\ pc[h] = "killWait" => req[g].aria # req[h].aria

DrainersOK ==
  \A a \in Arias : drainer[a].st \in Taking => a \in killing /\ figaros[a] = drainer[a].agent

Quiet == daemon \in {"down", "restoring"} => \A h \in Handlers : pc[h] = "idle"

WriterInv ==
  /\ Published /\ Owned /\ OneKiller /\ DrainersOK /\ Quiet
  /\ \A h \in Handlers : WorkOK(h)
  /\ Known \subseteq minted

\* It says that an aria has one writer.
LEMMA WriterInvOneWriter ==
  ASSUME TypeInv, WriterInv PROVE OneWriter
<1> SUFFICES ASSUME NEW m \in Agents, NEW n \in Agents, m # n, Running(m), Running(n),
                    agent[m].aria = agent[n].aria
             PROVE  agent[m].aria \notin Known /\ (Unaccepted(m) \/ Unaccepted(n))
  BY DEF OneWriter
<1>1. OwnedBy(m) /\ OwnedBy(n)
  BY DEF WriterInv, Owned
<1>2. PICK a \in Arias : a = agent[m].aria /\ a = agent[n].aria
  BY <1>1 DEF OwnedBy
<1>3. Unaccepted(m) \/ Unaccepted(n)
  BY <1>1 DEF OwnedBy, Holder, Holding, Unaccepted
<1>4. a \notin Known
  <2> SUFFICES ASSUME a \in Known PROVE FALSE
    OBVIOUS
  <2>1. ASSUME NEW h \in Handlers, NEW k \in Agents, Holder(h, k), agent[k].aria = a
        PROVE  ~ Registered(a) /\ lock[a] = h
    <3>1. req[h].aria = a /\ pc[h] \in Restoring /\ WorkOK(h) /\ HandlerOK(h)
      BY <2>1 DEF Holder, Holding, Restoring, WriterInv, WorkOK, TypeInv, HandlersOK
    <3>2. req[h].op # "create"
      BY <3>1 DEF WorkOK
    <3> QED BY <3>1, <3>2 DEF WorkOK
  <2>2. ASSUME NEW k \in Agents, OwnedBy(k), agent[k].aria = a, figaros[a] # k
        PROVE  \E h \in Handlers : Holder(h, k) /\ ~ Registered(a) /\ lock[a] = h
    BY <2>1, <2>2 DEF OwnedBy
  <2>3. figaros[a] = m => Registered(a)
    BY AngelusAssumption DEF Registered, Agents
  <2>4. figaros[a] = n => Registered(a)
    BY AngelusAssumption DEF Registered, Agents
  <2> QED BY <1>1, <1>2, <2>2, <2>3, <2>4 DEF Holder
<1> QED BY <1>2, <1>3, <1>4

\* What a handler's step leaves alone.
OthersKept(h) ==
  \A g \in Handlers : g # h =>
    /\ pc'[g] = pc[g] /\ req'[g] = req[g] /\ mine'[g] = mine[g]
    /\ \A a \in Arias : lock[a] = g => lock'[a] = g

LEMMA GotoKeeps ==
  ASSUME TypeInv, NEW h \in Handlers, NEW w, Goto(h, w), UNCHANGED <<req, lock>>,
         \A g \in Handlers : g # h => mine'[g] = mine[g]
  PROVE  OthersKept(h) /\ pc'[h] = w
  BY DEF TypeInv, HandlersOK, Goto, OthersKept

LEMMA ReturnKeeps ==
  ASSUME TypeInv, NEW h \in Handlers, Return(h)
  PROVE  OthersKept(h) /\ pc'[h] = "idle"
  BY DEF TypeInv, HandlersOK, Return, OthersKept

LEMMA FoundKeeps ==
  ASSUME TypeInv, NEW h \in Handlers, Found(h)
  PROVE  OthersKept(h) /\ pc'[h] \in {"idle", "bind"}
<1>1. CASE req[h].op = "bind"
  BY <1>1 DEF Found, TypeInv, HandlersOK, Goto, OthersKept
<1>2. CASE req[h].op # "bind"
  BY <1>2, ReturnKeeps DEF Found
<1> QED BY <1>1, <1>2

\* A step that publishes, kills and starts nothing.
Calm ==
  /\ UNCHANGED <<figaros, killing, drainer>>
  /\ minted \subseteq minted'
  /\ \A n \in Agents : agent'[n].aria = agent[n].aria /\ (Running(n)' => Running(n))

LEMMA CalmOther ==
  ASSUME TypeInv, WriterInv, Calm, NEW g \in Handlers,
         pc'[g] = pc[g], req'[g] = req[g], mine'[g] = mine[g],
         \A a \in Arias : lock[a] = g => lock'[a] = g
  PROVE  WorkOK(g)'
<1>1. WorkOK(g) /\ HandlerOK(g)
  BY DEF WriterInv, TypeInv, HandlersOK
<1>2. pc[g] \in Busy => req[g].aria \in Arias
  BY <1>1 DEF HandlerOK, Busy, OnAria, Restoring
<1>3. pc[g] \in Holding => mine[g] \in Agents
  BY <1>1 DEF HandlerOK, Holding
<1> QED BY <1>1, <1>2, <1>3 DEF WorkOK, Calm, Busy, Holding, Restoring, Registered

LEMMA CalmMove ==
  ASSUME TypeInv, WriterInv, Calm, NEW h \in Handlers, OthersKept(h), WorkOK(h)', Quiet',
         pc[h] \in Holding => \/ pc'[h] \in Holding /\ mine'[h] = mine[h]
                              \/ ~ Running(mine[h]),
         pc'[h] # "killWait"
  PROVE  WriterInv'
<1>1. ASSUME NEW g \in Handlers PROVE WorkOK(g)'
  BY <1>1, CalmOther DEF OthersKept
<1>2. Published'
  BY DEF WriterInv, Published, Calm, Registered, TypeInv, RegistryOK
<1>3. Owned'
  <2> SUFFICES ASSUME NEW n \in Agents, Running(n)' PROVE OwnedBy(n)'
    BY DEF Owned
  <2>1. Running(n) /\ OwnedBy(n) /\ agent'[n].aria = agent[n].aria /\ figaros' = figaros
    BY DEF Calm, WriterInv, Owned
  <2>2. ASSUME NEW g \in Handlers, Holder(g, n) PROVE Holder(g, n)'
    BY <2>1, <2>2 DEF Holder, OthersKept
  <2> QED BY <2>1, <2>2 DEF OwnedBy
<1>4. OneKiller'
  BY DEF WriterInv, OneKiller, OthersKept
<1>5. DrainersOK'
  BY DEF WriterInv, DrainersOK, Calm
<1> QED BY <1>1, <1>2, <1>3, <1>4, <1>5 DEF WriterInv, Calm

LEMMA CalmRest ==
  ASSUME TypeInv, WriterInv, Calm, Quiet', UNCHANGED <<pc, req, mine, lock>>
  PROVE  WriterInv'
<1>1. ASSUME NEW g \in Handlers PROVE WorkOK(g)'
  BY <1>1, CalmOther
<1>2. Published'
  BY DEF WriterInv, Published, Calm, Registered, TypeInv, RegistryOK
<1>3. Owned'
  <2> SUFFICES ASSUME NEW n \in Agents, Running(n)' PROVE OwnedBy(n)'
    BY DEF Owned
  <2>1. Running(n) /\ OwnedBy(n) /\ agent'[n].aria = agent[n].aria /\ figaros' = figaros
    BY DEF Calm, WriterInv, Owned
  <2> QED BY <2>1 DEF OwnedBy, Holder
<1>4. OneKiller'
  BY DEF WriterInv, OneKiller
<1>5. DrainersOK'
  BY DEF WriterInv, DrainersOK, Calm
<1> QED BY <1>1, <1>2, <1>3, <1>4, <1>5 DEF WriterInv, Calm

\* The usual case: the handler comes to a place where it holds nothing.
LEMMA CalmLeave ==
  ASSUME TypeInv, WriterInv, Calm, NEW h \in Handlers, OthersKept(h), pc'[h] \notin Busy, Quiet',
         pc[h] \in Holding => ~ Running(mine[h])
  PROVE  WriterInv'
<1>1. WorkOK(h)'
  BY DEF WorkOK, Busy, Holding, Restoring
<1> QED BY <1>1, CalmMove DEF Busy

LEMMA CalmTrivially ==
  ASSUME UNCHANGED <<figaros, killing, drainer, agent>>, minted \subseteq minted'
  PROVE  Calm
  BY DEF Calm, Running

LEMMA CalmCancel ==
  ASSUME TypeInv, NEW n \in Agents, agent' = Cancelled(n)
  PROVE  \A m \in Agents : agent'[m].aria = agent[m].aria /\ (Running(m)' => Running(m))
  BY DEF TypeInv, AgentsOK, Cancelled, Running

\* Only a daemon that serves runs handlers.
LEMMA StepAwake ==
  ASSUME WriterInv, NEW h \in Handlers, Step(h)
  PROVE  Quiet'
<1>1. pc[h] # "idle" /\ UNCHANGED daemon
  BY DEF Step, ListLive, BoundPIDsByFigaro, ListTree, ListAnswer, Spawn, Seed, Lookup, Lock, Open,
         Build, Admit, Enter, Discard, BindShell, KillGet, KillMark, KillWait, RemoveAria, ForkGet,
         Fork, SaveList, SaveAria, SaveWrite, life
<1> QED BY <1>1 DEF WriterInv, Quiet

LEMMA SpawnWriter ==
  ASSUME TypeInv, WriterInv, NEW h \in Handlers, Spawn(h) PROVE WriterInv'
<1>0. Quiet' /\ pc[h] = "spawn" /\ UNCHANGED <<figaros, killing, drainer, agent>>
  BY StepAwake DEF Step, Spawn, registry, life
<1>1. CASE Return(h) /\ UNCHANGED tree
  BY <1>0, <1>1, ReturnKeeps, CalmTrivially, CalmLeave DEF tree, Busy, Restoring, Holding
<1>2. CASE \E a \in Arias \ minted :
             /\ Mint(a, Stump) /\ req' = [req EXCEPT ![h].aria = a]
             /\ Goto(h, "seed") /\ UNCHANGED <<mine, lock>>
  <2>1. PICK a \in Arias \ minted :
          /\ Mint(a, Stump) /\ req' = [req EXCEPT ![h].aria = a]
          /\ Goto(h, "seed") /\ UNCHANGED <<mine, lock>>
    BY <1>2
  <2>2. Calm
    BY <1>0, <2>1, CalmTrivially DEF Mint
  <2>3. /\ pc'[h] = "seed" /\ req'[h].aria = a /\ a \notin Known
        /\ \A g \in Handlers : g # h => pc'[g] = pc[g] /\ req'[g] = req[g]
    BY <2>1 DEF Goto, TypeInv, HandlersOK, WriterInv, Request
  <2>4. OthersKept(h)
    BY <2>1, <2>3 DEF OthersKept
  <2>5. WorkOK(h)'
    BY <2>3 DEF WorkOK, Restoring, Holding
  <2> QED BY <1>0, <2>2, <2>3, <2>4, <2>5, CalmMove DEF Holding
<1> QED BY <1>1, <1>2 DEF Spawn

LEMMA SeedWriter ==
  ASSUME TypeInv, WriterInv, NEW h \in Handlers, Seed(h) PROVE WriterInv'
<1>0. Quiet' /\ pc[h] = "seed" /\ UNCHANGED <<figaros, killing, drainer, agent, minted>>
  BY StepAwake DEF Step, Seed, registry, life, tree
<1>1. Calm
  BY <1>0, CalmTrivially
<1>2. CASE Return(h)
  BY <1>0, <1>1, <1>2, ReturnKeeps, CalmLeave DEF Busy, Restoring, Holding
<1>3. CASE Goto(h, "build") /\ UNCHANGED <<req, mine, lock>>
  <2>1. OthersKept(h) /\ pc'[h] = "build" /\ req'[h] = req[h]
    BY <1>3, GotoKeeps
  <2>2. req[h].op = "create" /\ req[h].aria \notin Known
    BY <1>0 DEF TypeInv, HandlersOK, HandlerOK, WriterInv, WorkOK
  <2>3. WorkOK(h)'
    BY <2>1, <2>2 DEF WorkOK, Restoring, Holding
  <2> QED BY <1>0, <1>1, <2>1, <2>3, CalmMove DEF Holding
<1> QED BY <1>2, <1>3 DEF Seed

LEMMA LookupWriter ==
  ASSUME TypeInv, WriterInv, NEW h \in Handlers, Lookup(h) PROVE WriterInv'
<1>0. Quiet' /\ pc[h] = "lookup" /\ UNCHANGED <<figaros, killing, drainer, agent, minted>>
  BY StepAwake DEF Step, Lookup, registry, life, tree
<1>1. Calm
  BY <1>0, CalmTrivially
<1>2. OthersKept(h) /\ pc'[h] \notin Busy
  BY FoundKeeps, GotoKeeps DEF Lookup, Busy, Restoring
<1> QED BY <1>0, <1>1, <1>2, CalmLeave DEF Holding

\* The second look: from here to Register nobody publishes the aria.
LEMMA LockWriter ==
  ASSUME TypeInv, WriterInv, NEW h \in Handlers, Lock(h) PROVE WriterInv'
<1>0. Quiet' /\ pc[h] = "lock" /\ UNCHANGED <<figaros, killing, drainer, agent, minted>>
  BY StepAwake DEF Step, Lock, registry, life, tree
<1>1. Calm
  BY <1>0, CalmTrivially
<1>2. CASE Found(h)
  BY <1>0, <1>1, <1>2, FoundKeeps, CalmLeave DEF Busy, Restoring, Holding
<1>3. CASE ~ Found(h)
  <2>0. PICK a \in Arias : a = req[h].aria
    BY <1>0 DEF TypeInv, HandlersOK, HandlerOK, OnAria
  <2>1. /\ lock[a] = None /\ ~ Registered(a) /\ lock' = [lock EXCEPT ![a] = h]
        /\ Goto(h, "open") /\ UNCHANGED <<req, mine>>
    BY <1>3, <2>0 DEF Lock
  <2>2. pc'[h] = "open" /\ req'[h] = req[h] /\ lock'[a] = h
    BY <2>1 DEF Goto, TypeInv, HandlersOK
  <2>3. OthersKept(h)
    BY <2>1, AngelusAssumption DEF Goto, TypeInv, HandlersOK, OthersKept
  <2>4. WorkOK(h)'
    BY <1>0, <2>0, <2>1, <2>2 DEF WorkOK, Restoring, Holding, Registered
  <2> QED BY <1>0, <1>1, <2>2, <2>3, <2>4, CalmMove DEF Holding
<1> QED BY <1>2, <1>3

LEMMA OpenWriter ==
  ASSUME TypeInv, WriterInv, NEW h \in Handlers, Open(h) PROVE WriterInv'
<1>0. Quiet' /\ pc[h] = "open" /\ UNCHANGED <<figaros, killing, drainer, agent, minted>>
  BY StepAwake DEF Step, Open, registry, life, tree
<1>1. Calm
  BY <1>0, CalmTrivially
<1>2. CASE Return(h)
  BY <1>0, <1>1, <1>2, ReturnKeeps, CalmLeave DEF Busy, Restoring, Holding
<1>3. CASE Goto(h, "build") /\ UNCHANGED <<req, mine, lock>>
  <2>1. OthersKept(h) /\ pc'[h] = "build" /\ req'[h] = req[h]
    BY <1>3, GotoKeeps
  <2>2. WorkOK(h) /\ req[h].op # "create"
    BY <1>0 DEF TypeInv, HandlersOK, HandlerOK, WriterInv
  <2>3. WorkOK(h)'
    BY <1>0, <1>3, <2>1, <2>2 DEF WorkOK, Restoring, Holding, Registered
  <2> QED BY <1>0, <1>1, <2>1, <2>3, CalmMove DEF Holding
<1> QED BY <1>2, <1>3 DEF Open

\* NewAgent: an agent nobody refers to becomes the handler's.
LEMMA StartFresh ==
  ASSUME TypeInv, WriterInv, NEW n \in Agents, Free(n), NEW a \in Arias, agent' = Started(n, a)
  PROVE  /\ agent'[n] = [aria |-> a, st |-> "live"]
         /\ \A m \in Agents : m # n => agent'[m] = agent[m] /\ (Running(m)' <=> Running(m))
         /\ \A b \in Arias : figaros[b] # n
         /\ \A h \in Handlers : mine[h] # n
  BY DEF TypeInv, AgentsOK, Started, Running, Free

LEMMA BuildWriter ==
  ASSUME TypeInv, WriterInv, NEW h \in Handlers, Build(h) PROVE WriterInv'
<1>0. /\ Quiet' /\ pc[h] = "build" /\ UNCHANGED <<figaros, killing, drainer, minted, lock, req>>
      /\ Goto(h, "admit")
  BY StepAwake DEF Step, Build, registry, life, tree
<1>1. PICK a \in Arias : a = req[h].aria
  BY <1>0 DEF TypeInv, HandlersOK, HandlerOK, OnAria, Restoring
<1>2. PICK n \in Agents : Free(n) /\ agent' = Started(n, a) /\ mine' = [mine EXCEPT ![h] = n]
  BY <1>1 DEF Build
<1>3. /\ agent'[n] = [aria |-> a, st |-> "live"]
      /\ \A m \in Agents : m # n => agent'[m] = agent[m] /\ (Running(m)' <=> Running(m))
      /\ \A b \in Arias : figaros[b] # n
      /\ \A g \in Handlers : mine[g] # n
  BY <1>2, StartFresh
<1>4. /\ mine'[h] = n /\ \A g \in Handlers : g # h => mine'[g] = mine[g]
  BY <1>2 DEF TypeInv, HandlersOK
<1>5. OthersKept(h) /\ pc'[h] = "admit" /\ req'[h] = req[h]
  BY <1>0, <1>4, GotoKeeps
<1>6. WorkOK(h) /\ \A g \in Handlers : WorkOK(g) /\ HandlerOK(g)
  BY DEF WriterInv, TypeInv, HandlersOK
<1>7. WorkOK(h)'
  BY <1>0, <1>1, <1>3, <1>4, <1>5, <1>6 DEF WorkOK, Restoring, Holding, Registered
<1>8. ASSUME NEW g \in Handlers, g # h PROVE WorkOK(g)'
  <2>1. pc'[g] = pc[g] /\ req'[g] = req[g] /\ mine'[g] = mine[g] /\ lock' = lock
    BY <1>0, <1>5, <1>8 DEF OthersKept
  <2>2. pc[g] \in Holding => agent'[mine[g]] = agent[mine[g]]
    BY <1>3, <1>6 DEF HandlerOK, Holding
  <2> QED BY <1>0, <1>6, <2>1, <2>2 DEF WorkOK, Registered
<1>9. Published'
  BY <1>0, <1>3 DEF WriterInv, Published, Registered, TypeInv, RegistryOK
<1>10. Owned'
  <2> SUFFICES ASSUME NEW m \in Agents, Running(m)' PROVE OwnedBy(m)'
    BY DEF Owned
  <2>1. CASE m = n
    BY <1>3, <1>4, <1>5, <2>1 DEF OwnedBy, Holder, Holding
  <2>2. CASE m # n
    <3>1. OwnedBy(m) /\ agent'[m] = agent[m]
      BY <1>3, <2>2 DEF WriterInv, Owned
    <3>2. ASSUME NEW g \in Handlers, Holder(g, m) PROVE Holder(g, m)'
      BY <1>0, <1>5, <3>2 DEF Holder, Holding, OthersKept
    <3> QED BY <1>0, <3>1, <3>2 DEF OwnedBy
  <2> QED BY <2>1, <2>2
<1>11. OneKiller' /\ DrainersOK'
  BY <1>0, <1>5 DEF WriterInv, OneKiller, DrainersOK, OthersKept
<1> QED BY <1>0, <1>7, <1>8, <1>9, <1>10, <1>11 DEF WriterInv

LEMMA AdmitWriter ==
  ASSUME TypeInv, WriterInv, NEW h \in Handlers, Admit(h) PROVE WriterInv'
<1>0. /\ Quiet' /\ pc[h] = "admit" /\ UNCHANGED <<figaros, killing, drainer, minted, lock, req, mine>>
  BY StepAwake DEF Step, Admit, registry, life, tree
<1>1. PICK w \in {"discard", "enter"} : Goto(h, w)
  BY DEF Admit
<1>2. OthersKept(h) /\ pc'[h] = w /\ req'[h] = req[h] /\ mine'[h] = mine[h]
  BY <1>0, <1>1, GotoKeeps
<1>3. WorkOK(h) /\ mine[h] \in Agents
  BY <1>0 DEF WriterInv, TypeInv, HandlersOK, HandlerOK
<1>4. \A m \in Agents : agent'[m].aria = agent[m].aria /\ (Running(m)' => Running(m))
  BY <1>3, CalmCancel DEF Admit, Running
<1>5. Calm
  BY <1>0, <1>4 DEF Calm
<1>6. WorkOK(h)'
  BY <1>0, <1>2, <1>3, <1>4 DEF WorkOK, Restoring, Holding, Registered
<1> QED BY <1>0, <1>2, <1>5, <1>6, CalmMove DEF Holding

LEMMA DiscardWriter ==
  ASSUME TypeInv, WriterInv, NEW h \in Handlers, Discard(h) PROVE WriterInv'
<1>0. /\ Quiet' /\ pc[h] = "discard" /\ UNCHANGED <<figaros, killing, drainer, minted, agent>>
      /\ agent[mine[h]].st = "done" /\ Return(h)
  BY StepAwake DEF Step, Discard, registry, life, tree
<1>1. ~ Running(mine[h]) /\ Calm
  BY <1>0, CalmTrivially DEF Running
<1> QED BY <1>0, <1>1, ReturnKeeps, CalmLeave DEF Busy, Restoring

\* Register publishes an agent: the aria had none, so nobody kills it, and no
\* other restore of an aria the store knew is under way.
LEMMA EnterWriter ==
  ASSUME TypeInv, WriterInv, NEW h \in Handlers, Enter(h) PROVE WriterInv'
<1>0. /\ Quiet' /\ pc[h] = "enter" /\ UNCHANGED <<killing, drainer, minted>>
  BY StepAwake DEF Step, Enter, registry, life, tree
<1>1. PICK a \in Arias : a = req[h].aria
  BY <1>0 DEF TypeInv, HandlersOK, HandlerOK, OnAria, Restoring
<1>2. PICK n \in Agents : n = mine[h]
  BY <1>0 DEF TypeInv, HandlersOK, HandlerOK
<1>3. \A g \in Handlers : WorkOK(g) /\ HandlerOK(g)
  BY DEF WriterInv, TypeInv, HandlersOK
<1>4. CASE Registered(a)
  <2>1. Goto(h, "discard") /\ agent' = Cancelled(n) /\ UNCHANGED <<figaros, req, mine, lock>>
    BY <1>1, <1>2, <1>4 DEF Enter
  <2>2. OthersKept(h) /\ pc'[h] = "discard" /\ req'[h] = req[h] /\ mine'[h] = mine[h]
    BY <2>1, GotoKeeps
  <2>3. \A m \in Agents : agent'[m].aria = agent[m].aria /\ (Running(m)' => Running(m))
    BY <2>1, CalmCancel
  <2>4. Calm
    BY <1>0, <2>1, <2>3 DEF Calm
  <2>5. WorkOK(h)'
    BY <1>0, <1>2, <1>3, <2>1, <2>2, <2>3 DEF WorkOK, Restoring, Holding, Registered
  <2> QED BY <1>0, <2>2, <2>4, <2>5, CalmMove DEF Holding
<1>5. CASE ~ Registered(a)
  <2>1. figaros' = [figaros EXCEPT ![a] = n] /\ Found(h) /\ UNCHANGED agent
    BY <1>1, <1>2, <1>5 DEF Enter, Publish
  <2>2. figaros'[a] = n /\ \A b \in Arias : b # a => figaros'[b] = figaros[b]
    BY <2>1 DEF TypeInv, RegistryOK
  <2>3. OthersKept(h) /\ pc'[h] \in {"idle", "bind"}
    BY <2>1, FoundKeeps
  <2>4. agent[n].aria = a
    BY <1>0, <1>1, <1>2, <1>3 DEF WorkOK, Holding
  <2>5. WorkOK(h)'
    BY <2>3 DEF WorkOK, Restoring, Holding
  <2>6. ASSUME NEW g \in Handlers, g # h PROVE WorkOK(g)'
    <3>1. /\ pc'[g] = pc[g] /\ req'[g] = req[g] /\ mine'[g] = mine[g]
          /\ \A b \in Arias : lock[b] = g => lock'[b] = g
      BY <2>3, <2>6 DEF OthersKept
    <3>2. pc[g] \in Busy => req[g].aria \in Arias
      BY <1>3 DEF HandlerOK, Busy, OnAria, Restoring
    <3>3. ASSUME pc[g] \in {"open"} \cup Restoring, req[g].aria \in Known PROVE req[g].aria # a
      <4> SUFFICES ASSUME req[g].aria = a PROVE FALSE
        OBVIOUS
      <4>1. req[h].op # "create"
        BY <1>0, <1>1, <1>3, <3>3 DEF WorkOK, Restoring
      <4>2. lock[a] = h
        BY <1>0, <1>1, <1>3, <4>1 DEF WorkOK, Restoring
      <4>3. req[g].op # "create"
        BY <1>3, <3>3 DEF WorkOK, HandlerOK, Restoring
      <4>4. lock[a] = g
        BY <1>3, <3>3, <4>3 DEF WorkOK
      <4> QED BY <2>6, <4>2, <4>4
    <3>4. pc[g] = "killWait" => req[g].aria # a
      BY <1>3, <1>5, AngelusAssumption DEF WorkOK, HandlerOK, Registered, Agents
    <3>5. WorkOK(g)
      BY <1>3
    <3> QED BY <1>0, <2>1, <2>2, <3>1, <3>2, <3>3, <3>4, <3>5
            DEF WorkOK, Registered, Busy, Restoring, Holding
  <2>7. Published'
    BY <2>1, <2>2, <2>4 DEF WriterInv, Published, Registered
  <2>8. Owned'
    <3> SUFFICES ASSUME NEW m \in Agents, Running(m)' PROVE OwnedBy(m)'
      BY DEF Owned
    <3>1. OwnedBy(m)
      BY <2>1 DEF WriterInv, Owned, Running
    <3>2. CASE m = n
      BY <2>1, <2>2, <2>4, <3>2 DEF OwnedBy
    <3>3. CASE m # n
      <4>1. figaros[agent[m].aria] = m => agent[m].aria # a
        BY <1>5, AngelusAssumption DEF Registered, Agents
      <4>2. ASSUME NEW g \in Handlers, Holder(g, m) PROVE Holder(g, m)'
        BY <1>2, <2>3, <3>3, <4>2 DEF Holder, OthersKept
      <4> QED BY <2>1, <2>2, <3>1, <4>1, <4>2 DEF OwnedBy
    <3> QED BY <3>2, <3>3
  <2>9. OneKiller'
    BY <2>3 DEF WriterInv, OneKiller, OthersKept
  <2>10. DrainersOK'
    <3>1. ASSUME NEW b \in Arias, drainer[b].st \in Taking PROVE b # a
      BY <1>5, <3>1, AngelusAssumption
         DEF WriterInv, DrainersOK, TypeInv, AgentsOK, Registered, Taking, Agents
    <3> QED BY <1>0, <2>2, <3>1 DEF WriterInv, DrainersOK
  <2> QED BY <1>0, <2>5, <2>6, <2>7, <2>8, <2>9, <2>10 DEF WriterInv
<1> QED BY <1>4, <1>5

\* The first half of Kill makes the handler the one killer of the aria.
LEMMA KillMarkWriter ==
  ASSUME TypeInv, WriterInv, NEW h \in Handlers, KillMark(h) PROVE WriterInv'
<1>0. /\ Quiet' /\ pc[h] = "killMark" /\ UNCHANGED <<figaros, drainer, minted>>
  BY StepAwake DEF Step, KillMark, life, tree
<1>1. PICK a \in Arias : a = req[h].aria
  BY <1>0 DEF TypeInv, HandlersOK, HandlerOK, OnAria
<1>2. CASE Return(h) /\ UNCHANGED <<killing, agent>>
  BY <1>0, <1>2, ReturnKeeps, CalmTrivially, CalmLeave DEF Busy, Restoring, Holding
<1>3. CASE ~ (Return(h) /\ UNCHANGED <<killing, agent>>)
  <2>1. /\ Registered(a) /\ a \notin killing /\ killing' = killing \cup {a}
        /\ agent' = Cancelled(figaros[a]) /\ mine' = [mine EXCEPT ![h] = figaros[a]]
        /\ Goto(h, "killWait") /\ UNCHANGED <<req, lock>>
    BY <1>1, <1>3 DEF KillMark
  <2>2. PICK n \in Agents : n = figaros[a]
    BY <2>1 DEF Registered, TypeInv, RegistryOK
  <2>3. \A m \in Agents : agent'[m].aria = agent[m].aria /\ (Running(m)' => Running(m))
    BY <2>1, <2>2, CalmCancel
  <2>4. mine'[h] = n /\ \A g \in Handlers : g # h => mine'[g] = mine[g]
    BY <2>1, <2>2 DEF TypeInv, HandlersOK
  <2>5. OthersKept(h) /\ pc'[h] = "killWait" /\ req'[h] = req[h]
    BY <2>1, <2>4, GotoKeeps
  <2>6. drainer[a].st \notin Taking
    BY <2>1 DEF WriterInv, DrainersOK
  <2>7. WorkOK(h)'
    BY <1>0, <1>1, <2>1, <2>2, <2>4, <2>5, <2>6 DEF WorkOK, Restoring, Holding
  <2>8. ASSUME NEW g \in Handlers, g # h PROVE WorkOK(g)' /\ (pc[g] = "killWait" => req[g].aria # a)
    <3>1. /\ pc'[g] = pc[g] /\ req'[g] = req[g] /\ mine'[g] = mine[g] /\ lock' = lock
      BY <2>1, <2>5, <2>8 DEF OthersKept
    <3>2. WorkOK(g) /\ HandlerOK(g)
      BY DEF WriterInv, TypeInv, HandlersOK
    <3>3. pc[g] \in Holding => mine[g] \in Agents
      BY <3>2 DEF HandlerOK, Holding
    <3> QED BY <1>0, <2>1, <2>3, <3>1, <3>2, <3>3 DEF WorkOK, Registered
  <2>9. Published'
    BY <1>0, <2>3 DEF WriterInv, Published, Registered, TypeInv, RegistryOK
  <2>10. Owned'
    <3> SUFFICES ASSUME NEW m \in Agents, Running(m)' PROVE OwnedBy(m)'
      BY DEF Owned
    <3>1. OwnedBy(m) /\ agent'[m].aria = agent[m].aria
      BY <2>3 DEF WriterInv, Owned
    <3>2. ASSUME NEW g \in Handlers, Holder(g, m) PROVE Holder(g, m)'
      BY <1>0, <2>5, <3>2 DEF Holder, Holding, OthersKept
    <3> QED BY <1>0, <3>1, <3>2 DEF OwnedBy
  <2>11. OneKiller'
    BY <1>1, <2>5, <2>8 DEF WriterInv, OneKiller, OthersKept
  <2>12. DrainersOK'
    BY <1>0, <2>1 DEF WriterInv, DrainersOK
  <2> QED BY <1>0, <2>7, <2>8, <2>9, <2>10, <2>11, <2>12 DEF WriterInv
<1> QED BY <1>2, <1>3

\* Its second half: the agent it takes away has ended, and others kill others.
LEMMA UnpublishWriter ==
  ASSUME TypeInv, WriterInv, NEW a \in Arias, Unpublish(a), UNCHANGED <<agent, minted>>,
         figaros[a] \in Agents, agent[figaros[a]].st = "done"
  PROVE  /\ Published'
         /\ \A n \in Agents : Running(n)' =>
              \/ OwnedBy(n) /\ agent[n].aria # a
              \/ \E h \in Handlers : Holder(h, n) /\ OwnedBy(n)
         /\ \A g \in Handlers :
              (pc[g] = "killWait" => req[g].aria # a) /\ pc'[g] = pc[g] /\ req'[g] = req[g]
                /\ mine'[g] = mine[g] /\ (\A b \in Arias : lock[b] = g => lock'[b] = g)
                /\ (\A b \in Arias : b # a => drainer'[b] = drainer[b])
              => WorkOK(g)'
<1>1. figaros' = [figaros EXCEPT ![a] = None] /\ killing' = killing \ {a}
  BY DEF Unpublish
<1>2. figaros'[a] = None /\ \A b \in Arias : b # a => figaros'[b] = figaros[b]
  BY <1>1 DEF TypeInv, RegistryOK
<1>3. Published'
  BY <1>2 DEF WriterInv, Published, Registered
<1>4. ASSUME NEW n \in Agents, Running(n)'
      PROVE  \/ OwnedBy(n) /\ agent[n].aria # a
             \/ \E h \in Handlers : Holder(h, n) /\ OwnedBy(n)
  <2>1. OwnedBy(n) /\ Running(n)
    BY <1>4 DEF WriterInv, Owned, Running
  <2>2. figaros[a] # n
    BY <2>1 DEF Running
  <2> QED BY <2>1, <2>2 DEF OwnedBy
<1>5. ASSUME NEW g \in Handlers, pc[g] = "killWait" => req[g].aria # a, pc'[g] = pc[g],
             req'[g] = req[g], mine'[g] = mine[g], \A b \in Arias : lock[b] = g => lock'[b] = g,
             \A b \in Arias : b # a => drainer'[b] = drainer[b]
      PROVE  WorkOK(g)'
  <2>1. WorkOK(g) /\ HandlerOK(g)
    BY DEF WriterInv, TypeInv, HandlersOK
  <2>2. pc[g] \in Busy => req[g].aria \in Arias
    BY <2>1 DEF HandlerOK, Busy, OnAria, Restoring
  <2> QED BY <1>1, <1>2, <1>5, <2>1, <2>2 DEF WorkOK, Registered, Busy, Restoring
<1> QED BY <1>3, <1>4, <1>5

LEMMA KillWaitWriter ==
  ASSUME TypeInv, WriterInv, NEW h \in Handlers, KillWait(h) PROVE WriterInv'
<1>0. /\ Quiet' /\ pc[h] = "killWait" /\ UNCHANGED <<agent, drainer, minted, req, mine, lock>>
      /\ agent[mine[h]].st = "done" /\ Goto(h, "remove")
  BY StepAwake DEF Step, KillWait, life, tree
<1>1. PICK a \in Arias : a = req[h].aria
  BY <1>0 DEF TypeInv, HandlersOK, HandlerOK, OnAria
<1>2. Unpublish(a) /\ figaros[a] = mine[h] /\ mine[h] \in Agents /\ drainer[a].st \notin Taking
  BY <1>0, <1>1 DEF KillWait, WriterInv, WorkOK, TypeInv, HandlersOK, HandlerOK
<1>3. OthersKept(h) /\ pc'[h] = "remove" /\ req'[h] = req[h]
  BY <1>0, GotoKeeps
<1>4. /\ Published'
      /\ \A n \in Agents : Running(n)' =>
           \/ OwnedBy(n) /\ agent[n].aria # a
           \/ \E g \in Handlers : Holder(g, n) /\ OwnedBy(n)
      /\ \A g \in Handlers :
              (pc[g] = "killWait" => req[g].aria # a) /\ pc'[g] = pc[g] /\ req'[g] = req[g]
                /\ mine'[g] = mine[g] /\ (\A b \in Arias : lock[b] = g => lock'[b] = g)
                /\ (\A b \in Arias : b # a => drainer'[b] = drainer[b])
              => WorkOK(g)'
  BY <1>0, <1>2, UnpublishWriter
<1>5. ASSUME NEW g \in Handlers PROVE WorkOK(g)'
  <2>1. CASE g = h
    BY <1>3, <2>1 DEF WorkOK, Restoring, Holding
  <2>2. CASE g # h
    <3>1. pc[g] = "killWait" => req[g].aria # a
      BY <1>0, <1>1, <2>2 DEF WriterInv, OneKiller
    <3> QED BY <1>0, <1>3, <1>4, <2>2, <3>1 DEF OthersKept
  <2> QED BY <2>1, <2>2
<1>6. figaros' = [figaros EXCEPT ![a] = None] /\ killing' = killing \ {a}
  BY <1>2 DEF Unpublish
<1>7. Owned'
  <2> SUFFICES ASSUME NEW n \in Agents, Running(n)' PROVE OwnedBy(n)'
    BY DEF Owned
  <2>1. CASE OwnedBy(n) /\ agent[n].aria # a
    <3>1. ASSUME NEW g \in Handlers, Holder(g, n) PROVE Holder(g, n)'
      BY <1>0, <1>3, <3>1 DEF Holder, Holding, OthersKept
    <3> QED BY <1>0, <1>6, <2>1, <3>1 DEF OwnedBy, TypeInv, RegistryOK
  <2>2. CASE \E g \in Handlers : Holder(g, n) /\ OwnedBy(n)
    <3>1. PICK g \in Handlers : Holder(g, n) /\ OwnedBy(n)
      BY <2>2
    <3>2. Holder(g, n)'
      BY <1>0, <1>3, <3>1 DEF Holder, Holding, OthersKept
    <3> QED BY <1>0, <3>1, <3>2 DEF OwnedBy
  <2> QED BY <1>4, <2>1, <2>2
<1>8. OneKiller'
  BY <1>3 DEF WriterInv, OneKiller, OthersKept
<1>9. DrainersOK'
  BY <1>0, <1>2, <1>6 DEF WriterInv, DrainersOK, TypeInv, RegistryOK
<1> QED BY <1>0, <1>4, <1>5, <1>7, <1>8, <1>9 DEF WriterInv

\* The handlers' steps that start, publish and kill nothing and hold nothing.
LEMMA IdleStepWriter ==
  ASSUME TypeInv, WriterInv, NEW h \in Handlers,
         \/ ListLive(h) \/ BoundPIDsByFigaro(h) \/ ListTree(h) \/ ListAnswer(h)
         \/ BindShell(h) \/ KillGet(h) \/ RemoveAria(h) \/ ForkGet(h) \/ Fork(h)
         \/ SaveList(h) \/ SaveAria(h) \/ SaveWrite(h)
  PROVE  WriterInv'
<1>0. Quiet'
  BY StepAwake DEF Step
<1>1. UNCHANGED <<figaros, killing, drainer, agent>> /\ pc[h] \notin Holding
  BY DEF ListLive, BoundPIDsByFigaro, ListTree, ListAnswer, BindShell, KillGet, RemoveAria, ForkGet,
         Fork, SaveList, SaveAria, SaveWrite, registry, life, Holding
<1>2. minted \subseteq minted'
  <2>1. CASE Fork(h)
    BY <2>1 DEF Fork, Mint, tree
  <2>2. CASE ~ Fork(h)
    BY <2>2 DEF ListLive, BoundPIDsByFigaro, ListTree, ListAnswer, BindShell, KillGet, RemoveAria,
                ForkGet, SaveList, SaveAria, SaveWrite, tree
  <2> QED BY <2>1, <2>2
<1>3. Calm
  BY <1>1, <1>2, CalmTrivially
<1>4. OthersKept(h) /\ pc'[h] \notin Busy
  <2>1. CASE ListLive(h) \/ BoundPIDsByFigaro(h) \/ ListTree(h) \/ KillGet(h) \/ SaveList(h)
    BY <2>1, GotoKeeps DEF ListLive, BoundPIDsByFigaro, ListTree, KillGet, SaveList, Busy, Restoring
  <2>2. CASE ListAnswer(h) \/ BindShell(h) \/ RemoveAria(h) \/ Fork(h) \/ SaveWrite(h)
    BY <2>2, ReturnKeeps DEF ListAnswer, BindShell, RemoveAria, Fork, SaveWrite, Busy, Restoring
  <2>3. CASE ForkGet(h)
    <3>1. PICK n : mine' = [mine EXCEPT ![h] = n]
      BY <2>3 DEF ForkGet
    <3>2. \A g \in Handlers : g # h => mine'[g] = mine[g]
      BY <3>1 DEF TypeInv, HandlersOK
    <3> QED BY <2>3, <3>2, GotoKeeps DEF ForkGet, Busy, Restoring
  <2>4. CASE SaveAria(h)
    BY <2>4 DEF SaveAria, OthersKept, Busy, Restoring
  <2> QED BY <2>1, <2>2, <2>3, <2>4
<1> QED BY <1>0, <1>1, <1>3, <1>4, CalmLeave

LEMMA StepWriter ==
  ASSUME TypeInv, WriterInv, NEW h \in Handlers, Step(h) PROVE WriterInv'
  BY IdleStepWriter, SpawnWriter, SeedWriter, LookupWriter, LockWriter, OpenWriter, BuildWriter,
     AdmitWriter, EnterWriter, DiscardWriter, KillMarkWriter, KillWaitWriter DEF Step

LEMMA AcceptWriter ==
  ASSUME TypeInv, WriterInv, NEW h \in Handlers, NEW r \in Requests, Accept(h, r) PROVE WriterInv'
<1>1. FirstStep(r.op) \notin Busy
  BY DEF FirstStep, Requests, Request, Busy, Restoring
<1>2. /\ UNCHANGED <<figaros, killing, drainer, agent, minted>> /\ Quiet' /\ pc[h] = "idle"
      /\ pc' = [pc EXCEPT ![h] = FirstStep(r.op)] /\ req' = [req EXCEPT ![h] = r]
      /\ UNCHANGED <<mine, lock>>
  BY DEF Accept, registry, life, tree, Quiet
<1>3. OthersKept(h) /\ pc'[h] = FirstStep(r.op)
  BY <1>2 DEF OthersKept, TypeInv, HandlersOK
<1>4. Calm
  BY <1>2, CalmTrivially
<1> QED BY <1>1, <1>2, <1>3, <1>4, CalmLeave DEF Holding

\* Shutdown's goroutines.
LEMMA DrainWriter ==
  ASSUME TypeInv, WriterInv, UNCHANGED <<figaros, minted, pc, req, mine, lock>>, Quiet',
         killing \subseteq killing', DrainersOK',
         \A n \in Agents : agent'[n].aria = agent[n].aria /\ (Running(n)' => Running(n)),
         \A b \in killing : drainer'[b].st \in Taking => drainer[b].st \in Taking
  PROVE  WriterInv'
<1>1. ASSUME NEW g \in Handlers PROVE WorkOK(g)'
  <2>1. WorkOK(g) /\ HandlerOK(g)
    BY DEF WriterInv, TypeInv, HandlersOK
  <2>2. pc[g] \in Holding => mine[g] \in Agents
    BY <2>1 DEF HandlerOK, Holding
  <2> QED BY <2>1, <2>2 DEF WorkOK, Registered
<1>2. Published'
  BY DEF WriterInv, Published, Registered, TypeInv, RegistryOK
<1>3. Owned'
  BY DEF WriterInv, Owned, OwnedBy, Holder
<1>4. OneKiller'
  BY DEF WriterInv, OneKiller
<1> QED BY <1>1, <1>2, <1>3, <1>4 DEF WriterInv

LEMMA DrainListWriter ==
  ASSUME TypeInv, WriterInv, DrainList PROVE WriterInv'
<1>1. /\ UNCHANGED <<figaros, killing, minted, pc, req, mine, lock, agent>> /\ Quiet'
  BY DEF DrainList, registry, tree, handler, Quiet
<1>2. \A a \in Arias : drainer'[a].st \notin Taking
  BY DEF DrainList, NoDrain, Taking
<1>3. \A n \in Agents : agent'[n].aria = agent[n].aria /\ (Running(n)' => Running(n))
  BY <1>1 DEF Running
<1>4. DrainersOK' /\ \A b \in killing : drainer'[b].st \in Taking => drainer[b].st \in Taking
  BY <1>2 DEF DrainersOK, TypeInv, RegistryOK
<1> QED BY <1>1, <1>3, <1>4, DrainWriter

LEMMA DrainKillWriter ==
  ASSUME TypeInv, WriterInv, NEW a \in Arias, DrainKill(a) PROVE WriterInv'
<1>1. UNCHANGED <<figaros, minted, pc, req, mine, lock>> /\ Quiet'
  BY DEF DrainKill, tree, handler, WriterInv, Quiet
<1>2. \A n \in Agents : agent'[n].aria = agent[n].aria /\ (Running(n)' => Running(n))
  <2>1. Registered(a) => figaros[a] \in Agents
    BY DEF Registered, TypeInv, RegistryOK
  <2> QED BY <2>1, CalmCancel DEF DrainKill, Running
<1>3. PICK d : drainer' = [drainer EXCEPT ![a] = d] /\ (d = NoDrain \/ a \notin killing)
  BY DEF DrainKill
<1>4. \A b \in killing : drainer'[b].st \in Taking => drainer[b].st \in Taking
  BY <1>3 DEF TypeInv, AgentsOK, RegistryOK, NoDrain, Taking
<1>5. killing \subseteq killing'
  BY DEF DrainKill
<1>6. DrainersOK'
  <2>1. CASE drainer' = [drainer EXCEPT ![a] = NoDrain] /\ UNCHANGED killing
    BY <1>1, <2>1 DEF WriterInv, DrainersOK, TypeInv, AgentsOK, NoDrain, Taking
  <2>2. CASE /\ drainer' = [drainer EXCEPT ![a] = [st |-> "kill", agent |-> figaros[a]]]
             /\ killing' = killing \cup {a}
    BY <1>1, <2>2 DEF WriterInv, DrainersOK, TypeInv, AgentsOK, Taking
  <2> QED BY <2>1, <2>2 DEF DrainKill
<1> QED BY <1>1, <1>2, <1>4, <1>5, <1>6, DrainWriter

LEMMA DrainAbandonWriter ==
  ASSUME TypeInv, WriterInv, NEW a \in Arias, DrainAbandon(a) PROVE WriterInv'
<1>1. UNCHANGED <<figaros, killing, minted, pc, req, mine, lock, agent>> /\ Quiet'
  BY DEF DrainAbandon, registry, tree, handler, WriterInv, Quiet
<1>2. \A n \in Agents : agent'[n].aria = agent[n].aria /\ (Running(n)' => Running(n))
  BY <1>1 DEF Running
<1>3. /\ drainer[a].st \in Taking /\ drainer'[a].agent = drainer[a].agent
      /\ \A b \in Arias : b # a => drainer'[b] = drainer[b]
  BY DEF DrainAbandon, TypeInv, AgentsOK, Taking
<1>4. DrainersOK' /\ \A b \in killing : drainer'[b].st \in Taking => drainer[b].st \in Taking
  BY <1>1, <1>3 DEF WriterInv, DrainersOK, TypeInv, RegistryOK
<1> QED BY <1>1, <1>2, <1>4, DrainWriter

LEMMA DrainUnpublishWriter ==
  ASSUME TypeInv, WriterInv, NEW a \in Arias, DrainUnpublish(a) PROVE WriterInv'
<1>0. /\ UNCHANGED <<agent, minted, pc, req, mine, lock>> /\ Quiet'
      /\ drainer' = [drainer EXCEPT ![a] = NoDrain] /\ Unpublish(a)
      /\ drainer[a].st \in Taking /\ agent[drainer[a].agent].st = "done"
  BY DEF DrainUnpublish, tree, handler, WriterInv, Quiet, Taking
<1>1. figaros[a] = drainer[a].agent /\ figaros[a] \in Agents
  BY <1>0 DEF WriterInv, DrainersOK, TypeInv, AgentsOK, Taking
<1>2. \A b \in Arias : b # a => drainer'[b] = drainer[b]
  BY <1>0 DEF TypeInv, AgentsOK
<1>3. /\ Published'
      /\ \A n \in Agents : Running(n)' =>
           \/ OwnedBy(n) /\ agent[n].aria # a
           \/ \E g \in Handlers : Holder(g, n) /\ OwnedBy(n)
      /\ \A g \in Handlers :
              (pc[g] = "killWait" => req[g].aria # a) /\ pc'[g] = pc[g] /\ req'[g] = req[g]
                /\ mine'[g] = mine[g] /\ (\A b \in Arias : lock[b] = g => lock'[b] = g)
                /\ (\A b \in Arias : b # a => drainer'[b] = drainer[b])
              => WorkOK(g)'
  BY <1>0, <1>1, UnpublishWriter
<1>4. ASSUME NEW g \in Handlers PROVE WorkOK(g)'
  <2>1. pc[g] = "killWait" => req[g].aria # a
    BY <1>0 DEF WriterInv, WorkOK
  <2> QED BY <1>0, <1>2, <1>3, <2>1
<1>5. figaros' = [figaros EXCEPT ![a] = None] /\ killing' = killing \ {a}
  BY <1>0 DEF Unpublish
<1>6. Owned'
  <2> SUFFICES ASSUME NEW n \in Agents, Running(n)' PROVE OwnedBy(n)'
    BY DEF Owned
  <2>1. CASE OwnedBy(n) /\ agent[n].aria # a
    BY <1>0, <1>5, <2>1 DEF OwnedBy, Holder, TypeInv, RegistryOK
  <2>2. CASE \E g \in Handlers : Holder(g, n) /\ OwnedBy(n)
    BY <1>0, <2>2 DEF OwnedBy, Holder
  <2> QED BY <1>3, <2>1, <2>2
<1>7. OneKiller'
  BY <1>0 DEF WriterInv, OneKiller
<1>8. DrainersOK'
  BY <1>0, <1>2, <1>5 DEF WriterInv, DrainersOK, TypeInv, RegistryOK, AgentsOK, NoDrain, Taking
<1> QED BY <1>0, <1>3, <1>4, <1>6, <1>7, <1>8 DEF WriterInv

LEMMA WipedWriter ==
  ASSUME WriterInv, Wiped, UNCHANGED minted PROVE WriterInv'
<1>1. \A h \in Handlers : pc'[h] = "idle"
  BY DEF Wiped
<1>2. \A h \in Handlers : WorkOK(h)'
  BY <1>1 DEF WorkOK, Restoring, Holding
<1>3. OneKiller' /\ Quiet'
  BY <1>1 DEF OneKiller, Quiet
<1>4. Published' /\ DrainersOK'
  BY DEF Wiped, Published, Registered, DrainersOK, NoDrain, Taking
<1>5. Owned'
  BY DEF Wiped, Owned, Running, Unborn
<1> QED BY <1>2, <1>3, <1>4, <1>5 DEF WriterInv

\* RestoreBindings runs before the daemon serves: no handler is at work.
LEMMA RestoreNextWriter ==
  ASSUME TypeInv, WriterInv, RestoreNext PROVE WriterInv'
<1>0. /\ UNCHANGED <<drainer, minted, pc, req, mine, lock>> /\ Quiet'
      /\ \A h \in Handlers : pc[h] = "idle"
  BY DEF RestoreNext, tree, handler, life, WriterInv, Quiet
<1>1. PICK e \in Entry : e = Head(todo)
  BY HeadTailProperties DEF RestoreNext, TypeInv, FilesOK
<1>2. PICK a \in Arias : a = e.aria
  BY DEF Entry
<1>3. CASE UNCHANGED <<registry, agent, asked>>
  <2>1. Calm
    BY <1>0, <1>3, CalmTrivially DEF registry
  <2> QED BY <1>0, <2>1, CalmRest
<1>4. CASE /\ \E n \in Agents :
               /\ IF Registered(a) THEN n = figaros[a] /\ UNCHANGED agent
                  ELSE Free(n) /\ agent' = Started(n, a)
               /\ figaros' = [figaros EXCEPT ![a] = n]
           /\ UNCHANGED killing
  <2>1. PICK n \in Agents :
          /\ IF Registered(a) THEN n = figaros[a] /\ UNCHANGED agent
             ELSE Free(n) /\ agent' = Started(n, a)
          /\ figaros' = [figaros EXCEPT ![a] = n]
    BY <1>4
  <2>2. CASE Registered(a)
    <3>1. UNCHANGED <<figaros, agent>>
      BY <2>1, <2>2 DEF TypeInv, RegistryOK
    <3> QED BY <1>0, <1>4, <3>1, CalmTrivially, CalmRest
  <2>3. CASE ~ Registered(a)
    <3>1. /\ agent'[n] = [aria |-> a, st |-> "live"]
          /\ \A m \in Agents : m # n => agent'[m] = agent[m] /\ (Running(m)' <=> Running(m))
          /\ \A b \in Arias : figaros[b] # n
      BY <2>1, <2>3, StartFresh
    <3>2. figaros'[a] = n /\ \A b \in Arias : b # a => figaros'[b] = figaros[b]
      BY <2>1 DEF TypeInv, RegistryOK
    <3>3. \A h \in Handlers : WorkOK(h)'
      BY <1>0 DEF WorkOK, Restoring, Holding
    <3>4. Published'
      BY <3>1, <3>2 DEF WriterInv, Published, Registered, TypeInv, RegistryOK
    <3>5. Owned'
      <4> SUFFICES ASSUME NEW m \in Agents, Running(m)' PROVE OwnedBy(m)'
        BY DEF Owned
      <4>1. CASE m = n
        BY <3>1, <3>2, <4>1 DEF OwnedBy
      <4>2. CASE m # n
        <5>1. OwnedBy(m) /\ agent'[m] = agent[m]
          BY <3>1, <4>2 DEF WriterInv, Owned
        <5>2. figaros[agent[m].aria] = m /\ agent[m].aria \in Arias
          BY <1>0, <5>1 DEF OwnedBy, Holder, Holding
        <5>3. agent[m].aria # a
          BY <2>3, <5>2, AngelusAssumption DEF Registered, Agents
        <5> QED BY <3>2, <5>1, <5>2, <5>3 DEF OwnedBy
      <4> QED BY <4>1, <4>2
    <3>6. OneKiller'
      BY <1>0 DEF OneKiller
    <3>7. DrainersOK'
      <4>1. ASSUME NEW b \in Arias, drainer[b].st \in Taking PROVE b # a
        BY <2>3, <4>1, AngelusAssumption
           DEF WriterInv, DrainersOK, TypeInv, AgentsOK, Registered, Taking, Agents
      <4> QED BY <1>0, <1>4, <3>2, <4>1 DEF WriterInv, DrainersOK
    <3> QED BY <1>0, <3>3, <3>4, <3>5, <3>6, <3>7 DEF WriterInv
  <2> QED BY <2>2, <2>3
<1> QED BY <1>1, <1>2, <1>3, <1>4 DEF RestoreNext

LEMMA NextWriter ==
  ASSUME TypeInv, WriterInv, Next PROVE WriterInv'
<1>1. ASSUME UNCHANGED <<figaros, killing, drainer, minted, pc, req, mine, lock>>, UNCHANGED agent, Quiet'
      PROVE  WriterInv'
  BY <1>1, CalmTrivially, CalmRest
<1>2. ASSUME NEW p \in Pids, RequestUnbind(p) \/ ShellExits(p) \/ ShellStarts(p) PROVE WriterInv'
  <2>1. Quiet'
    BY <1>2 DEF RequestUnbind, ShellExits, ShellStarts, life, handler, WriterInv, Quiet
  <2> QED BY <1>1, <1>2, <2>1 DEF RequestUnbind, ShellExits, ShellStarts, registry, life, tree, handler
<1>3. ASSUME NEW a \in Arias, Promote(a) PROVE WriterInv'
  <2>1. Quiet'
    BY <1>3 DEF Promote, life, handler, WriterInv, Quiet
  <2> QED BY <1>1, <1>3, <2>1 DEF Promote, registry, life
<1>4. ASSUME NEW n \in Agents, AgentExit(n) PROVE WriterInv'
  <2>1. Quiet' /\ UNCHANGED <<figaros, killing, drainer, minted, pc, req, mine, lock>>
    BY <1>4 DEF AgentExit, registry, life, tree, handler, WriterInv, Quiet
  <2>2. \A m \in Agents : agent'[m].aria = agent[m].aria /\ (Running(m)' => Running(m))
    BY <1>4 DEF AgentExit, Running, TypeInv, AgentsOK
  <2> QED BY <2>1, <2>2, CalmRest DEF Calm
<1>5. ASSUME Reap \/ Signal \/ CloseStore \/ Start \/ RestoreDone PROVE WriterInv'
  <2>1. Quiet'
    BY <1>5 DEF Reap, ReapList, ReapOne, Signal, CloseStore, Start, RestoreDone, life, handler,
                WriterInv, Quiet
  <2> QED BY <1>1, <1>5, <2>1 DEF Reap, ReapList, ReapOne, Signal, CloseStore, Start, RestoreDone,
                registry, life, tree, handler
<1>6. ASSUME Exit \/ Crash PROVE WriterInv'
  BY <1>6, WipedWriter DEF Exit, Crash
<1> QED BY <1>2, <1>3, <1>4, <1>5, <1>6, StepWriter, AcceptWriter, DrainListWriter, DrainKillWriter,
           DrainUnpublishWriter, DrainAbandonWriter, RestoreNextWriter
     DEF Next, SomeExit, Drain, Restart

LEMMA InitWriter ==
  ASSUME Init PROVE WriterInv
<1>1. PICK f \in [Known -> 1..Cardinality(Known)] :
       /\ IsInjective(f)
       /\ figaros = [a \in Arias |-> IF a \in Known THEN f[a] ELSE None]
       /\ agent = [n \in Agents |->
                     IF n \in Range(f) THEN [aria |-> CHOOSE a \in Known : f[a] = n, st |-> "live"]
                     ELSE Unborn]
  BY DEF Init
<1>2. Cardinality(Known) \in Nat /\ 1..Cardinality(Known) \subseteq Agents /\ Known \subseteq Arias
  BY AngelusAssumption, FS_Subset, FS_CardinalityType DEF Agents
<1>3. \A a \in Known : f[a] \in Range(f) /\ f[a] \in Agents /\ (CHOOSE b \in Known : f[b] = f[a]) = a
  BY <1>1, <1>2 DEF Range, IsInjective
<1>4. Published
  BY <1>1, <1>2, <1>3 DEF Published, Registered
<1>5. Owned
  <2> SUFFICES ASSUME NEW n \in Agents, Running(n) PROVE OwnedBy(n)
    BY DEF Owned
  <2>1. n \in Range(f)
    BY <1>1 DEF Running, Unborn
  <2>2. PICK a \in Known : f[a] = n
    BY <2>1 DEF Range
  <2>3. agent[n].aria = a
    BY <1>1, <1>3, <2>1, <2>2
  <2> QED BY <1>1, <1>2, <2>2, <2>3 DEF OwnedBy
<1>6. OneKiller /\ DrainersOK /\ Quiet /\ Known \subseteq minted
  BY DEF Init, OneKiller, DrainersOK, Quiet, NoDrain, Taking
<1>7. \A h \in Handlers : WorkOK(h)
  BY DEF Init, WorkOK, Restoring, Holding
<1> QED BY <1>4, <1>5, <1>6, <1>7 DEF WriterInv

\* Never two drain loops on the log of an aria the store knew, however attaches,
\* binds, creates, kills, shutdowns, crashes and restarts overlap, and for any
\* number of each; for a created aria the second is one Register has not accepted.
THEOREM OneWriterCorrect == Spec => []OneWriter
<1>1. Init => WriterInv
  BY InitWriter
<1>2. TypeInv /\ WriterInv /\ [Next]_vars => WriterInv'
  <2>1. ASSUME TypeInv, WriterInv, UNCHANGED vars PROVE WriterInv'
    <3>1. Quiet' /\ UNCHANGED <<figaros, killing, drainer, agent, minted, pc, req, mine, lock>>
      BY <2>1 DEF vars, registry, tree, life, handler, WriterInv, Quiet
    <3> QED BY <2>1, <3>1, CalmTrivially, CalmRest
  <2> QED BY <2>1, NextWriter
<1>3. TypeInv /\ WriterInv => OneWriter
  BY WriterInvOneWriter
<1> QED BY <1>1, <1>2, <1>3, TypeInvCorrect, PTL DEF Spec

-----------------------------------------------------------------------------
(* The bindings that are back when a daemon starts to serve                 *)
(*                                                                          *)
(* What SaveBindings should bring back is the one entry of its pid in the   *)
(* file, and a process that has not been seen by then cannot come to be the *)
(* one it names; while the daemon restores, each such entry is still to be  *)
(* looked at, is bound, or cannot be bound any more.                        *)

Gone(p) == procs[p] = 0 \/ kept[p].start # procs[p]
Back(p) == pidToFigaro[p] = kept[p].aria \/ kept[p].aria \notin stored \/ Gone(p)

ProcsOK == \A p \in Pids : procs[p] \in {0, starts[p]}

KeptOK ==
  \A p \in Pids : kept[p] # None =>
    /\ {e \in Range(file) : e.pid = p} = {kept[p]}
    /\ kept[p].start <= starts[p]

SavedOK(h) == \A e \in Range(saving[h].entries) : e.start <= starts[e.pid]
SavingOK == \A h \in Handlers : SavedOK(h)

RestoringOK ==
  daemon = "restoring" =>
    /\ Range(todo) \subseteq Range(file)
    /\ \A p \in Pids : kept[p] # None => kept[p] \in Range(todo) \/ Back(p)

Asleep ==
  /\ daemon \in {"down", "restoring", "stopped"} => reaping = {}
  /\ daemon \in {"down", "restoring"} => \A a \in Arias : drainer[a].st = "none"

RestInv == ProcsOK /\ KeptOK /\ SavingOK /\ RestoringOK /\ Asleep

LEMMA RestUnchanged ==
  ASSUME RestInv, UNCHANGED <<procs, starts, file, kept, saving>>
  PROVE  ProcsOK' /\ KeptOK' /\ SavingOK'
<1>1. ProcsOK'
  BY DEF RestInv, ProcsOK
<1>2. KeptOK'
  BY DEF RestInv, KeptOK
<1>3. SavingOK'
  BY DEF RestInv, SavingOK, SavedOK
<1> QED BY <1>1, <1>2, <1>3

\* A daemon that serves restores nothing.
LEMMA ServingOK ==
  ASSUME daemon' \notin {"down", "restoring", "stopped"}
  PROVE  RestoringOK' /\ Asleep'
  BY DEF RestoringOK, Asleep

LEMMA RangeConcat ==
  ASSUME NEW S, NEW s \in Seq(S), NEW t \in Seq(S)
  PROVE  Range(s \o t) = Range(s) \cup Range(t)
<1>1. /\ s \o t \in Seq(S) /\ Len(s \o t) = Len(s) + Len(t) /\ Len(s) \in Nat /\ Len(t) \in Nat
      /\ \A i \in 1..Len(s) + Len(t) : (s \o t)[i] = IF i <= Len(s) THEN s[i] ELSE t[i - Len(s)]
  BY ConcatProperties, LenProperties
<1>2. DOMAIN s = 1..Len(s) /\ DOMAIN t = 1..Len(t) /\ DOMAIN (s \o t) = 1..Len(s) + Len(t)
  BY <1>1, LenProperties
<1>3. ASSUME NEW x \in Range(s \o t) PROVE x \in Range(s) \cup Range(t)
  <2>1. PICK i \in 1..Len(s) + Len(t) : (s \o t)[i] = x
    BY <1>2, <1>3 DEF Range
  <2> QED BY <1>1, <1>2, <2>1 DEF Range
<1>4. ASSUME NEW i \in 1..Len(s) PROVE s[i] \in Range(s \o t)
  <2>1. i \in 1..Len(s) + Len(t) /\ (s \o t)[i] = s[i]
    BY <1>1, <1>4
  <2> QED BY <1>2, <2>1 DEF Range
<1>5. ASSUME NEW i \in 1..Len(t) PROVE t[i] \in Range(s \o t)
  <2>1. Len(s) + i \in 1..Len(s) + Len(t) /\ (s \o t)[Len(s) + i] = t[i]
    BY <1>1, <1>5
  <2> QED BY <1>2, <2>1 DEF Range
<1>6. Range(s) \cup Range(t) \subseteq Range(s \o t)
  BY <1>2, <1>4, <1>5 DEF Range
<1> QED BY <1>3, <1>6

\* An entry of a save carries the process that had the pid when it was looked up.
LEMMA SaveAriaRest ==
  ASSUME TypeInv, RestInv, NEW h \in Handlers, SaveAria(h) PROVE ProcsOK' /\ KeptOK' /\ SavingOK'
<1>1. UNCHANGED <<procs, starts, file, kept>>
  BY DEF SaveAria, shells, boot
<1>2. PICK a \in saving[h].left :
           /\ a \in Arias
           /\ saving' = [saving EXCEPT ![h] =
                           [left |-> saving[h].left \ {a},
                            entries |-> saving[h].entries \o SetToSeq(EntriesOf(a)),
                            was |-> saving[h].was]]
  BY SaveAriaStep
<1>3. saving[h].entries \in Seq(Entry) /\ SetToSeq(EntriesOf(a)) \in Seq(Entry)
      /\ Range(SetToSeq(EntriesOf(a))) = EntriesOf(a)
  BY <1>2, EntriesOfOK DEF TypeInv, FilesOK
<1>4. Range(saving[h].entries \o SetToSeq(EntriesOf(a))) = Range(saving[h].entries) \cup EntriesOf(a)
  BY <1>3, RangeConcat
<1>5. saving'[h].entries = saving[h].entries \o SetToSeq(EntriesOf(a))
  BY <1>2 DEF TypeInv, FilesOK
<1>6. \A e \in EntriesOf(a) : e.start <= starts[e.pid]
  <2>1. figaroPIDs[a] \subseteq Pids
    BY <1>2 DEF TypeInv, RegistryOK
  <2>2. \A p \in figaroPIDs[a] : procs[p] <= starts[p]
    BY <2>1, AngelusAssumption DEF RestInv, ProcsOK, TypeInv, ShellsOK
  <2> QED BY <2>2 DEF EntriesOf
<1>7. SavedOK(h)'
  BY <1>1, <1>4, <1>5, <1>6 DEF SavedOK, RestInv, SavingOK
<1>8. ASSUME NEW g \in Handlers, g # h PROVE SavedOK(g)'
  <2>1. saving'[g] = saving[g]
    BY <1>2, <1>8 DEF TypeInv, FilesOK
  <2> QED BY <1>1, <2>1 DEF SavedOK, RestInv, SavingOK
<1>9. ProcsOK' /\ KeptOK'
  BY <1>1 DEF RestInv, ProcsOK, KeptOK
<1> QED BY <1>7, <1>8, <1>9 DEF SavingOK

LEMMA SaveListRest ==
  ASSUME TypeInv, RestInv, NEW h \in Handlers, SaveList(h) PROVE ProcsOK' /\ KeptOK' /\ SavingOK'
<1>1. UNCHANGED <<procs, starts, file, kept>>
  BY DEF SaveList, shells, boot
<1>2. PICK r : saving' = [saving EXCEPT ![h] = r] /\ r.entries = <<>>
  <2>1. PICK l : l = {a \in Arias : Registered(a)}
    OBVIOUS
  <2>2. saving' = [saving EXCEPT ![h] = [left |-> l, entries |-> <<>>, was |-> pidToFigaro]]
    BY <2>1 DEF SaveList
  <2>3. [left |-> l, entries |-> <<>>, was |-> pidToFigaro].entries = <<>>
    OBVIOUS
  <2> QED BY <2>2, <2>3
<1>3. SavedOK(h)'
  BY <1>2 DEF SavedOK, Range, TypeInv, FilesOK
<1>4. ASSUME NEW g \in Handlers, g # h PROVE SavedOK(g)'
  <2>1. saving'[g] = saving[g]
    BY <1>2, <1>4 DEF TypeInv, FilesOK
  <2> QED BY <1>1, <2>1 DEF SavedOK, RestInv, SavingOK
<1>5. ProcsOK' /\ KeptOK'
  BY <1>1 DEF RestInv, ProcsOK, KeptOK
<1> QED BY <1>3, <1>4, <1>5 DEF SavingOK

\* What the save should bring back is the one entry of its pid.
LEMMA SaveWriteRest ==
  ASSUME TypeInv, RestInv, NEW h \in Handlers, SaveWrite(h) PROVE ProcsOK' /\ KeptOK' /\ SavingOK'
<1>1. UNCHANGED <<procs, starts>> /\ file' = saving[h].entries
  BY DEF SaveWrite, shells
<1>2. saving' = [saving EXCEPT ![h] = NoSave]
  BY DEF SaveWrite
<1>3. SavedOK(h)'
  BY <1>2 DEF SavedOK, Range, TypeInv, FilesOK, NoSave
<1>4. ASSUME NEW g \in Handlers, g # h PROVE SavedOK(g)'
  <2>1. saving'[g] = saving[g]
    BY <1>2, <1>4 DEF TypeInv, FilesOK
  <2> QED BY <1>1, <2>1 DEF SavedOK, RestInv, SavingOK
<1>5. ASSUME NEW p \in Pids, kept'[p] # None
      PROVE  Saved(h, p) = {kept'[p]}
  BY <1>5 DEF SaveWrite
<1>6. KeptOK'
  <2> SUFFICES ASSUME NEW p \in Pids, kept'[p] # None
               PROVE  /\ {e \in Range(file') : e.pid = p} = {kept'[p]}
                      /\ kept'[p].start <= starts'[p]
    BY DEF KeptOK
  <2>1. kept'[p] \in Range(saving[h].entries) /\ kept'[p].pid = p
    BY <1>5 DEF Saved
  <2>2. kept'[p].start <= starts[p]
    BY <2>1 DEF RestInv, SavingOK, SavedOK
  <2> QED BY <1>1, <1>5, <2>2 DEF Saved
<1>7. ProcsOK'
  BY <1>1 DEF RestInv, ProcsOK
<1> QED BY <1>3, <1>4, <1>6, <1>7 DEF SavingOK

LEMMA StepRest ==
  ASSUME TypeInv, WriterInv, RestInv, NEW h \in Handlers, Step(h) PROVE RestInv'
<1>1. pc[h] # "idle" /\ UNCHANGED <<daemon, drainer>>
  BY DEF Step, ListLive, BoundPIDsByFigaro, ListTree, ListAnswer, Spawn, Seed, Lookup, Lock, Open,
         Build, Admit, Enter, Discard, BindShell, KillGet, KillMark, KillWait, RemoveAria, ForkGet,
         Fork, SaveList, SaveAria, SaveWrite, life
<1>2. UNCHANGED reaping
  BY DEF Step, ListLive, BoundPIDsByFigaro, ListTree, ListAnswer, Spawn, Seed, Lookup, Lock, Open,
         Build, Admit, Enter, Discard, BindShell, KillGet, KillMark, KillWait, RemoveAria, ForkGet,
         Fork, SaveList, SaveAria, SaveWrite
<1>3. daemon \notin {"down", "restoring"}
  BY <1>1 DEF WriterInv, Quiet
<1>4. RestoringOK' /\ Asleep'
  BY <1>1, <1>2, <1>3 DEF RestoringOK, Asleep, RestInv
<1>5. CASE SaveList(h) \/ SaveAria(h) \/ SaveWrite(h)
  BY <1>4, <1>5, SaveListRest, SaveAriaRest, SaveWriteRest DEF RestInv
<1>6. CASE ~ (SaveList(h) \/ SaveAria(h) \/ SaveWrite(h))
  <2>1. UNCHANGED <<procs, starts, file, kept, saving>>
    BY <1>6 DEF Step, ListLive, BoundPIDsByFigaro, ListTree, ListAnswer, Spawn, Seed, Lookup, Lock,
         Open, Build, Admit, Enter, Discard, BindShell, KillGet, KillMark, KillWait, RemoveAria,
         ForkGet, Fork, shells, boot
  <2> QED BY <1>4, <2>1, RestUnchanged DEF RestInv
<1> QED BY <1>5, <1>6

\* While the daemon restores, a binding that is back stays back, and one that
\* cannot be bound any more never can: a pid's next process is a new one.
LEMMA GoneStays ==
  ASSUME TypeInv, RestInv, NEW p \in Pids, kept[p] # None, Gone(p), kept'[p] = kept[p],
         \/ UNCHANGED <<procs, starts>>
         \/ \E q \in Pids : ShellExits(q) \/ ShellStarts(q)
  PROVE  Gone(p)'
<1>1. kept[p] \in Entry /\ kept[p].start \in Nat /\ kept[p].start <= starts[p]
  BY DEF TypeInv, FilesOK, RestInv, KeptOK, Entry
<1>2. procs[p] \in {0, starts[p]} /\ starts[p] \in Nat
  BY AngelusAssumption DEF RestInv, ProcsOK, TypeInv, ShellsOK
<1>3. CASE UNCHANGED <<procs, starts>>
  BY <1>3 DEF Gone
<1>4. CASE \E q \in Pids : ShellExits(q) \/ ShellStarts(q)
  <2>1. PICK q \in Pids : ShellExits(q) \/ ShellStarts(q)
    BY <1>4
  <2>2. CASE q # p
    BY <2>1, <2>2 DEF Gone, ShellExits, ShellStarts, TypeInv, ShellsOK
  <2>3. CASE q = p
    BY <1>1, <1>2, <2>1, <2>3 DEF Gone, ShellExits, ShellStarts, TypeInv, ShellsOK
  <2> QED BY <2>2, <2>3
<1> QED BY <1>3, <1>4

LEMMA ShellRest ==
  ASSUME TypeInv, RestInv, NEW q \in Pids, ShellExits(q) \/ ShellStarts(q) PROVE RestInv'
<1>1. UNCHANGED <<file, todo, kept, saving, daemon, reaping, drainer, pidToFigaro, stored>>
  BY DEF ShellExits, ShellStarts, registry, tree, life, boot, handler
<1>2. \A p \in Pids : starts[p] \in Nat /\ starts'[p] \in Nat /\ starts[p] <= starts'[p]
  BY AngelusAssumption DEF ShellExits, ShellStarts, TypeInv, ShellsOK
<1>3. ProcsOK'
  BY <1>2 DEF ShellExits, ShellStarts, TypeInv, ShellsOK, RestInv, ProcsOK
<1>4. KeptOK'
  <2> SUFFICES ASSUME NEW p \in Pids, kept[p] # None
               PROVE  {e \in Range(file) : e.pid = p} = {kept[p]} /\ kept[p].start <= starts'[p]
    BY <1>1 DEF KeptOK
  <2>1. kept[p].start \in Nat
    BY DEF TypeInv, FilesOK, Entry
  <2> QED BY <1>2, <2>1 DEF RestInv, KeptOK
<1>5. SavingOK'
  <2> SUFFICES ASSUME NEW h \in Handlers, NEW e \in Range(saving[h].entries)
               PROVE  e.start <= starts'[e.pid]
    BY <1>1 DEF SavingOK, SavedOK
  <2>1. e \in Entry
    BY DEF TypeInv, FilesOK, Range
  <2>2. e.start \in Nat /\ e.pid \in Pids
    BY <2>1 DEF Entry
  <2> QED BY <1>2, <2>2 DEF RestInv, SavingOK, SavedOK
<1>6. RestoringOK'
  <2> SUFFICES ASSUME daemon = "restoring", NEW p \in Pids, kept[p] # None
               PROVE  kept[p] \in Range(todo) \/ Back(p)'
    BY <1>1 DEF RestoringOK, RestInv
  <2>1. kept[p] \in Range(todo) \/ Back(p)
    BY DEF RestInv, RestoringOK
  <2>2. Gone(p) => Gone(p)'
    BY <1>1, GoneStays
  <2> QED BY <1>1, <2>1, <2>2 DEF Back
<1>7. Asleep'
  BY <1>1 DEF RestInv, Asleep
<1> QED BY <1>3, <1>4, <1>5, <1>6, <1>7 DEF RestInv

\* Start reads the file; every binding it should bring back is in it.
LEMMA StartRest ==
  ASSUME RestInv, Start PROVE RestInv'
<1>1. UNCHANGED <<procs, starts, file, kept, saving, reaping, drainer>> /\ todo' = file
  BY DEF Start, shells, handler
<1>2. \A p \in Pids : kept[p] # None => kept[p] \in Range(file)
  BY DEF RestInv, KeptOK
<1>3. RestoringOK'
  BY <1>1, <1>2 DEF RestoringOK
<1>4. Asleep'
  BY <1>1 DEF Start, RestInv, Asleep
<1> QED BY <1>1, <1>3, <1>4, RestUnchanged DEF RestInv

LEMMA RestoreNextRest ==
  ASSUME TypeInv, RestInv, RestoreNext PROVE RestInv'
<1>1. /\ UNCHANGED <<procs, starts, file, kept, saving, daemon, reaping, drainer, stored>>
      /\ daemon = "restoring" /\ todo # <<>> /\ todo' = Tail(todo)
  BY DEF RestoreNext, shells, tree, life, handler
<1>2. PICK e \in Entry : e = Head(todo)
  BY HeadTailProperties DEF RestoreNext, TypeInv, FilesOK
<1>3. e.pid \in Pids /\ e.aria \in Arias
  BY DEF Entry
<1>4. Range(todo) = {e} \cup Range(Tail(todo))
  <2>1. todo \in Seq(Entry) /\ Len(todo) \in Nat /\ Len(todo) # 0 /\ DOMAIN todo = 1..Len(todo)
    BY <1>1, EmptySeq, LenProperties DEF TypeInv, FilesOK
  <2>2. /\ Tail(todo) \in Seq(Entry) /\ Len(Tail(todo)) = Len(todo) - 1 /\ e = todo[1]
        /\ \A i \in 1..Len(todo) - 1 : Tail(todo)[i] = todo[i + 1]
    BY <1>1, <1>2, <2>1, HeadTailProperties
  <2>3. DOMAIN Tail(todo) = 1..Len(todo) - 1
    BY <2>2, LenProperties
  <2>4. ASSUME NEW i \in 1..Len(todo) PROVE todo[i] \in {e} \cup Range(Tail(todo))
    <3>1. CASE i = 1
      BY <2>2, <3>1
    <3>2. CASE i # 1
      <4>1. i - 1 \in 1..Len(todo) - 1 /\ (i - 1) + 1 = i
        BY <2>1, <3>2
      <4>2. Tail(todo)[i - 1] = todo[i]
        BY <2>2, <4>1
      <4> QED BY <2>3, <4>1, <4>2 DEF Range
    <3> QED BY <3>1, <3>2
  <2>5. ASSUME NEW i \in 1..Len(todo) - 1 PROVE Tail(todo)[i] \in Range(todo)
    <3>1. i + 1 \in 1..Len(todo)
      BY <2>1, <2>5
    <3> QED BY <2>1, <2>2, <3>1 DEF Range
  <2>6. e \in Range(todo)
    BY <2>1, <2>2 DEF Range
  <2> QED BY <2>1, <2>3, <2>4, <2>5, <2>6 DEF Range
<1>5. e \in Range(file)
  BY <1>1, <1>4 DEF RestInv, RestoringOK
<1>6. ASSUME NEW p \in Pids, kept[p] # None PROVE kept[p] \in Range(todo') \/ Back(p)'
  <2>1. kept[p] \in Range(todo) \/ Back(p)
    BY <1>1, <1>6 DEF RestInv, RestoringOK
  <2>2. CASE e.pid # p
    <3>1. pidToFigaro'[p] = pidToFigaro[p]
      BY <1>2, <1>3, <2>2 DEF RestoreNext, Bind, registry, TypeInv, RegistryOK
    <3>2. Back(p) => Back(p)'
      BY <1>1, <3>1 DEF Back, Gone
    <3>3. kept[p] # e
      BY <1>6, <2>2 DEF RestInv, KeptOK
    <3> QED BY <1>1, <1>4, <2>1, <3>2, <3>3
  <2>3. CASE e.pid = p
    <3>1. kept[p] = e
      BY <1>5, <1>6, <2>3 DEF RestInv, KeptOK
    <3>2. CASE procs[p] = 0 \/ (e.start # 0 /\ procs[p] # e.start) \/ e.aria \notin stored
      BY <1>1, <3>1, <3>2 DEF Back, Gone
    <3>3. CASE ~ (procs[p] = 0 \/ (e.start # 0 /\ procs[p] # e.start) \/ e.aria \notin stored)
      <4>1. pidToFigaro' = [pidToFigaro EXCEPT ![p] = e.aria]
        BY <1>2, <2>3, <3>3 DEF RestoreNext, Bind
      <4>2. pidToFigaro'[p] = e.aria
        BY <4>1 DEF TypeInv, RegistryOK
      <4> QED BY <1>1, <3>1, <4>2 DEF Back
    <3> QED BY <3>2, <3>3
  <2> QED BY <2>2, <2>3
<1>7. RestoringOK'
  BY <1>1, <1>4, <1>6 DEF RestInv, RestoringOK
<1>8. Asleep'
  BY <1>1 DEF RestInv, Asleep
<1> QED BY <1>1, <1>7, <1>8, RestUnchanged DEF RestInv

LEMMA NextRest ==
  ASSUME TypeInv, WriterInv, RestInv, Next PROVE RestInv'
<1>1. ASSUME NEW h \in Handlers, NEW r \in Requests, Accept(h, r) PROVE RestInv'
  BY <1>1, RestUnchanged, ServingOK DEF Accept, RestInv, shells, boot, life
<1>2. ASSUME NEW p \in Pids, RequestUnbind(p) PROVE RestInv'
  BY <1>2, RestUnchanged, ServingOK DEF RequestUnbind, RestInv, shells, boot, life
<1>3. ASSUME NEW a \in Arias, Promote(a) PROVE RestInv'
  BY <1>3, RestUnchanged, ServingOK DEF Promote, RestInv, shells, boot, life
<1>4. ASSUME SomeExit PROVE RestInv'
  <2>1. UNCHANGED <<procs, starts, file, todo, kept, saving, daemon, reaping, drainer, pidToFigaro, stored>>
    BY <1>4 DEF SomeExit, AgentExit, registry, tree, shells, life, boot, handler
  <2>2. RestoringOK' /\ Asleep'
    BY <2>1 DEF RestInv, RestoringOK, Asleep, Back, Gone
  <2> QED BY <2>1, <2>2, RestUnchanged DEF RestInv
<1>5. ASSUME ReapList \/ Signal \/ DrainList PROVE RestInv'
  <2>1. UNCHANGED <<procs, starts, file, kept, saving>> /\ daemon' \in {"up", "signalled", "draining"}
    BY <1>5 DEF ReapList, Serving, Signal, DrainList, shells, boot, handler, life
  <2> QED BY <2>1, RestUnchanged, ServingOK DEF RestInv
<1>6. ASSUME NEW p \in Pids, ReapOne(p) PROVE RestInv'
  <2>1. daemon \notin {"down", "restoring", "stopped"}
    BY <1>6 DEF ReapOne, RestInv, Asleep
  <2>2. UNCHANGED <<procs, starts, file, kept, saving, daemon>>
    BY <1>6 DEF ReapOne, shells, boot, handler, life
  <2> QED BY <2>1, <2>2, RestUnchanged, ServingOK DEF RestInv
<1>7. ASSUME NEW a \in Arias, DrainKill(a) \/ DrainUnpublish(a) \/ DrainAbandon(a) PROVE RestInv'
  <2>1. daemon \notin {"down", "restoring"}
    BY <1>7 DEF DrainKill, DrainUnpublish, DrainAbandon, RestInv, Asleep
  <2>2. UNCHANGED <<procs, starts, file, kept, saving, daemon, reaping>>
    BY <1>7 DEF DrainKill, DrainUnpublish, DrainAbandon, shells, boot, handler
  <2>3. RestoringOK' /\ Asleep'
    BY <2>1, <2>2 DEF RestInv, RestoringOK, Asleep
  <2> QED BY <2>2, <2>3, RestUnchanged DEF RestInv
<1>8. ASSUME CloseStore PROVE RestInv'
  <2>1. UNCHANGED <<procs, starts, file, kept, saving>> /\ daemon' = "stopped" /\ reaping' = {}
    BY <1>8 DEF CloseStore, shells, boot, handler
  <2>2. RestoringOK' /\ Asleep'
    BY <2>1 DEF RestoringOK, Asleep
  <2> QED BY <2>1, <2>2, RestUnchanged DEF RestInv
<1>9. ASSUME Exit \/ Crash PROVE RestInv'
  <2>1. UNCHANGED <<procs, starts, file, kept>> /\ daemon' = "down" /\ Wiped
    BY <1>9 DEF Exit, Crash, shells
  <2>2. RestoringOK' /\ Asleep'
    BY <2>1 DEF Wiped, RestoringOK, Asleep, NoDrain
  <2>3. SavingOK'
    BY <2>1 DEF Wiped, SavingOK, SavedOK, Range, NoSave
  <2>4. ProcsOK' /\ KeptOK'
    BY <2>1 DEF RestInv, ProcsOK, KeptOK
  <2> QED BY <2>2, <2>3, <2>4 DEF RestInv
<1>10. ASSUME RestoreDone PROVE RestInv'
  <2>1. /\ UNCHANGED <<procs, starts, saving>> /\ daemon' = "up"
        /\ \A p \in Pids : kept'[p] = None
    BY <1>10 DEF RestoreDone, shells, handler
  <2>2. KeptOK'
    BY <2>1 DEF KeptOK
  <2>3. ProcsOK' /\ SavingOK'
    BY <2>1 DEF RestInv, ProcsOK, SavingOK, SavedOK
  <2> QED BY <2>1, <2>2, <2>3, ServingOK DEF RestInv
<1> QED BY <1>1, <1>2, <1>3, <1>4, <1>5, <1>6, <1>7, <1>8, <1>9, <1>10, StepRest, ShellRest,
           StartRest, RestoreNextRest
    DEF Next, Reap, Drain, Restart

\* A binding that was in force while SaveBindings ran is in force again when the
\* next daemon starts to serve, unless its process or its aria is gone, also when
\* daemons died while they restored (SaveBindings, RestoreBindings).
THEOREM BindingsSurviveRestCorrect == Spec => BindingsSurviveRest
<1> DEFINE Act == daemon = "restoring" /\ daemon' = "up" =>
                    \A p \in Pids :
                      kept[p] # None /\ procs[p] # 0 /\ kept[p].start = procs[p]
                        /\ kept[p].aria \in stored =>
                        pidToFigaro'[p] = kept[p].aria
<1> DEFINE Inv == TypeInv /\ WriterInv /\ RestInv
<1>1. Init => Inv
  <2>1. Init => RestInv
    BY DEF Init, RestInv, ProcsOK, KeptOK, SavingOK, SavedOK, RestoringOK, Asleep, Range, NoSave, NoDrain
  <2> QED BY <2>1, InitType, InitWriter
<1>2. Inv /\ [Next]_vars => Inv'
  <2>1. ASSUME Inv, UNCHANGED vars PROVE Inv'
    <3>1. Quiet' /\ UNCHANGED <<figaros, killing, drainer, agent, minted, pc, req, mine, lock>>
      BY <2>1 DEF vars, registry, tree, life, handler, WriterInv, Quiet
    <3>2. WriterInv'
      BY <2>1, <3>1, CalmTrivially, CalmRest
    <3>3. TypeInv'
      BY <2>1 DEF vars, registry, tree, shells, life, boot, handler, TypeInv, RegistryOK, AgentsOK,
            TreeOK, HandlersOK, HandlerOK, ListingOK, ShellsOK, FilesOK
    <3>4. UNCHANGED <<procs, starts, file, todo, kept, saving, daemon, reaping, drainer, pidToFigaro, stored>>
      BY <2>1 DEF vars, registry, tree, shells, life, boot, handler
    <3>5. RestoringOK' /\ Asleep'
      BY <2>1, <3>4 DEF RestInv, RestoringOK, Asleep, Back, Gone
    <3> QED BY <2>1, <3>2, <3>3, <3>4, <3>5, RestUnchanged DEF RestInv
  <2> QED BY <2>1, NextType, NextWriter, NextRest
<1>3. Inv /\ [Next]_vars => Act
  <2> SUFFICES ASSUME Inv, Next, daemon = "restoring", daemon' = "up", NEW p \in Pids,
                      kept[p] # None, procs[p] # 0, kept[p].start = procs[p], kept[p].aria \in stored
               PROVE  pidToFigaro'[p] = kept[p].aria
    BY DEF vars, life
  <2>1. RestoreDone
    <3>1. \A h \in Handlers : pc[h] = "idle"
      BY DEF WriterInv, Quiet
    <3>2. ASSUME NEW h \in Handlers PROVE ~ Step(h)
      BY <3>1 DEF Step, ListLive, BoundPIDsByFigaro, ListTree, ListAnswer, Spawn, Seed, Lookup, Lock,
         Open, Build, Admit, Enter, Discard, BindShell, KillGet, KillMark, KillWait, RemoveAria,
         ForkGet, Fork, SaveList, SaveAria, SaveWrite
    <3> QED BY <3>2 DEF Next, Accept, RequestUnbind, ShellExits, ShellStarts, Promote, DrainAbandon,
         SomeExit, AgentExit, Reap, ReapList, ReapOne, Signal, Drain, DrainList, DrainKill,
         DrainUnpublish, CloseStore, Exit, Crash, Restart, Start, RestoreNext, life
  <2>2. kept[p] \in Range(todo) \/ Back(p)
    BY DEF RestInv, RestoringOK
  <2>3. UNCHANGED pidToFigaro /\ kept[p] \notin Range(todo)
    BY <2>1 DEF RestoreDone, registry, Range
  <2> QED BY <2>2, <2>3 DEF Back, Gone
<1> QED BY <1>1, <1>2, <1>3, PTL DEF Spec, BindingsSurviveRest
=============================================================================
