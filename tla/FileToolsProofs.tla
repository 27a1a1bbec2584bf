-------------------------- MODULE FileToolsProofs --------------------------
(* Proofs about FileTools, for every set of calls, paths, texts and edits. *)
EXTENDS FileTools, TLAPS, FiniteSetTheorems, SequenceTheorems, WellFoundedInduction

-----------------------------------------------------------------------------
(* The mutex of a path *)

Holding == {"lock", "read", "truncate", "write", "unlock", "release"}
Section == {"read", "truncate", "write", "unlock"}

\* The shape of a call, and of the table of mutexes.
CallOK(c) ==
  /\ call[c] = [pc |-> call[c].pc, path |-> call[c].path, kind |-> call[c].kind,
                edits |-> call[c].edits, raw |-> call[c].raw, out |-> call[c].out]
  /\ call[c].pc \in {"idle", "acquire", "done"} \cup Holding
  /\ call[c].pc \in {"acquire"} \cup Holding => call[c].path \in Paths

ShapeOK ==
  /\ file = [p \in Paths |-> file[p]]
  /\ call = [c \in Calls |-> call[c]]
  /\ \A c \in Calls : CallOK(c)
  /\ locks = [p \in DOMAIN locks |-> locks[p]]
  /\ \A p \in DOMAIN locks : locks[p] \in [refs : Nat, by : Calls \cup {None}]

\* A mutex is in the table for exactly the paths in use and counts its users.
Counted ==
  \A p \in Paths : IF p \in DOMAIN locks THEN locks[p].refs = Cardinality(Users(p))
                   ELSE Users(p) = {}

\* Whoever is between Lock and Unlock holds the mutex of its path.
Owned == \A c \in Calls : call[c].pc \in Section => locks[call[c].path].by = c

\* An edit that is about to write has seen what the file holds.
Fresh ==
  \A c \in Calls :
    call[c].pc = "truncate" /\ call[c].kind = "edit" => file[call[c].path] = call[c].raw

MutexInv == ShapeOK /\ Counted /\ Owned /\ Fresh

\* The users of a path are finitely many.
LEMMA UsersFinite ==
  ASSUME NEW p
  PROVE  IsFiniteSet(Users(p)) /\ Cardinality(Users(p)) \in Nat
<1>1. Users(p) \subseteq Calls
  BY DEF Users
<1>2. IsFiniteSet(Users(p))
  BY <1>1, FS_Subset, FileToolsAssumption
<1> QED BY <1>2, FS_CardinalityType

\* Two calls between Lock and Unlock of one path are the same call.
LEMMA OwnedAlone ==
  ASSUME Owned, NEW c \in Calls, NEW d \in Calls,
         call[c].pc \in Section, call[d].pc \in Section, call[c].path = call[d].path
  PROVE  c = d
  BY DEF Owned

\* A step that neither enters nor leaves the users of any path, and does not
\* touch the table's counts, keeps them right.
LEMMA CountedKept ==
  ASSUME Counted, \A p \in Paths : Users(p)' = Users(p),
         DOMAIN locks' = DOMAIN locks, \A p \in DOMAIN locks : locks'[p].refs = locks[p].refs
  PROVE  Counted'
  BY DEF Counted

\* A step of a call that changes nothing of it but where it is.
LEMMA Moved ==
  ASSUME ShapeOK, NEW c \in Calls, NEW w, call' = [call EXCEPT ![c].pc = w]
  PROVE  /\ call' = [d \in Calls |-> call'[d]]
         /\ \A d \in Calls : d # c => call'[d] = call[d]
         /\ call'[c] = [pc |-> w, path |-> call[c].path, kind |-> call[c].kind,
                        edits |-> call[c].edits, raw |-> call[c].raw, out |-> call[c].out]
  BY DEF ShapeOK, CallOK

LEMMA InitMutex == Init => MutexInv
<1> SUFFICES ASSUME Init PROVE MutexInv
  OBVIOUS
<1>1. DOMAIN locks = {} /\ call = [c \in Calls |-> NoCall]
  BY DEF Init
<1>2. \A p : Users(p) = {}
  BY <1>1 DEF Users, NoCall
<1> QED BY <1>1, <1>2 DEF Init, MutexInv, ShapeOK, CallOK, Counted, Owned, Fresh, NoCall, Section, Holding

LEMMA BeginMutex ==
  ASSUME MutexInv, NEW c \in Calls, NEW k, NEW p \in Paths, NEW es, NEW t, Begin(c, k, p, es, t)
  PROVE  MutexInv'
<1> USE DEF MutexInv
<1>1. /\ call[c].pc = "idle" /\ UNCHANGED <<file, locks>>
      /\ call'[c] = [NoCall EXCEPT !.pc = "acquire", !.kind = k, !.path = p,
                                   !.edits = es, !.out = t]
      /\ \A d \in Calls : d # c => call'[d] = call[d]
  BY DEF Begin, ShapeOK, CallOK, NoCall
<1>2. call'[c].pc = "acquire" /\ call'[c].path = p
  BY <1>1 DEF NoCall
<1>3. ShapeOK'
  <2>1. CallOK(c)'
    BY <1>1 DEF CallOK, NoCall, Holding
  <2>2. ASSUME NEW d \in Calls, d # c PROVE CallOK(d)'
    BY <1>1, <2>2 DEF ShapeOK, CallOK
  <2>3. call' = [d \in Calls |-> call'[d]]
    BY DEF Begin, ShapeOK
  <2> QED BY <1>1, <2>1, <2>2, <2>3 DEF ShapeOK
<1>4. \A q \in Paths : Users(q)' = Users(q)
  BY <1>1, <1>2 DEF Users
<1>5. Counted'
  BY <1>1, <1>4, CountedKept
<1>6. Owned' /\ Fresh'
  BY <1>1, <1>2 DEF Owned, Fresh, Section
<1> QED BY <1>3, <1>5, <1>6

LEMMA AcquireMutex ==
  ASSUME MutexInv, NEW c \in Calls, Acquire(c)
  PROVE  MutexInv'
<1> USE DEF MutexInv
<1> DEFINE p == call[c].path
<1>1. /\ call[c].pc = "acquire" /\ p \in Paths /\ UNCHANGED file
      /\ call'[c].pc = "lock" /\ call'[c].path = p
      /\ \A d \in Calls : d # c => call'[d] = call[d]
  BY DEF Acquire, ShapeOK, CallOK
<1>2. /\ DOMAIN locks' = DOMAIN locks \cup {p}
      /\ \A q \in DOMAIN locks : q # p => locks'[q] = locks[q]
      /\ p \in DOMAIN locks => locks'[p] = [locks[p] EXCEPT !.refs = @ + 1]
      /\ p \notin DOMAIN locks => locks'[p] = [refs |-> 1, by |-> None]
  BY DEF Acquire, ShapeOK, CallOK
<1>3. locks' = [q \in DOMAIN locks' |-> locks'[q]]
  BY <1>2 DEF Acquire, ShapeOK, CallOK
<1>4. \A q \in DOMAIN locks' : locks'[q] \in [refs : Nat, by : Calls \cup {None}]
  BY <1>2 DEF ShapeOK
<1>5. call' = [d \in Calls |-> call'[d]] /\ call'[c] = [call[c] EXCEPT !.pc = "lock"]
  BY DEF Acquire, ShapeOK, CallOK
<1>6. ShapeOK'
  BY <1>1, <1>3, <1>4, <1>5 DEF ShapeOK, CallOK, Holding
<1>7. Users(p)' = Users(p) \cup {c} /\ c \notin Users(p)
  BY <1>1 DEF Users
<1>8. \A q \in Paths : q # p => Users(q)' = Users(q)
  BY <1>1 DEF Users
<1>9. Cardinality(Users(p)') = Cardinality(Users(p)) + 1
  BY <1>7, UsersFinite, FS_AddElement
<1>10. p \notin DOMAIN locks => Cardinality(Users(p)') = 1
  <2>1. p \notin DOMAIN locks => Users(p) = {}
    BY <1>1 DEF Counted
  <2> QED BY <2>1, <1>9, FS_EmptySet
<1>11. p \in DOMAIN locks => locks'[p].refs = Cardinality(Users(p)) + 1
  BY <1>1, <1>2 DEF Counted, ShapeOK
<1>12. Counted'
  BY <1>1, <1>2, <1>8, <1>9, <1>10, <1>11 DEF Counted
<1>13. \A d \in Calls : call[d].pc \in Section => call[d].path \in DOMAIN locks
  BY DEF Counted, ShapeOK, CallOK, Users, Section, Holding
<1>14. \A q \in DOMAIN locks : locks'[q].by = locks[q].by
  BY <1>2 DEF ShapeOK
<1>15. Owned'
  BY <1>1, <1>13, <1>14 DEF Owned, Section
<1>16. Fresh'
  BY <1>1 DEF Fresh
<1> QED BY <1>6, <1>12, <1>15, <1>16

\* Between acquireFileMutex and releaseFileMutex the mutex is in the table.
LEMMA InTable ==
  ASSUME MutexInv, NEW d \in Calls, call[d].pc \in Holding
  PROVE  call[d].path \in DOMAIN locks /\ call[d].path \in Paths
  BY DEF MutexInv, Counted, ShapeOK, CallOK, Users, Holding

LEMMA LockMutex ==
  ASSUME MutexInv, NEW c \in Calls, Lock(c)
  PROVE  MutexInv'
<1> USE DEF MutexInv
<1> DEFINE p == call[c].path
<1>0. call[c].pc = "lock" /\ p \in DOMAIN locks /\ p \in Paths /\ locks[p].by = None
  BY InTable DEF Lock, Holding
<1>1. /\ UNCHANGED file
      /\ call'[c].pc \in {"read", "truncate"} /\ call'[c].path = p /\ call'[c].kind = call[c].kind
      /\ call'[c].pc = "truncate" => call[c].kind # "edit"
      /\ \A d \in Calls : d # c => call'[d] = call[d]
      /\ call' = [d \in Calls |-> call'[d]]
      /\ \E w : call'[c] = [pc |-> w, path |-> p, kind |-> call[c].kind,
                            edits |-> call[c].edits, raw |-> call[c].raw, out |-> call[c].out]
  <2>1. PICK w \in {"read", "truncate"} :
          call' = [call EXCEPT ![c].pc = w] /\ (w = "truncate" => call[c].kind # "edit")
    BY DEF Lock
  <2>2. /\ call' = [d \in Calls |-> call'[d]]
        /\ \A d \in Calls : d # c => call'[d] = call[d]
        /\ call'[c] = [pc |-> w, path |-> call[c].path, kind |-> call[c].kind,
                       edits |-> call[c].edits, raw |-> call[c].raw, out |-> call[c].out]
    BY <2>1, Moved
  <2> QED BY <2>1, <2>2 DEF Lock
<1>2. /\ DOMAIN locks' = DOMAIN locks
      /\ locks' = [q \in DOMAIN locks' |-> locks'[q]]
      /\ \A q \in DOMAIN locks : q # p => locks'[q] = locks[q]
      /\ locks'[p] = [locks[p] EXCEPT !.by = c]
  BY <1>0 DEF Lock, ShapeOK
<1>3. \A q \in DOMAIN locks' : locks'[q] \in [refs : Nat, by : Calls \cup {None}]
  BY <1>2 DEF ShapeOK
<1>4. ShapeOK'
  <2>1. CallOK(c)'
    BY <1>0, <1>1 DEF CallOK, Holding
  <2>2. \A d \in Calls : d # c => CallOK(d)'
    BY <1>1 DEF ShapeOK, CallOK
  <2> QED BY <1>1, <1>2, <1>3, <2>1, <2>2 DEF ShapeOK
<1>5. \A q \in Paths : Users(q)' = Users(q)
  BY <1>0, <1>1 DEF Users
<1>6. \A q \in DOMAIN locks : locks'[q].refs = locks[q].refs
  BY <1>0, <1>2 DEF ShapeOK
<1>7. Counted'
  BY <1>2, <1>5, <1>6, CountedKept
<1>8. \A d \in Calls : call[d].pc \in Section => call[d].path # p /\ call[d].path \in DOMAIN locks
  BY <1>0, InTable, FileToolsAssumption DEF Owned, Section, Holding
<1>9. locks'[p].by = c
  BY <1>0, <1>2 DEF ShapeOK
<1>10. Owned'
  <2>1. \A d \in Calls : d # c => (call'[d].pc \in Section => locks'[call'[d].path].by = d)
    BY <1>1, <1>2, <1>8 DEF Owned
  <2>2. locks'[call'[c].path].by = c
    BY <1>1, <1>9
  <2> QED BY <2>1, <2>2 DEF Owned
<1>11. Fresh'
  BY <1>1 DEF Fresh
<1> QED BY <1>4, <1>7, <1>10, <1>11

\* The steps between Lock and Unlock: only the call's own step changes, and no
\* file but that of its path.
LEMMA SectionMutex ==
  ASSUME MutexInv, NEW c \in Calls, call[c].pc \in Section, UNCHANGED locks,
         call' = [d \in Calls |-> call'[d]],
         \A d \in Calls : d # c => call'[d] = call[d],
         call'[c].pc \in Section, call'[c].path = call[c].path,
         call'[c] = [pc |-> call'[c].pc, path |-> call'[c].path, kind |-> call'[c].kind,
                     edits |-> call'[c].edits, raw |-> call'[c].raw, out |-> call'[c].out],
         file' = [p \in Paths |-> file'[p]],
         \A p \in Paths : p # call[c].path => file'[p] = file[p],
         call'[c].pc = "truncate" /\ call'[c].kind = "edit" => file'[call[c].path] = call'[c].raw
  PROVE  MutexInv'
<1> USE DEF MutexInv
<1>1. call[c].path \in Paths
  BY DEF ShapeOK, CallOK, Section, Holding
<1>2. ShapeOK'
  BY <1>1 DEF ShapeOK, CallOK, Section, Holding
<1>3. \A q \in Paths : Users(q)' = Users(q)
  BY DEF Users, Section
<1>4. Counted'
  BY <1>3, CountedKept
<1>5. Owned'
  BY DEF Owned
<1>6. \A d \in Calls : d # c /\ call[d].pc = "truncate" => call[d].path # call[c].path
  BY OwnedAlone DEF Section
<1>7. \A d \in Calls : call[d].pc = "truncate" => call[d].path \in Paths
  BY DEF ShapeOK, CallOK, Holding
<1>8. Fresh'
  BY <1>6, <1>7 DEF Fresh
<1> QED BY <1>2, <1>4, <1>5, <1>8

LEMMA ReadMutex ==
  ASSUME MutexInv, NEW c \in Calls, ReadAndApply(c)
  PROVE  MutexInv'
<1>1. call[c].pc = "read" /\ UNCHANGED <<file, locks>>
  BY DEF ReadAndApply
<1>2. PICK w \in {"truncate", "unlock"} : \E o :
        call' = [call EXCEPT ![c].raw = file[call[c].path], ![c].out = o, ![c].pc = w]
  BY DEF ReadAndApply
<1>6. PICK o : call' = [call EXCEPT ![c].raw = file[call[c].path], ![c].out = o, ![c].pc = w]
  BY <1>2
<1>3. /\ call' = [d \in Calls |-> call'[d]]
      /\ \A d \in Calls : d # c => call'[d] = call[d]
      /\ call'[c] = [pc |-> w, path |-> call[c].path, kind |-> call[c].kind,
                     edits |-> call[c].edits, raw |-> file[call[c].path], out |-> o]
  <2>1. call[c] = [pc |-> call[c].pc, path |-> call[c].path, kind |-> call[c].kind,
                   edits |-> call[c].edits, raw |-> call[c].raw, out |-> call[c].out]
    BY DEF MutexInv, ShapeOK, CallOK
  <2>2. call = [d \in Calls |-> call[d]]
    BY DEF MutexInv, ShapeOK
  <2> QED BY <1>6, <2>1, <2>2
<1>4. file' = [p \in Paths |-> file'[p]]
  BY <1>1 DEF MutexInv, ShapeOK, CallOK
<1>5. /\ call'[c].pc \in Section /\ call'[c].path = call[c].path
      /\ call'[c] = [pc |-> call'[c].pc, path |-> call'[c].path, kind |-> call'[c].kind,
                     edits |-> call'[c].edits, raw |-> call'[c].raw, out |-> call'[c].out]
      /\ call'[c].raw = file'[call[c].path]
  BY <1>1, <1>3 DEF Section
<1> QED BY <1>1, <1>3, <1>4, <1>5, SectionMutex DEF Section

LEMMA TruncateMutex ==
  ASSUME MutexInv, NEW c \in Calls, Truncate(c)
  PROVE  MutexInv'
<1>1. call[c].pc = "truncate" /\ UNCHANGED locks
  BY DEF Truncate
<1>2. /\ call' = [d \in Calls |-> call'[d]]
      /\ \A d \in Calls : d # c => call'[d] = call[d]
      /\ call'[c] = [pc |-> "write", path |-> call[c].path, kind |-> call[c].kind,
                     edits |-> call[c].edits, raw |-> call[c].raw, out |-> call[c].out]
  BY Moved DEF Truncate, MutexInv
<1>3. /\ file' = [p \in Paths |-> file'[p]]
      /\ \A p \in Paths : p # call[c].path => file'[p] = file[p]
  BY DEF Truncate, MutexInv, ShapeOK
<1> QED BY <1>1, <1>2, <1>3, SectionMutex DEF Section

LEMMA WriteMutex ==
  ASSUME MutexInv, NEW c \in Calls, WriteFile(c)
  PROVE  MutexInv'
<1>1. call[c].pc = "write" /\ UNCHANGED locks
  BY DEF WriteFile
<1>2. /\ call' = [d \in Calls |-> call'[d]]
      /\ \A d \in Calls : d # c => call'[d] = call[d]
      /\ call'[c] = [pc |-> "unlock", path |-> call[c].path, kind |-> call[c].kind,
                     edits |-> call[c].edits, raw |-> call[c].raw, out |-> call[c].out]
  BY Moved DEF WriteFile, MutexInv
<1>3. /\ file' = [p \in Paths |-> file'[p]]
      /\ \A p \in Paths : p # call[c].path => file'[p] = file[p]
  BY DEF WriteFile, MutexInv, ShapeOK
<1> QED BY <1>1, <1>2, <1>3, SectionMutex DEF Section

LEMMA UnlockMutex ==
  ASSUME MutexInv, NEW c \in Calls, Unlock(c)
  PROVE  MutexInv'
<1> USE DEF MutexInv
<1> PICK p : p = call[c].path
  OBVIOUS
<1>0. call[c].pc = "unlock" /\ p \in DOMAIN locks /\ p \in Paths
  BY InTable DEF Unlock, Holding
<1>1. /\ UNCHANGED file
      /\ \A d \in Calls : d # c => call'[d] = call[d]
      /\ call' = [d \in Calls |-> call'[d]]
      /\ call'[c] = [pc |-> "release", path |-> p, kind |-> call[c].kind,
                     edits |-> call[c].edits, raw |-> call[c].raw, out |-> call[c].out]
  BY Moved DEF Unlock
<1>2. /\ DOMAIN locks' = DOMAIN locks
      /\ locks' = [q \in DOMAIN locks' |-> locks'[q]]
      /\ \A q \in DOMAIN locks : q # p => locks'[q] = locks[q]
      /\ locks'[p] = [locks[p] EXCEPT !.by = None]
  BY <1>0 DEF Unlock, ShapeOK
<1>3. \A q \in DOMAIN locks' : locks'[q] \in [refs : Nat, by : Calls \cup {None}]
  BY <1>2 DEF ShapeOK
<1>4. ShapeOK'
  <2>1. CallOK(c)'
    BY <1>0, <1>1 DEF CallOK, Holding
  <2>2. \A d \in Calls : d # c => CallOK(d)'
    BY <1>1 DEF ShapeOK, CallOK
  <2> QED BY <1>1, <1>2, <1>3, <2>1, <2>2 DEF ShapeOK
<1>5. \A q \in Paths : Users(q)' = Users(q)
  BY <1>0, <1>1 DEF Users
<1>6. \A q \in DOMAIN locks : locks'[q].refs = locks[q].refs
  BY <1>0, <1>2 DEF ShapeOK
<1>7. Counted'
  BY <1>2, <1>5, <1>6, CountedKept
<1>8. \A d \in Calls : d # c /\ call[d].pc \in Section =>
                         call[d].path # p /\ call[d].path \in DOMAIN locks
  BY <1>0, InTable, OwnedAlone DEF Section, Holding
<1>9. Owned'
  BY <1>1, <1>2, <1>8 DEF Owned, Section
<1>10. Fresh'
  BY <1>1 DEF Fresh
<1> QED BY <1>4, <1>7, <1>9, <1>10

LEMMA ReleaseMutex ==
  ASSUME MutexInv, NEW c \in Calls, Release(c)
  PROVE  MutexInv'
<1> USE DEF MutexInv
<1> PICK p : p = call[c].path
  OBVIOUS
<1>0. call[c].pc = "release" /\ p \in DOMAIN locks /\ p \in Paths
  BY InTable DEF Release, Holding
<1>1. /\ UNCHANGED file
      /\ call'[c].pc = "done"
      /\ \A d \in Calls : d # c => call'[d] = call[d]
      /\ call' = [d \in Calls |-> call'[d]]
      /\ call'[c] = [NoCall EXCEPT !.pc = "done"]
  BY DEF Release, ShapeOK, CallOK, NoCall
<1>2. c \in Users(p) /\ Users(p)' = Users(p) \ {c}
  <2>1. c \in Users(p)
    BY <1>0 DEF Users
  <2>2. \A d : d \in Users(p)' <=> d \in Users(p) \ {c}
    BY <1>0, <1>1 DEF Users
  <2> QED BY <2>1, <2>2
<1>3. \A q \in Paths : q # p => Users(q)' = Users(q)
  BY <1>0, <1>1 DEF Users
<1>4. Cardinality(Users(p)') = Cardinality(Users(p)) - 1
  <2>1. IsFiniteSet(Users(p))
    BY UsersFinite
  <2>2. Cardinality(Users(p) \ {c}) = Cardinality(Users(p)) - 1
    BY <1>2, <2>1, FS_RemoveElement
  <2> QED BY <1>2, <2>2
<1>5. locks[p].refs = Cardinality(Users(p)) /\ locks[p].refs \in Nat
  BY <1>0 DEF Counted, ShapeOK
<1>6. IsFiniteSet(Users(p)')
  BY <1>2, UsersFinite, FS_RemoveElement
<1>7. locks[p].refs = 1 => Users(p)' = {}
  BY <1>4, <1>5, <1>6, FS_EmptySet
<1>8. \A q \in DOMAIN locks : q # p => q \in DOMAIN locks' /\ locks'[q] = locks[q]
  BY <1>0 DEF Release, Without, ShapeOK
<1>9. /\ locks' = [q \in DOMAIN locks' |-> locks'[q]]
      /\ DOMAIN locks' \subseteq DOMAIN locks
      /\ p \notin DOMAIN locks' => locks[p].refs = 1
      /\ p \in DOMAIN locks' => locks'[p] = [locks[p] EXCEPT !.refs = @ - 1] /\ locks[p].refs # 1
  BY <1>0 DEF Release, Without, ShapeOK
<1>10. p \in DOMAIN locks' =>
         locks'[p].refs = Cardinality(Users(p)') /\ locks'[p] \in [refs : Nat, by : Calls \cup {None}]
  <2>1. locks[p] \in [refs : Nat, by : Calls \cup {None}]
    BY <1>0 DEF ShapeOK
  <2>2. locks[p].refs # 0
    BY <1>2, <1>5, UsersFinite, FS_EmptySet
  <2> QED BY <2>1, <2>2, <1>4, <1>5, <1>9
<1>11. ShapeOK'
  <2>1. CallOK(c)'
    BY <1>1 DEF CallOK, NoCall, Holding
  <2>2. ASSUME NEW d \in Calls, d # c PROVE CallOK(d)'
    BY <1>1, <2>2 DEF ShapeOK, CallOK
  <2>3. \A q \in DOMAIN locks' : locks'[q] \in [refs : Nat, by : Calls \cup {None}]
    BY <1>8, <1>9, <1>10 DEF ShapeOK
  <2> QED BY <1>1, <1>9, <2>1, <2>2, <2>3 DEF ShapeOK
<1>12. Counted'
  BY <1>3, <1>7, <1>8, <1>9, <1>10 DEF Counted
<1>13. \A d \in Calls : d # c /\ call[d].pc \in Section => call[d].path \in DOMAIN locks'
  BY <1>0, <1>2, <1>7, <1>8, <1>9, InTable DEF Section, Holding, Users
<1>14. \A q \in DOMAIN locks' : locks'[q].by = locks[q].by
  BY <1>0, <1>8, <1>9 DEF ShapeOK
<1>15. Owned'
  BY <1>1, <1>13, <1>14 DEF Owned, Section
<1>16. Fresh'
  BY <1>1 DEF Fresh
<1> QED BY <1>11, <1>12, <1>15, <1>16

LEMMA StepMutex == MutexInv /\ [Next]_vars => MutexInv'
<1> SUFFICES ASSUME MutexInv, [Next]_vars PROVE MutexInv'
  OBVIOUS
<1>1. CASE UNCHANGED vars
  BY <1>1 DEF vars, MutexInv, ShapeOK, CallOK, Counted, Owned, Fresh, Users
<1>2. ASSUME NEW limit \in Limits, ReadPage(limit) PROVE MutexInv'
  <2>1. UNCHANGED <<file, locks, call>>
    BY <1>2 DEF ReadPage
  <2> QED BY <2>1 DEF MutexInv, ShapeOK, CallOK, Counted, Owned, Fresh, Users
<1>3. ASSUME NEW c \in Calls, NEW p \in Paths, NEW es \in EditLists(c), Begin(c, "edit", p, es, <<>>)
      PROVE  MutexInv'
  BY <1>3, BeginMutex
<1>4. ASSUME NEW c \in Calls, NEW p \in Paths, NEW t \in News, Begin(c, "write", p, <<>>, t)
      PROVE  MutexInv'
  BY <1>4, BeginMutex
<1>5. ASSUME NEW c \in Calls,
             \/ Acquire(c) \/ Lock(c) \/ ReadAndApply(c) \/ Truncate(c) \/ WriteFile(c)
             \/ Unlock(c) \/ Release(c)
      PROVE  MutexInv'
  BY <1>5, AcquireMutex, LockMutex, ReadMutex, TruncateMutex, WriteMutex, UnlockMutex, ReleaseMutex
<1> QED BY <1>1, <1>2, <1>3, <1>4, <1>5 DEF Next

\* For any number of write and edit calls on any paths, no update is lost and no
\* file is torn: acquireFileMutex and releaseFileMutex find, share and drop the
\* mutex of a path in steps, and an edit still overwrites exactly what it has read.
THEOREM SerializedCorrect == Spec => []Serialized
<1>1. Init => MutexInv
  BY InitMutex
<1>2. MutexInv /\ [Next]_vars => MutexInv'
  BY StepMutex
<1>3. MutexInv => Serialized
  <2> SUFFICES ASSUME MutexInv PROVE Serialized
    OBVIOUS
  <2>1. \A c, d \in Calls : c # d /\ call[c].path = call[d].path =>
          ~ (call[c].pc \in Section /\ call[d].pc \in Section)
    BY OwnedAlone DEF MutexInv
  <2> QED BY <2>1 DEF Serialized, MutexInv, Fresh, Section
<1> QED BY <1>1, <1>2, <1>3, PTL DEF Spec

-----------------------------------------------------------------------------
(* Pages *)

\* First finds the least element of a set of numbers.
LEMMA FirstIsLeast ==
  ASSUME NEW S, S \subseteq Nat, S # {}
  PROVE  First(S) \in S /\ \A j \in S : First(S) <= j
<1>1. IsWellFoundedOn(OpToRel(<, Nat), Nat)
  BY NatLessThanWellFounded
<1>2. PICK i \in S : \A j \in S : ~ (<<j, i>> \in OpToRel(<, Nat))
  BY <1>1, WFMin
<1>3. \A j \in S : ~ (j < i)
  BY <1>2 DEF OpToRel
<1>4. \A j \in S : i <= j
  BY <1>3
<1> QED BY <1>4 DEF First

\* The size of some lines is a number.
LEMMA SizeType ==
  ASSUME NEW b \in Seq(Nat)
  PROVE  Size(b) \in Nat
<1> DEFINE bytes == [i \in DOMAIN b |-> {i} \X (1..b[i])]
<1> DEFINE lines == {{i} \X (1..b[i]) : i \in DOMAIN b}
<1>1. DOMAIN b = 1..Len(b) /\ Len(b) \in Nat /\ \A i \in DOMAIN b : b[i] \in Nat
  OBVIOUS
<1>2. IsFiniteSet(DOMAIN b)
  BY <1>1, FS_Interval
<1>3. \A i \in DOMAIN b : IsFiniteSet({i} \X (1..b[i]))
  <2> TAKE i \in DOMAIN b
  <2>0. b[i] \in Int
    BY <1>1
  <2>1. IsFiniteSet({i})
    BY FS_Singleton
  <2>2. IsFiniteSet(1..b[i])
    BY <2>0, FS_Interval
  <2> QED BY <2>1, <2>2, FS_Product
<1>4. IsFiniteSet(lines)
  <2>1. bytes \in Surjection(DOMAIN b, lines)
    BY DEF Surjection
  <2> QED BY <1>2, <2>1, FS_Surjection DEF ExistsSurjection
<1>5. IsFiniteSet(UNION lines)
  BY <1>3, <1>4, FS_UNION
<1>6. Cardinality(UNION lines) \in Nat
  BY <1>5, FS_CardinalityType
<1>7. CASE b = <<>>
  BY <1>7 DEF Size
<1>8. CASE b # <<>>
  <2>1. Len(b) >= 1
    BY <1>8, <1>1
  <2> HIDE DEF lines
  <2>2. Size(b) = Cardinality(UNION lines) + Len(b) - 1
    BY <1>8 DEF Size, lines
  <2> QED BY <2>1, <2>2, <1>1, <1>6
<1> QED BY <1>7, <1>8

\* What TruncateHead keeps is a beginning of the lines it is given.
LEMMA TruncateHeadKeeps ==
  ASSUME NEW b, Len(b) \in Nat
  PROVE  TruncateHead(b) \in 0..Len(b)
<1> DEFINE stop == {i \in 0..Len(b) : i = Len(b) \/ i >= MaxLines \/ Size(SubSeq(b, 1, i + 1)) > MaxBytes}
<1>1. stop \subseteq Nat /\ Len(b) \in stop
  OBVIOUS
<1>2. First(stop) \in stop
  BY <1>1, FirstIsLeast
<1>3. TruncateHead(b) \in {Len(b), First(stop)}
  BY DEF TruncateHead
<1> QED BY <1>1, <1>2, <1>3

\* The end of some lines, n of them.
EndOf(b, n) == SubSeq(b, Len(b) - n + 1, Len(b))

\* What TruncateTail keeps fits, and one line more would not.
LEMMA TruncateTailFits ==
  ASSUME NEW b \in Seq(Nat)
  PROVE  LET k == TruncateTail(b) IN
         /\ k \in 0..Len(b) /\ k <= MaxLines /\ Size(EndOf(b, k)) <= MaxBytes
         /\ k < Len(b) /\ k < MaxLines => Size(EndOf(b, k + 1)) > MaxBytes
<1> DEFINE stop == {i \in 0..Len(b) :
                      i = Len(b) \/ i = MaxLines \/ Size(SubSeq(b, Len(b) - i, Len(b))) > MaxBytes}
<1>0. Len(b) \in Nat
  OBVIOUS
<1>1. stop \subseteq Nat /\ Len(b) \in stop
  BY <1>0
<1>2. First(stop) \in stop /\ \A j \in stop : First(stop) <= j
  BY <1>1, FirstIsLeast
<1>3. CASE Len(b) <= MaxLines /\ Size(b) <= MaxBytes
  <2>1. TruncateTail(b) = Len(b)
    BY <1>3 DEF TruncateTail
  <2>2. EndOf(b, Len(b)) = b
    BY <1>0 DEF EndOf
  <2> QED BY <1>0, <1>3, <2>1, <2>2
<1>4. CASE ~ (Len(b) <= MaxLines /\ Size(b) <= MaxBytes)
  <2>1. TruncateTail(b) = First(stop)
    BY <1>4 DEF TruncateTail
  <2> DEFINE k == First(stop)
  <2>2. k \in 0..Len(b)
    BY <1>2
  <2>3. k <= MaxLines
    <3>1. CASE Len(b) <= MaxLines
      BY <2>2, <3>1, <1>0, FileToolsAssumption
    <3>2. CASE MaxLines < Len(b)
      <4>1. MaxLines \in stop
        BY <3>2, <1>0, FileToolsAssumption
      <4> QED BY <4>1, <1>2
    <3> QED BY <3>1, <3>2, <1>0, FileToolsAssumption
  <2>4. Size(EndOf(b, k)) <= MaxBytes
    <3>1. CASE k = 0
      <4>1. EndOf(b, 0) = <<>>
        BY <1>0 DEF EndOf
      <4>2. Size(<<>>) = 0
        BY DEF Size
      <4> QED BY <3>1, <4>1, <4>2, FileToolsAssumption
    <3>2. CASE k > 0
      <4>1. k - 1 \in 0..Len(b) /\ k - 1 \notin stop
        BY <3>2, <2>2, <1>2, <1>0
      <4>2. ~ (Size(SubSeq(b, Len(b) - (k - 1), Len(b))) > MaxBytes)
        BY <4>1
      <4>3. Len(b) - (k - 1) = Len(b) - k + 1
        BY <1>0, <2>2
      <4>4. EndOf(b, k) \in Seq(Nat)
        <5>1. \A i \in (Len(b) - k + 1)..Len(b) : b[i] \in Nat
          <6>1. \A i \in (Len(b) - k + 1)..Len(b) : i \in 1..Len(b)
            BY <1>0, <2>2
          <6> QED BY <6>1
        <5>2. Len(b) - k + 1 \in Int /\ Len(b) \in Int
          BY <1>0, <2>2
        <5>3. SubSeq(b, Len(b) - k + 1, Len(b)) \in Seq(Nat)
          BY <5>1, <5>2, SubSeqProperties
        <5> QED BY <5>3 DEF EndOf
      <4>5. ~ (Size(EndOf(b, k)) > MaxBytes)
        BY <4>2, <4>3 DEF EndOf
      <4>6. Size(EndOf(b, k)) \in Nat
        BY <4>4, SizeType
      <4> QED BY <4>5, <4>6, FileToolsAssumption
    <3> QED BY <3>1, <3>2, <2>2
  <2>5. k < Len(b) /\ k < MaxLines => Size(EndOf(b, k + 1)) > MaxBytes
    <3>1. k < Len(b) /\ k < MaxLines => Size(SubSeq(b, Len(b) - k, Len(b))) > MaxBytes
      <4>1. k \in stop
        BY <1>2
      <4>2. k = Len(b) \/ k = MaxLines \/ Size(SubSeq(b, Len(b) - k, Len(b))) > MaxBytes
        BY <4>1
      <4> QED BY <4>2, <1>0, <2>2, FileToolsAssumption
    <3>2. Len(b) - (k + 1) + 1 = Len(b) - k
      BY <1>0, <2>2
    <3> QED BY <3>1, <3>2 DEF EndOf
  <2> QED BY <2>1, <2>2, <2>3, <2>4, <2>5
<1> QED BY <1>3, <1>4

\* A client that follows the offsets has passed every line before the next one,
\* and has passed them all when it is told that there is no more.
PageInv ==
  /\ book \in Seq(Nat)
  /\ reader \in [next : Nat, shown : Nat, named : Nat, done : BOOLEAN]
  /\ reader.next = reader.shown + reader.named + 1
  /\ reader.done => reader.next = Len(book) + 1

LEMMA InitPages == Init => PageInv
<1> SUFFICES ASSUME Init PROVE PageInv
  OBVIOUS
<1>1. book \in Seq(Nat)
  <2>1. CASE book = <<>>
    BY <2>1
  <2>2. CASE \E n \in 1..MaxBook : book \in [1..n -> LineSizes]
    <3>1. PICK n \in 1..MaxBook : book \in [1..n -> LineSizes]
      BY <2>2
    <3>2. LineSizes \subseteq Nat /\ MaxBook \in Nat
      BY FileToolsAssumption
    <3>4. n \in Nat
      BY <3>2
    <3>3. book \in [1..n -> Nat]
      BY <3>1, <3>2
    <3> QED BY <3>3, <3>4, SeqDef
  <2> QED BY <2>1, <2>2 DEF Init
<1> QED BY <1>1 DEF Init, PageInv

LEMMA ReadPageStep ==
  ASSUME PageInv, NEW limit \in Limits, ReadPage(limit)
  PROVE  PageInv'
<1> DEFINE start == reader.next
<1> DEFINE end == IF limit > 0 /\ start + limit - 1 < Len(book) THEN start + limit - 1 ELSE Len(book)
<1> DEFINE selected == SubSeq(book, start, end)
<1> DEFINE shown == TruncateHead(selected)
<1>1. limit \in Nat /\ Len(book) \in Nat /\ start \in Nat /\ start >= 1 /\ start <= Len(book)
  BY FileToolsAssumption DEF PageInv, ReadPage
<1>2. end \in start..Len(book)
  BY <1>1
<1>3. Len(selected) = end - start + 1
  <2>1. \A i \in start..end : i \in 1..Len(book)
    BY <1>1, <1>2
  <2>2. \A i \in start..end : book[i] \in Nat
    BY <2>1 DEF PageInv
  <2>3. start \in Int /\ end \in Int /\ start <= end
    BY <1>1, <1>2
  <2> HIDE DEF start, end
  <2> QED BY <2>2, <2>3, SubSeqProperties
<1>4. shown \in 0..(end - start + 1)
  <2>1. Len(selected) \in Nat
    BY <1>1, <1>2, <1>3
  <2> HIDE DEF selected, end, start
  <2> QED BY <1>3, <2>1, TruncateHeadKeeps
<1>5. /\ UNCHANGED book
      /\ IF shown = 0 THEN reader' = [reader EXCEPT !.next = start + 1, !.named = @ + 1]
         ELSE IF shown < Len(selected) \/ end < Len(book)
              THEN reader' = [reader EXCEPT !.next = start + shown, !.shown = @ + shown]
              ELSE reader' = [reader EXCEPT !.next = end + 1, !.shown = @ + shown, !.done = TRUE]
      /\ ~ reader.done
  BY DEF ReadPage, NextOffset
<1>6. reader \in [next : Nat, shown : Nat, named : Nat, done : BOOLEAN]
      /\ reader.next = reader.shown + reader.named + 1
  BY DEF PageInv
<1>10. book \in Seq(Nat) /\ book' = book /\ ~ reader.done
  BY DEF PageInv, ReadPage
<1> HIDE DEF shown, selected, end
<1>7. CASE shown = 0
  <2>1. reader' = [reader EXCEPT !.next = start + 1, !.named = @ + 1]
    BY <1>5, <1>7
  <2>2. reader' = [next |-> start + 1, shown |-> reader.shown, named |-> reader.named + 1,
                   done |-> reader.done]
    BY <1>6, <2>1
  <2> QED BY <1>1, <1>6, <1>10, <2>2 DEF PageInv
<1>8. CASE shown # 0 /\ (shown < Len(selected) \/ end < Len(book))
  <2>1. reader' = [reader EXCEPT !.next = start + shown, !.shown = @ + shown]
    BY <1>5, <1>8
  <2>0. shown \in Nat
    BY <1>1, <1>2, <1>4
  <2>2. reader' = [next |-> start + shown, shown |-> reader.shown + shown, named |-> reader.named,
                   done |-> reader.done]
    BY <1>6, <2>1
  <2>3. start = reader.next /\ start \in Nat
    BY <1>1
  <2> HIDE DEF start
  <2> QED BY <1>6, <1>10, <2>0, <2>2, <2>3 DEF PageInv
<1>9. CASE shown # 0 /\ ~ (shown < Len(selected) \/ end < Len(book))
  <2>1. shown = end - start + 1 /\ end = Len(book)
    BY <1>1, <1>2, <1>3, <1>4, <1>9
  <2>2. reader' = [reader EXCEPT !.next = end + 1, !.shown = @ + shown, !.done = TRUE]
    BY <1>5, <1>9
  <2>3. shown \in Nat /\ end \in Nat
    BY <1>1, <1>2, <1>4
  <2>4. reader' = [next |-> end + 1, shown |-> reader.shown + shown, named |-> reader.named,
                   done |-> TRUE]
    BY <1>6, <2>2
  <2>5. reader' \in [next : Nat, shown : Nat, named : Nat, done : BOOLEAN]
    BY <1>6, <2>3, <2>4
  <2>6. reader'.next = reader'.shown + reader'.named + 1 /\ reader'.next = Len(book') + 1
    <3>1. reader'.next = end + 1 /\ reader'.shown = reader.shown + shown /\ reader'.named = reader.named
      BY <2>4
    <3>2. end + 1 = reader.shown + shown + reader.named + 1
      <4>1. reader.shown \in Nat /\ reader.named \in Nat /\ start = reader.shown + reader.named + 1
        BY <1>6
      <4>2. shown = end - start + 1
        BY <2>1
      <4> HIDE DEF start
      <4> QED BY <4>1, <4>2, <2>3
    <3> QED BY <3>1, <3>2, <1>10, <2>1
  <2> QED BY <1>10, <2>5, <2>6 DEF PageInv
<1> QED BY <1>7, <1>8, <1>9

LEMMA StepPages == PageInv /\ [Next]_vars => PageInv'
<1> SUFFICES ASSUME PageInv, [Next]_vars PROVE PageInv'
  OBVIOUS
<1>1. CASE UNCHANGED <<book, reader>>
  BY <1>1 DEF PageInv
<1>2. ASSUME NEW limit \in Limits, ReadPage(limit) PROVE PageInv'
  BY <1>2, ReadPageStep
<1>3. ASSUME NEW c \in Calls, NEW k, NEW p, NEW es, NEW t, Begin(c, k, p, es, t)
      PROVE  UNCHANGED <<book, reader>>
  BY <1>3 DEF Begin
<1>4. ASSUME NEW c \in Calls,
             \/ Acquire(c) \/ Lock(c) \/ ReadAndApply(c) \/ Truncate(c) \/ WriteFile(c)
             \/ Unlock(c) \/ Release(c)
      PROVE  UNCHANGED <<book, reader>>
  BY <1>4 DEF Acquire, Lock, ReadAndApply, Truncate, WriteFile, Unlock, Release
<1> QED BY <1>1, <1>2, <1>3, <1>4 DEF Next, vars

\* Whatever the limits of lines and bytes and however long the lines, a client
\* that follows the offsets of Read has every line shown or named once and in
\* order, and TruncateTail keeps as much of the end of an output as fits.
THEOREM PagesCoverCorrect == Spec => []PagesCover
<1>1. Init => PageInv
  BY InitPages
<1>2. PageInv /\ [Next]_vars => PageInv'
  BY StepPages
<1>3. PageInv => PagesCover
  <2> SUFFICES ASSUME PageInv PROVE PagesCover
    OBVIOUS
  <2>1. reader.next = reader.shown + reader.named + 1
        /\ (reader.done => reader.shown + reader.named = Len(book))
    BY DEF PageInv
  <2>2. book \in Seq(Nat)
    BY DEF PageInv
  <2> QED BY <2>1, <2>2, TruncateTailFits DEF PagesCover, EndOf
<1> QED BY <1>1, <1>2, <1>3, PTL DEF Spec
=============================================================================
