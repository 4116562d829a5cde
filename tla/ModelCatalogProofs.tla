------------------------ MODULE ModelCatalogProofs ------------------------
(***************************************************************************)
(* Proofs about ModelCatalog, for any requests, any models and lists of    *)
(* them, any number of providers and any number of events.  IInv, the      *)
(* inductive invariant, is defined and explained there.                    *)
(***************************************************************************)
EXTENDS ModelCatalog, TLAPS

-----------------------------------------------------------------------------
(* The operators.                                                          *)

\* An idle process, and one that goes on with the next provider, are as they
\* should be.
LEMMA IdleOK ==
  ASSUME TypeOK
  PROVE  /\ Idle \in Tasks /\ Idle.at = "idle" /\ Idle.id = 0
         /\ TaskOK(Idle) /\ Undisturbed(Idle)
<1>1. 0 \in 0..MaxProviders /\ "idle" \in Step
  BY CatalogConstants DEF Step
<1>2. /\ Idle \in Tasks /\ Idle.at = "idle" /\ Idle.id = 0
      /\ Idle.todo = {} /\ Idle.left = {} /\ Idle.names = {}
  BY <1>1 DEF Idle, Task, Tasks
<1>3. nextId \in Nat /\ nextId > 0
  BY CatalogConstants DEF TypeOK
<1> QED
  BY <1>2, <1>3 DEF TaskOK, Undisturbed

LEMMA SyncingOK ==
  ASSUME TypeOK, NEW todo \in SUBSET Id, NEW id \in Id,
         \A p \in todo \cup {id} : p < nextId
  PROVE  /\ Syncing(id, todo) \in Tasks /\ Syncing(id, todo).at = "fetch"
         /\ TaskOK(Syncing(id, todo)) /\ Undisturbed(Syncing(id, todo))
<1>1. id \in 0..MaxProviders /\ id # 0 /\ "fetch" \in Step
  BY CatalogConstants DEF Id, Step
<1>2. LET t == Syncing(id, todo)
      IN  /\ t \in Tasks /\ t.at = "fetch" /\ t.id = id
          /\ t.todo = todo /\ t.left = {} /\ t.names = {}
  BY <1>1 DEF Syncing, Task, Tasks
<1> QED
  BY <1>1, <1>2 DEF TaskOK, Undisturbed

LEMMA AfterOK ==
  ASSUME TypeOK, NEW h \in Proc, NEW next \in After(h)
  PROVE  /\ next \in Tasks /\ next.at \in {"idle", "fetch"}
         /\ TaskOK(next) /\ Undisturbed(next)
<1>1. proc[h] \in Tasks /\ TaskOK(proc[h])
  BY DEF TypeOK
<1>2. proc[h].todo \in SUBSET Id /\ \A p \in proc[h].todo : p < nextId
  BY <1>1 DEF Tasks, TaskOK
<1>3. CASE proc[h].todo = {}
  BY <1>3, IdleOK DEF After
<1>4. CASE proc[h].todo # {}
  <2>1. PICK p \in proc[h].todo : next = Syncing(p, proc[h].todo \ {p})
    BY <1>4 DEF After, FirstOf
  <2>2. /\ p \in Id /\ proc[h].todo \ {p} \in SUBSET Id
        /\ \A q \in (proc[h].todo \ {p}) \cup {p} : q < nextId
    BY <1>2
  <2> QED
    BY <2>1, <2>2, SyncingOK
<1> QED
  BY <1>3, <1>4

-----------------------------------------------------------------------------
(* What a step leaves of the processes that do not take it: those that     *)
(* write a provider of P are no longer alone.                              *)
TablesOK ==
  /\ provider \in [Id -> Row \cup {None}]
  /\ nextId \in 1..MaxProviders + 1 /\ \A p \in Id : p >= nextId => ~Exists(p)
  /\ models \subseteq Id \X Model /\ \A r \in models : Exists(r[1])
  /\ default \in Model \cup {None}
  /\ offer \in List \ {{}}
  /\ events \in 0..MaxEvents
  /\ drifted \in [Id -> BOOLEAN]

Others(h, P) ==
  /\ proc' \in [Proc -> Tasks]
  /\ \A g \in Proc : g # h =>
       /\ proc'[g].at = proc[g].at /\ proc'[g].id = proc[g].id /\ proc'[g].row = proc[g].row
       /\ proc'[g].names = proc[g].names /\ proc'[g].left = proc[g].left
       /\ proc'[g].todo = proc[g].todo
       /\ proc'[g].alone = (proc[g].alone /\ proc[g].id \notin P)

LEMMA StepOthers ==
  ASSUME TypeOK, NEW h \in Proc, NEW q \in Tasks, proc' = [proc EXCEPT ![h] = q]
  PROVE  Others(h, {}) /\ proc'[h] = q
<1>1. ASSUME NEW g \in Proc PROVE proc[g] \in Tasks /\ proc[g].alone \in BOOLEAN
  BY DEF TypeOK, Tasks
<1>2. proc \in [Proc -> Tasks]
  BY DEF TypeOK
<1>3. proc' \in [Proc -> Tasks] /\ proc'[h] = q
  BY <1>2
<1>4. ASSUME NEW g \in Proc, g # h PROVE proc'[g] = proc[g]
  BY <1>2, <1>4
<1> QED
  BY <1>1, <1>3, <1>4 DEF Others

\* A process that is disturbed goes on as before.
LEMMA DisturbedType ==
  ASSUME NEW t \in Tasks, NEW u, u = [t EXCEPT !.alone = FALSE]
  PROVE  /\ u \in Tasks /\ u.at = t.at /\ u.id = t.id /\ u.row = t.row
         /\ u.names = t.names /\ u.left = t.left /\ u.todo = t.todo /\ u.alone = FALSE
<1>1. [t EXCEPT !.alone = FALSE] \in Tasks
  BY DEF Tasks
<1>2. /\ u.at = t.at /\ u.id = t.id /\ u.row = t.row
      /\ u.names = t.names /\ u.left = t.left /\ u.todo = t.todo
  BY DEF Tasks
<1>3. u.alone = FALSE
  BY DEF Tasks
<1> QED
  BY <1>1, <1>2, <1>3

LEMMA WritesOthers ==
  ASSUME TypeOK, NEW h \in Proc \cup {None}, NEW p \in Id, NEW q \in Tasks, Writes(h, p, q)
  PROVE  Others(h, {p}) /\ (h \in Proc => proc'[h] = q)
<1>1. ASSUME NEW g \in Proc PROVE proc[g] \in Tasks /\ proc[g].alone \in BOOLEAN
  BY DEF TypeOK, Tasks
<1>2. proc' \in [Proc -> Tasks] /\ (h \in Proc => proc'[h] = q)
  BY <1>1, DisturbedType DEF Writes
<1>3. ASSUME NEW g \in Proc, g # h
      PROVE  proc'[g] = IF proc[g].id = p THEN [proc[g] EXCEPT !.alone = FALSE] ELSE proc[g]
  BY <1>3 DEF Writes
<1>4. ASSUME NEW g \in Proc, g # h
      PROVE  /\ proc'[g].at = proc[g].at /\ proc'[g].id = proc[g].id
             /\ proc'[g].row = proc[g].row /\ proc'[g].names = proc[g].names
             /\ proc'[g].left = proc[g].left /\ proc'[g].todo = proc[g].todo
             /\ proc'[g].alone = (proc[g].alone /\ proc[g].id \notin {p})
  <2>1. proc[g] \in Tasks
    BY <1>1
  <2>2. CASE proc[g].id = p
    <3>1. proc'[g] = [proc[g] EXCEPT !.alone = FALSE]
      BY <1>3, <1>4, <2>2
    <3> QED
      BY <2>1, <2>2, <3>1, DisturbedType
  <2>3. CASE proc[g].id # p
    BY <1>1, <1>3, <1>4, <2>3
  <2> QED
    BY <2>2, <2>3
<1> QED
  BY <1>2, <1>4 DEF Others

(* A step keeps the invariant if it does so of the process that takes it,  *)
(* and of the lists of the providers that it writes.                       *)
LEMMA StepKeeps ==
  ASSUME IInv, TablesOK', NEW h \in Proc \cup {None}, NEW P \in SUBSET Id, Others(h, P),
         nextId' >= nextId,
         \A x \in Id \ P : provider'[x] = provider[x] /\ Of(x)' = Of(x),
         h \in Proc => TaskOK(proc[h])' /\ Undisturbed(proc[h])',
         \A x \in Id : \/ ListKept(x)'
                       \/ /\ x \notin P /\ drifted'[x] = drifted[x]
                          /\ h \in Proc => ~LastSave(proc[h], x)
  PROVE  IInv'
<1>1. proc' \in [Proc -> Tasks] /\ TypeOK /\ nextId \in Nat /\ nextId' \in Nat
  BY CatalogConstants DEF Others, IInv, TypeOK, TablesOK
<1>2. ASSUME NEW g \in Proc PROVE TaskOK(proc[g])' /\ Undisturbed(proc[g])'
  <2>1. CASE g # h
    <3>1. TaskOK(proc[g]) /\ Undisturbed(proc[g]) /\ proc[g] \in Tasks
      BY DEF IInv, TypeOK
    <3>2. proc[g].id \in 0..MaxProviders /\ proc[g].todo \subseteq Id /\ Id \subseteq Nat
      BY <3>1, CatalogConstants DEF Tasks, Id
    <3>a. /\ proc'[g].at = proc[g].at /\ proc'[g].id = proc[g].id
          /\ proc'[g].row = proc[g].row /\ proc'[g].names = proc[g].names
          /\ proc'[g].left = proc[g].left /\ proc'[g].todo = proc[g].todo
          /\ proc'[g].alone = (proc[g].alone /\ proc[g].id \notin P)
      BY <2>1 DEF Others
    <3>b. proc[g].id < nextId' /\ \A x \in proc[g].todo : x < nextId'
      <4>1. \A x \in Nat : x < nextId => x < nextId'
        BY <1>1
      <4>2. proc[g].id < nextId /\ \A x \in proc[g].todo : x < nextId
        BY <3>1 DEF TaskOK
      <4>3. proc[g].id \in Nat
        BY <3>2, CatalogConstants
      <4>4. ASSUME NEW x \in proc[g].todo PROVE x \in Nat
        BY <3>2
      <4> QED
        BY <4>1, <4>2, <4>3, <4>4
    <3>3. TaskOK(proc[g])'
      BY <3>1, <3>a, <3>b DEF TaskOK
    <3>4. proc[g].at \in {"saved", "upsert", "remove"} => proc[g].id \in Id
      BY <3>1, <3>2, CatalogConstants DEF TaskOK, Id
    <3>5. Undisturbed(proc[g])'
      <4>1. CASE proc[g].id \in Id \ P
        <5>1. PICK x \in Id \ P : x = proc[g].id
          BY <4>1
        <5>2. provider'[x] = provider[x] /\ \A m \in Model : (<<x, m>> \in models') <=> (<<x, m>> \in models)
          BY DEF Of
        <5>3. {m \in Model : <<x, m>> \in models'} = {m \in Model : <<x, m>> \in models}
          BY <5>2
        <5> QED
          BY <3>1, <3>a, <5>1, <5>2, <5>3 DEF Undisturbed, Of
      <4>2. CASE proc[g].id \notin Id \ P
        BY <3>a, <3>4, <4>2 DEF Undisturbed
      <4> QED
        BY <4>1, <4>2
    <3> QED
      BY <3>3, <3>5
  <2> QED
    BY <2>1
<1>3. ASSUME NEW x \in Id PROVE ListKept(x)'
  <2>1. CASE x \notin P /\ drifted'[x] = drifted[x] /\ (h \in Proc => ~LastSave(proc[h], x))
    <3>1. ListKept(x)
      BY DEF IInv
    <3>2. ASSUME NEW g \in Proc, LastSave(proc[g], x) PROVE LastSave(proc'[g], x)
      BY <2>1, <3>2 DEF Others, LastSave
    <3> QED
      BY <2>1, <3>1, <3>2 DEF ListKept, Exists, LastSave
  <2> QED
    BY <2>1
<1> QED
  BY <1>1, <1>2, <1>3 DEF IInv, TypeOK, TablesOK

(* The same for a step that writes no provider and no model.               *)
LEMMA Quiet ==
  ASSUME IInv, NEW h \in Proc, NEW q \in Tasks, proc' = [proc EXCEPT ![h] = q],
         TaskOK(q), Undisturbed(q),
         UNCHANGED <<provider, nextId, models, offer, drifted>>,
         default' \in Model \cup {None}, events' \in 0..MaxEvents,
         \A x \in Id : LastSave(proc[h], x) => ~Exists(x) \/ ~provider[x].manual
  PROVE  IInv'
<1>1. TypeOK
  BY DEF IInv
<1>2. Others(h, {}) /\ proc'[h] = q
  BY <1>1, StepOthers
<1>3. TaskOK(proc[h])' /\ Undisturbed(proc[h])'
  BY <1>2 DEF TaskOK, Undisturbed, Of
<1>4. TablesOK' /\ nextId' >= nextId
  <2>1. nextId \in Nat
    BY <1>1, CatalogConstants DEF TypeOK
  <2> QED
    BY <1>1, <2>1 DEF TypeOK, TablesOK, Exists
<1>5. \A x \in Id \ {} : provider'[x] = provider[x] /\ Of(x)' = Of(x)
  BY DEF Of
<1>6. ASSUME NEW x \in Id
      PROVE  \/ ListKept(x)'
             \/ /\ x \notin {} /\ drifted'[x] = drifted[x]
                /\ h \in Proc => ~LastSave(proc[h], x)
  BY DEF ListKept, Exists
<1> QED
  BY <1>2, <1>3, <1>4, <1>5, <1>6, StepKeeps

(* The same for a step that leaves the lists of what it writes drifted, or *)
(* in order.                                                               *)
LEMMA Loud ==
  ASSUME IInv, TablesOK', NEW h \in Proc \cup {None}, NEW p \in Id, NEW q \in Tasks,
         Writes(h, p, q), nextId' = nextId,
         h \in Proc => proc[h].id = p /\ TaskOK(q)' /\ Undisturbed(q)',
         \A x \in Id \ {p} : /\ provider'[x] = provider[x] /\ Of(x)' = Of(x)
                             /\ drifted'[x] = drifted[x],
         ListKept(p)'
  PROVE  IInv'
<1>1. Others(h, {p}) /\ (h \in Proc => proc'[h] = q)
  BY WritesOthers DEF IInv
<1>2. h \in Proc => TaskOK(proc[h])' /\ Undisturbed(proc[h])'
  BY <1>1 DEF TaskOK, Undisturbed
<1>3. nextId' >= nextId
  BY CatalogConstants DEF IInv, TypeOK
<1>4. ASSUME NEW x \in Id
      PROVE  \/ ListKept(x)'
             \/ /\ x \notin {p} /\ drifted'[x] = drifted[x]
                /\ h \in Proc => ~LastSave(proc[h], x)
  BY DEF LastSave
<1> QED
  BY <1>1, <1>2, <1>3, <1>4, StepKeeps

-----------------------------------------------------------------------------
(* The actions.                                                            *)

\* What TypeOK says of one process and of the bounds.
LEMMA ProcType ==
  ASSUME IInv, NEW h \in Proc
  PROVE  /\ proc[h] \in Tasks /\ TaskOK(proc[h]) /\ Undisturbed(proc[h])
         /\ nextId \in Nat /\ Id \subseteq Nat
         /\ proc[h].at \notin {"idle", "config"} => proc[h].id \in Id
<1>1. proc[h] \in Tasks /\ TaskOK(proc[h]) /\ Undisturbed(proc[h]) /\ nextId \in Nat
  BY CatalogConstants DEF IInv, TypeOK
<1>2. proc[h].id \in 0..MaxProviders
  BY <1>1 DEF Tasks
<1> QED
  BY <1>1, <1>2, CatalogConstants DEF TaskOK, Id

LEMMA CountsType ==
  ASSUME IInv, Counts \/ events' = events PROVE events' \in 0..MaxEvents
BY CatalogConstants DEF IInv, TypeOK, Counts

LEMMA RequestKeeps ==
  ASSUME IInv, NEW h \in Proc, Request(h) PROVE IInv'
<1>0. TypeOK /\ events \in 0..MaxEvents
  BY DEF IInv, TypeOK
<1>a. ASSUME proc[h] = Idle PROVE \A x \in Id : ~LastSave(proc[h], x)
  BY <1>0, <1>a, IdleOK DEF LastSave
<1>1. ASSUME NEW row \in Row, Post(h, row) PROVE IInv'
  <2> DEFINE q == Saving("saved", nextId, row)
  <2>1. /\ proc[h] = Idle /\ nextId \in Id /\ provider' = [provider EXCEPT ![nextId] = row]
        /\ nextId' = nextId + 1 /\ proc' = [proc EXCEPT ![h] = q]
        /\ UNCHANGED <<models, default, offer, drifted>>
    BY <1>1 DEF Post
  <2>2. nextId \in 0..MaxProviders /\ nextId # 0 /\ "saved" \in Step
    BY <2>1, CatalogConstants DEF Id, Step
  <2>3. /\ q \in Tasks /\ q.at = "saved" /\ q.id = nextId /\ q.row = row /\ q.alone = TRUE
        /\ q.todo = {} /\ q.left = {} /\ q.names = {}
    BY <2>2 DEF Saving, Task, Tasks
  <2> HIDE DEF q
  <2>4. Others(h, {}) /\ proc'[h] = q
    BY <1>0, <2>1, <2>3, StepOthers
  <2>5. Others(h, {nextId})
    <3>1. \A g \in Proc : proc[g].id # nextId /\ proc[g].alone \in BOOLEAN
      <4>1. ASSUME NEW g \in Proc PROVE proc[g].id # nextId /\ proc[g].alone \in BOOLEAN
        <5>1. proc[g] \in Tasks /\ proc[g].id < nextId /\ nextId \in Nat
          BY ProcType DEF TaskOK
        <5>2. proc[g].id \in Nat
          BY <5>1, CatalogConstants DEF Tasks
        <5> QED
          BY <5>1, <5>2 DEF Tasks
      <4> QED
        BY <4>1
    <3> QED
      BY <2>4, <3>1 DEF Others
  <2>6. provider \in [Id -> Row \cup {None}] /\ \A p \in Id : p >= nextId => provider[p] = None
    BY <1>0 DEF TypeOK, Exists
  <2>7. TablesOK'
    <3>1. provider' \in [Id -> Row \cup {None}]
      BY <2>1, <2>6
    <3>2. nextId' \in 1..MaxProviders + 1 /\ \A p \in Id : p >= nextId' => p >= nextId /\ p # nextId
      BY <2>1, <2>2, CatalogConstants DEF Id
    <3>3. \A p \in Id : p >= nextId' => provider'[p] = None
      BY <2>1, <2>6, <3>2
    <3>4. \A r \in models : provider'[r[1]] # None
      BY <1>0, <2>1, <2>6, NoneIsNoProvider DEF TypeOK, Exists
    <3>5. events' \in 0..MaxEvents
      BY <1>1, CountsType DEF Post
    <3> QED
      BY <1>0, <2>1, <3>1, <3>2, <3>3, <3>4, <3>5 DEF TypeOK, TablesOK, Exists
  <2>8. nextId' >= nextId
    BY <2>1, <2>2, CatalogConstants
  <2>9. \A x \in Id \ {nextId} : provider'[x] = provider[x] /\ Of(x)' = Of(x)
    BY <2>1, <2>6 DEF Of
  <2>10. TaskOK(proc[h])' /\ Undisturbed(proc[h])'
    <3>1. nextId < nextId'
      BY <2>1, <2>2, CatalogConstants
    <3>2. provider'[nextId] = row
      BY <2>1, <2>6
    <3> QED
      BY <2>2, <2>3, <2>4, <3>1, <3>2 DEF TaskOK, Undisturbed
  <2>11. ASSUME NEW x \in Id
         PROVE  \/ ListKept(x)'
                \/ /\ x \notin {nextId} /\ drifted'[x] = drifted[x]
                   /\ h \in Proc => ~LastSave(proc[h], x)
    <3>1. CASE x = nextId
      BY <2>3, <2>4, <3>1 DEF ListKept, LastSave
    <3>2. CASE x # nextId
      BY <1>a, <2>1, <3>2
    <3> QED
      BY <3>1, <3>2
  <2> QED
    BY <2>1, <2>5, <2>7, <2>8, <2>9, <2>10, <2>11, StepKeeps
<1>2. ASSUME NEW p \in Id, PutReads(h, p) PROVE IInv'
  <2> DEFINE q == Saving("put", p, provider[p])
  <2>1. /\ proc[h] = Idle /\ provider[p] # None /\ provider[p] \in Row \cup {None}
        /\ proc' = [proc EXCEPT ![h] = q] /\ UNCHANGED <<tables, offer, drifted>>
        /\ events' \in 0..MaxEvents
    BY <1>0, <1>2, CountsType DEF PutReads, Exists, TypeOK
  <2>2. p \in 0..MaxProviders /\ p # 0 /\ "put" \in Step /\ p < nextId
    <3>1. ~ (p >= nextId)
      BY <1>0, <2>1 DEF TypeOK, Exists
    <3> QED
      BY <3>1, ProcType, CatalogConstants DEF Id, Step
  <2>3. q \in Tasks /\ TaskOK(q) /\ Undisturbed(q)
    <3>1. /\ q \in Tasks /\ q.at = "put" /\ q.id = p /\ q.row = provider[p]
          /\ q.todo = {} /\ q.left = {} /\ q.names = {}
      BY <2>1, <2>2 DEF Saving, Task, Tasks
    <3> QED
      BY <2>1, <2>2, <3>1 DEF TaskOK, Undisturbed
  <2> HIDE DEF q
  <2> QED
    BY <1>0, <1>a, <2>1, <2>3, Quiet DEF tables, TypeOK
<1>3. ASSUME NEW p \in Id, SyncOne(h, p) PROVE IInv'
  <2>1. /\ proc[h] = Idle /\ provider[p] # None /\ proc' = [proc EXCEPT ![h] = Syncing(p, {})]
        /\ UNCHANGED <<tables, offer, drifted>> /\ events' \in 0..MaxEvents
    BY <1>3, CountsType DEF SyncOne, Exists
  <2>2. \A x \in {} \cup {p} : x < nextId
    <3>1. ~ (p >= nextId)
      BY <1>0, <2>1 DEF TypeOK, Exists
    <3> QED
      BY <3>1, ProcType
  <2>3. LET q == Syncing(p, {}) IN q \in Tasks /\ TaskOK(q) /\ Undisturbed(q)
    BY <1>0, <2>2, SyncingOK
  <2> QED
    BY <1>0, <1>a, <2>1, <2>3, Quiet DEF tables, TypeOK
<1>4. ASSUME SyncOnce(h) PROVE IInv'
  <2>1. PICK p \in ToSync : proc' = [proc EXCEPT ![h] = Syncing(p, ToSync \ {p})]
    BY <1>4 DEF SyncOnce, FirstOf
  <2>2. /\ proc[h] = Idle /\ UNCHANGED <<tables, offer, drifted>> /\ events' \in 0..MaxEvents
    BY <1>4, CountsType DEF SyncOnce
  <2>3. p \in Id /\ ToSync \ {p} \in SUBSET Id /\ \A x \in (ToSync \ {p}) \cup {p} : x < nextId
    <3>1. ASSUME NEW x \in ToSync PROVE x \in Id /\ x < nextId
      <4>1. x \in Id /\ ~ (x >= nextId)
        BY <1>0 DEF TypeOK, ToSync
      <4> QED
        BY <4>1, ProcType
    <3> QED
      BY <3>1
  <2>4. LET q == Syncing(p, ToSync \ {p}) IN q \in Tasks /\ TaskOK(q) /\ Undisturbed(q)
    BY <1>0, <2>3, SyncingOK
  <2> QED
    BY <1>0, <1>a, <2>1, <2>2, <2>4, Quiet DEF tables, TypeOK
<1>5. ASSUME NEW m \in Model, ConfigChecks(h, m) PROVE IInv'
  <2> DEFINE q == Task("config", 0, None, {m}, {}, {})
  <2>1. /\ proc[h] = Idle /\ proc' = [proc EXCEPT ![h] = q]
        /\ UNCHANGED <<tables, offer, drifted>> /\ events' \in 0..MaxEvents
    BY <1>5, CountsType DEF ConfigChecks
  <2>2. q \in Tasks /\ TaskOK(q) /\ Undisturbed(q)
    <3>1. 0 \in 0..MaxProviders /\ "config" \in Step /\ 0 < nextId
      BY <1>0, CatalogConstants DEF Step, TypeOK
    <3>2. /\ q \in Tasks /\ q.at = "config" /\ q.id = 0
          /\ q.todo = {} /\ q.left = {} /\ q.names = {m}
      BY <3>1 DEF Task, Tasks
    <3> QED
      BY <3>1, <3>2 DEF TaskOK, Undisturbed
  <2> HIDE DEF q
  <2> QED
    BY <1>0, <1>a, <2>1, <2>2, Quiet DEF tables, TypeOK
<1> QED
  BY <1>1, <1>2, <1>3, <1>4, <1>5 DEF Request

LEMMA SaveKeeps ==
  ASSUME IInv, NEW h \in Proc,
         \/ \E row \in Row : PutWrites(h, row)
         \/ Refused(h) \/ Mirror(h) \/ MirrorFails(h) \/ ConfigWrites(h)
  PROVE  IInv'
<1>0. TypeOK /\ events \in 0..MaxEvents /\ h \in Proc \cup {None}
  BY DEF IInv, TypeOK
<1>a. Idle \in Tasks /\ TaskOK(Idle) /\ Undisturbed(Idle)
  BY <1>0, IdleOK
<1>i. PICK idle \in Tasks : /\ idle = Idle /\ idle.at = "idle"
                           /\ TaskOK(idle) /\ Undisturbed(idle)
  BY <1>0, IdleOK
<1>b. /\ proc[h] \in Tasks /\ TaskOK(proc[h]) /\ Undisturbed(proc[h])
      /\ nextId \in Nat /\ Id \subseteq Nat
      /\ proc[h].at \notin {"idle", "config"} => proc[h].id \in Id
  BY ProcType
<1>c. provider \in [Id -> Row \cup {None}] /\ drifted \in [Id -> BOOLEAN]
  BY <1>0 DEF TypeOK
<1>1. ASSUME NEW row \in Row, PutWrites(h, row) PROVE IInv'
  <2>0. PICK q : q = Saving("saved", proc[h].id, row)
    OBVIOUS
  <2>1. PICK p \in Id : p = proc[h].id
    BY <1>1, <1>b DEF PutWrites
  <2>2. /\ proc[h].at = "put" /\ provider[p] # None /\ provider' = [provider EXCEPT ![p] = row]
        /\ Writes(h, p, q) /\ UNCHANGED <<nextId, models, default, offer, events, drifted>>
    BY <1>1, <2>0, <2>1 DEF PutWrites, Exists
  <2>3. /\ q \in Tasks /\ q.at = "saved" /\ q.id = p /\ q.row = row
        /\ q.todo = {} /\ q.left = {} /\ q.names = {} /\ q.alone = TRUE
    <3>1. p \in 0..MaxProviders /\ "saved" \in Step
      BY CatalogConstants DEF Id, Step
    <3> QED
      BY <2>0, <2>1, <3>1 DEF Saving, Task, Tasks
  <2>4. p < nextId /\ p # 0
    BY <1>b, <2>1, CatalogConstants DEF TaskOK, Id
  <2>5. /\ provider' \in [Id -> Row \cup {None}] /\ provider'[p] = row
        /\ \A x \in Id \ {p} : provider'[x] = provider[x]
        /\ \A x \in Id : provider[x] # None <=> provider'[x] # None
    BY <1>c, <2>2, NoneIsNoProvider
  <2>6. TablesOK'
    <3>1. \A r \in models : r[1] \in Id
      BY <1>0 DEF TypeOK
    <3> QED
      BY <1>0, <2>2, <2>5, <3>1 DEF TypeOK, TablesOK, Exists
  <2>7. TaskOK(q)' /\ Undisturbed(q)'
    BY <2>2, <2>3, <2>4, <2>5 DEF TaskOK, Undisturbed
  <2>8. ListKept(p)'
    <3>1. proc'[h] = q
      BY <1>0, <2>2, <2>3, WritesOthers
    <3> QED
      BY <2>3, <3>1 DEF ListKept, LastSave
  <2>9. \A x \in Id \ {p} : /\ provider'[x] = provider[x] /\ Of(x)' = Of(x)
                           /\ drifted'[x] = drifted[x]
    BY <2>2, <2>5 DEF Of
  <2> QED
    BY <1>0, <2>1, <2>2, <2>3, <2>6, <2>7, <2>8, <2>9, Loud
<1>2. ASSUME Refused(h) PROVE IInv'
  <2>1. \A x \in Id : ~LastSave(proc[h], x)
    BY <1>2 DEF Refused, LastSave
  <2> QED
    BY <1>0, <1>2, <1>a, <2>1, Quiet DEF Refused, tables, TypeOK
<1>3. ASSUME ConfigWrites(h) PROVE IInv'
  <2>1. default' \in Model \cup {None}
    BY <1>3, <1>b DEF ConfigWrites, Tasks
  <2>2. \A x \in Id : ~LastSave(proc[h], x)
    BY <1>3 DEF ConfigWrites, LastSave
  <2> QED
    BY <1>0, <1>3, <1>a, <2>1, <2>2, Quiet DEF ConfigWrites
<1>4. ASSUME Mirror(h) PROVE IInv'
  <2>1. PICK p \in Id : p = proc[h].id
    BY <1>4, <1>b DEF Mirror
  <2>2. PICK list : list = proc[h].row.list
    OBVIOUS
  <2>3. /\ proc[h].at = "saved" /\ proc[h].row.manual
        /\ models' = IF Exists(p) \/ list = {}
                     THEN {r \in models : r[1] # p} \cup {p} \X list ELSE models
        /\ Writes(h, p, Idle) /\ drifted' = [drifted EXCEPT ![p] = ~proc[h].alone]
        /\ UNCHANGED <<provider, nextId, default, offer, events>>
    BY <1>4, <2>1, <2>2 DEF Mirror
  <2>4. list \subseteq Model
    <3>1. proc[h].row \in Row
      BY <1>b, <2>3 DEF TaskOK
    <3> QED
      BY <2>2, <3>1, CatalogConstants DEF Row
  <2>5. models \subseteq Id \X Model /\ \A r \in models : provider[r[1]] # None
    BY <1>0 DEF TypeOK, Exists
  <2>6. models' \subseteq Id \X Model /\ \A r \in models' : provider[r[1]] # None
    <3>1. CASE Exists(p) \/ list = {}
      <4>1. ASSUME NEW r \in models' PROVE r \in models \/ (Exists(p) /\ r \in {p} \X list)
        BY <2>3, <3>1
      <4>2. ASSUME NEW r \in {p} \X list PROVE r \in Id \X Model /\ r[1] = p
        BY <2>4
      <4> QED
        BY <2>5, <4>1, <4>2 DEF Exists
    <3>2. CASE ~ (Exists(p) \/ list = {})
      BY <2>3, <2>5, <3>2
    <3> QED
      BY <3>1, <3>2
  <2>7. TablesOK'
    <3>1. drifted' \in [Id -> BOOLEAN]
      BY <1>c, <1>b, <2>3 DEF Tasks
    <3> QED
      BY <1>0, <2>3, <2>6, <3>1 DEF TypeOK, TablesOK, Exists
  <2>8. \A x \in Id \ {p} : /\ provider'[x] = provider[x] /\ Of(x)' = Of(x)
                           /\ drifted'[x] = drifted[x]
    <3>1. ASSUME NEW x \in Id \ {p}, NEW m \in Model
          PROVE  (<<x, m>> \in models') <=> (<<x, m>> \in models)
      BY <2>3
    <3> QED
      BY <1>c, <2>3, <3>1 DEF Of
  <2>9. ListKept(p)'
    <3>1. SUFFICES ASSUME Exists(p), provider[p].manual, ~drifted'[p] PROVE Of(p)' = provider[p].list
      BY <2>3 DEF ListKept, Exists
    <3>2. proc[h].alone
      BY <1>b, <1>c, <2>3, <3>1 DEF Tasks
    <3>3. provider[p].list = list
      BY <1>b, <2>1, <2>2, <2>3, <3>2 DEF Undisturbed
    <3>4. ASSUME NEW m \in Model PROVE (<<p, m>> \in models') <=> (m \in list)
      BY <2>3, <3>1
    <3> QED
      BY <2>4, <3>3, <3>4 DEF Of
  <2>10. TaskOK(idle)' /\ Undisturbed(idle)'
    BY <1>i, <2>3 DEF TaskOK, Undisturbed
  <2> QED
    BY <1>0, <1>i, <2>1, <2>3, <2>7, <2>8, <2>9, <2>10, Loud
<1>5. ASSUME MirrorFails(h) PROVE IInv'
  <2>1. PICK p \in Id : p = proc[h].id
    BY <1>5, <1>b DEF MirrorFails
  <2>2. /\ proc' = [proc EXCEPT ![h] = Idle] /\ drifted' = [drifted EXCEPT ![p] = TRUE]
        /\ UNCHANGED <<tables, offer>> /\ events' \in 0..MaxEvents
    BY <1>5, <2>1, CountsType DEF MirrorFails
  <2>3. Others(h, {}) /\ proc'[h] = Idle
    BY <1>0, <1>a, <2>2, StepOthers
  <2>4. TablesOK' /\ nextId' >= nextId
    <3>1. drifted' \in [Id -> BOOLEAN]
      BY <1>c, <2>2
    <3> QED
      BY <1>0, <1>b, <2>2, <3>1 DEF TypeOK, TablesOK, tables, Exists
  <2>5. TaskOK(proc[h])' /\ Undisturbed(proc[h])'
    BY <1>i, <2>2, <2>3 DEF tables, TaskOK, Undisturbed
  <2>6. \A x \in Id \ {} : provider'[x] = provider[x] /\ Of(x)' = Of(x)
    BY <2>2 DEF tables, Of
  <2>7. ASSUME NEW x \in Id
        PROVE  \/ ListKept(x)'
               \/ /\ x \notin {} /\ drifted'[x] = drifted[x]
                  /\ h \in Proc => ~LastSave(proc[h], x)
    BY <1>c, <2>1, <2>2 DEF ListKept, LastSave
  <2> QED
    BY <1>0, <2>3, <2>4, <2>5, <2>6, <2>7, StepKeeps
<1> QED
  BY <1>1, <1>2, <1>3, <1>4, <1>5

LEMMA FetchKeeps ==
  ASSUME IInv, NEW h \in Proc,
         \/ Fetch(h) \/ FetchFails(h) \/ Remove(h)
         \/ \E m \in Model : Upsert(h, m)
  PROVE  IInv'
<1>0. TypeOK /\ events \in 0..MaxEvents /\ h \in Proc \cup {None}
  BY DEF IInv, TypeOK
<1>b. /\ proc[h] \in Tasks /\ TaskOK(proc[h]) /\ Undisturbed(proc[h])
      /\ nextId \in Nat /\ Id \subseteq Nat
      /\ proc[h].at \notin {"idle", "config"} => proc[h].id \in Id
  BY ProcType
<1>c. /\ provider \in [Id -> Row \cup {None}] /\ drifted \in [Id -> BOOLEAN]
      /\ models \subseteq Id \X Model /\ \A r \in models : provider[r[1]] # None
      /\ default \in Model \cup {None}
  BY <1>0 DEF TypeOK, Exists
<1>d. ASSUME NEW x \in Id, LastSave(proc[h], x), proc[h].at = "saved" => ~proc[h].row.manual
      PROVE  ~provider[x].manual
  BY <1>b, <1>d DEF LastSave, Undisturbed
<1>1. ASSUME Fetch(h) PROVE IInv'
  <2> DEFINE q == Task("upsert", proc[h].id, None, offer, offer, proc[h].todo)
  <2>1. /\ proc' = [proc EXCEPT ![h] = q] /\ UNCHANGED <<tables, offer, events, drifted>>
        /\ proc[h].at \in {"fetch", "saved"} /\ (proc[h].at = "saved" => ~proc[h].row.manual)
    BY <1>1 DEF Fetch, Fetching
  <2>2. q \in Tasks /\ TaskOK(q) /\ Undisturbed(q)
    <3>1. /\ proc[h].id \in 0..MaxProviders /\ "upsert" \in Step /\ offer \in SUBSET Model
          /\ proc[h].todo \in SUBSET Id /\ None \in Row \cup {None}
      BY <1>0, <1>b, CatalogConstants DEF Tasks, Step, TypeOK
    <3>2. /\ q \in Tasks /\ q.at = "upsert" /\ q.id = proc[h].id
          /\ q.todo = proc[h].todo /\ q.left = offer /\ q.names = offer
      BY <3>1 DEF Task, Tasks
    <3> HIDE DEF q
    <3> QED
      BY <1>b, <2>1, <3>2, CatalogConstants DEF TaskOK, Undisturbed
  <2> HIDE DEF q
  <2>3. \A x \in Id : LastSave(proc[h], x) => ~provider[x].manual
    BY <1>d, <2>1
  <2> QED
    BY <1>0, <1>c, <2>1, <2>2, <2>3, Quiet DEF tables
<1>2. ASSUME FetchFails(h) PROVE IInv'
  <2>1. PICK next \in After(h) : proc' = [proc EXCEPT ![h] = next]
    BY <1>2 DEF FetchFails
  <2>2. /\ UNCHANGED <<tables, offer, drifted>> /\ events' \in 0..MaxEvents
        /\ (proc[h].at = "saved" => ~proc[h].row.manual)
    BY <1>2, CountsType DEF FetchFails, Fetching
  <2>3. \A x \in Id : LastSave(proc[h], x) => ~provider[x].manual
    BY <1>d, <2>2
  <2> QED
    BY <1>0, <1>c, <2>1, <2>2, <2>3, AfterOK, Quiet DEF tables
<1>3. ASSUME NEW m \in Model, Upsert(h, m) PROVE IInv'
  <2>1. PICK p \in Id : p = proc[h].id
    BY <1>3, <1>b DEF Upsert
  <2>2. CASE ~Exists(p)
    <3>1. PICK next \in After(h) : proc' = [proc EXCEPT ![h] = next]
      BY <1>3, <2>1, <2>2 DEF Upsert
    <3>2. UNCHANGED <<tables, offer, events, drifted>> /\ proc[h].at = "upsert"
      BY <1>3, <2>1, <2>2 DEF Upsert, tables
    <3>3. \A x \in Id : ~LastSave(proc[h], x)
      BY <3>2 DEF LastSave
    <3> QED
      BY <1>0, <1>c, <3>1, <3>2, <3>3, AfterOK, Quiet DEF tables
  <2>3. CASE Exists(p)
    <3>1. PICK left, at : /\ left = proc[h].left \ {m}
                         /\ at = IF left = {} THEN "remove" ELSE "upsert"
      OBVIOUS
    <3>2. PICK q : q = [Task(at, p, None, proc[h].names, left, proc[h].todo)
                          EXCEPT !.alone = proc[h].alone]
      OBVIOUS
    <3>3. /\ proc[h].at = "upsert" /\ m \in proc[h].left /\ models' = models \cup {<<p, m>>}
          /\ drifted' = [drifted EXCEPT ![p] = TRUE] /\ Writes(h, p, q)
          /\ UNCHANGED <<provider, nextId, default, offer, events>>
      BY <1>3, <2>1, <2>3, <3>1, <3>2 DEF Upsert, Touched
    <3>4. /\ at \in Step /\ p \in 0..MaxProviders /\ proc[h].names \in SUBSET Model
          /\ left \in SUBSET Model /\ proc[h].todo \in SUBSET Id /\ proc[h].alone \in BOOLEAN
      BY <1>b, <2>1, <3>1 DEF Tasks, Step
    <3>5. /\ q \in Tasks /\ q.at = at /\ q.id = p /\ q.names = proc[h].names
          /\ q.left = left /\ q.todo = proc[h].todo /\ q.alone = proc[h].alone
      BY <3>2, <3>4 DEF Task, Tasks
    <3>6. TaskOK(q)'
      <4>1. p # 0 /\ p < nextId' /\ \A x \in proc[h].todo : x < nextId'
        BY <1>b, <2>1, <3>3, CatalogConstants DEF TaskOK, Id
      <4>2. left \subseteq proc[h].names /\ (at = "remove" => left = {})
        BY <1>b, <3>1 DEF TaskOK
      <4> QED
        BY <3>1, <3>5, <4>1, <4>2 DEF TaskOK
    <3>7. Undisturbed(q)'
      <4>1. SUFFICES ASSUME proc[h].alone PROVE proc[h].names \ left \subseteq {n \in Model : <<p, n>> \in models'}
        BY <3>1, <3>5 DEF Undisturbed, Of
      <4>2. proc[h].names \ proc[h].left \subseteq {n \in Model : <<p, n>> \in models}
        BY <1>b, <2>1, <3>3, <4>1 DEF Undisturbed, Of
      <4> QED
        BY <3>1, <3>3, <4>2
    <3>8. TablesOK'
      <4>1. drifted' \in [Id -> BOOLEAN]
        BY <1>c, <3>3
      <4>2. models' \subseteq Id \X Model /\ \A r \in models' : provider[r[1]] # None
        BY <1>c, <2>3, <3>3 DEF Exists
      <4> QED
        BY <1>0, <3>3, <4>1, <4>2 DEF TypeOK, TablesOK, Exists
    <3>9. \A x \in Id \ {p} : /\ provider'[x] = provider[x] /\ Of(x)' = Of(x)
                             /\ drifted'[x] = drifted[x]
      <4>1. ASSUME NEW x \in Id \ {p}, NEW n \in Model
            PROVE  (<<x, n>> \in models') <=> (<<x, n>> \in models)
        BY <3>3
      <4> QED
        BY <1>c, <3>3, <4>1 DEF Of
    <3>10. ListKept(p)'
      BY <1>c, <3>3 DEF ListKept
    <3> QED
      BY <1>0, <2>1, <3>3, <3>5, <3>6, <3>7, <3>8, <3>9, <3>10, Loud
  <2> QED
    BY <2>2, <2>3
<1>4. ASSUME Remove(h) PROVE IInv'
  <2>1. PICK p \in Id : p = proc[h].id
    BY <1>4, <1>b DEF Remove
  <2>2. PICK next \in After(h) : Writes(h, p, next)
    BY <1>4, <2>1 DEF Remove
  <2>3. /\ models' = models \ ({p} \X Doomed(p, proc[h].names))
        /\ default' = ClearedOf(Doomed(p, proc[h].names))
        /\ drifted' = [drifted EXCEPT ![p] = TRUE]
        /\ UNCHANGED <<provider, nextId, offer, events>>
    BY <1>4, <2>1 DEF Remove, Touched
  <2>4. next \in Tasks /\ next.at \in {"idle", "fetch"} /\ TaskOK(next)
    BY <1>0, <2>2, AfterOK
  <2>5. TaskOK(next)' /\ Undisturbed(next)'
    BY <2>3, <2>4 DEF TaskOK, Undisturbed
  <2>6. TablesOK'
    <3>1. drifted' \in [Id -> BOOLEAN] /\ default' \in Model \cup {None}
      BY <1>c, <2>3 DEF ClearedOf
    <3>2. models' \subseteq Id \X Model /\ \A r \in models' : provider[r[1]] # None
      BY <1>c, <2>3
    <3> QED
      BY <1>0, <2>3, <3>1, <3>2 DEF TypeOK, TablesOK, Exists
  <2>7. \A x \in Id \ {p} : /\ provider'[x] = provider[x] /\ Of(x)' = Of(x)
                           /\ drifted'[x] = drifted[x]
    <3>1. ASSUME NEW x \in Id \ {p}, NEW n \in Model
          PROVE  (<<x, n>> \in models') <=> (<<x, n>> \in models)
      BY <2>3
    <3> QED
      BY <1>c, <2>3, <3>1 DEF Of
  <2>8. ListKept(p)'
    BY <1>c, <2>3 DEF ListKept
  <2> QED
    BY <1>0, <2>1, <2>2, <2>3, <2>4, <2>5, <2>6, <2>7, <2>8, Loud
<1> QED
  BY <1>1, <1>2, <1>3, <1>4

LEMMA EditKeeps ==
  ASSUME IInv, Edit PROVE IInv'
<1>0. /\ TypeOK /\ None \in Proc \cup {None} /\ None \notin Proc
      /\ provider \in [Id -> Row \cup {None}] /\ drifted \in [Id -> BOOLEAN]
      /\ models \subseteq Id \X Model /\ \A r \in models : provider[r[1]] # None
      /\ default \in Model \cup {None}
  BY CatalogConstants DEF IInv, TypeOK, Exists, Proc
<1>a. PICK idle \in Tasks : idle = Idle
  BY <1>0, IdleOK
\* An edit of the rows of one provider.
<1>b. ASSUME NEW p \in Id, Writes(None, p, Idle), events' \in 0..MaxEvents,
             provider' \in [Id -> Row \cup {None}],
             \A x \in Id : provider'[x] = provider[x] \/ (x = p /\ provider'[x] = None),
             models' \subseteq Id \X Model, \A r \in models' : provider'[r[1]] # None,
             \A r \in Id \X Model : r[1] # p => ((r \in models') <=> (r \in models)),
             default' \in Model \cup {None}, UNCHANGED <<nextId, offer>>,
             \/ drifted' = [drifted EXCEPT ![p] = TRUE]
             \/ provider'[p] = None /\ UNCHANGED drifted
      PROVE  IInv'
  <2>1. TablesOK'
    <3>1. drifted' \in [Id -> BOOLEAN]
      BY <1>0, <1>b
    <3>2. \A x \in Id : x >= nextId' => provider'[x] = None
      BY <1>0, <1>b DEF TypeOK, Exists
    <3> QED
      BY <1>0, <1>b, <3>1, <3>2 DEF TypeOK, TablesOK, Exists
  <2>2. \A x \in Id \ {p} : /\ provider'[x] = provider[x] /\ Of(x)' = Of(x)
                           /\ drifted'[x] = drifted[x]
    <3>1. ASSUME NEW x \in Id \ {p}, NEW n \in Model
          PROVE  (<<x, n>> \in models') <=> (<<x, n>> \in models)
      <4>1. <<x, n>> \in Id \X Model /\ <<x, n>>[1] # p
        OBVIOUS
      <4> QED
        BY <1>b, <4>1
    <3>2. \A x \in Id \ {p} : provider'[x] = provider[x] /\ drifted'[x] = drifted[x]
      BY <1>0, <1>b
    <3> QED
      BY <3>1, <3>2 DEF Of
  <2>3. ListKept(p)'
    BY <1>0, <1>b DEF ListKept, Exists
  <2> QED
    BY <1>0, <1>a, <1>b, <2>1, <2>2, <2>3, Loud
<1>1. ASSUME NEW p \in Id, DeleteProvider(p) PROVE IInv'
  <2>1. /\ provider' = [provider EXCEPT ![p] = None] /\ models' = {r \in models : r[1] # p}
        /\ default' = ClearedOf(Of(p)) /\ Writes(None, p, Idle)
        /\ UNCHANGED <<nextId, offer, drifted>> /\ events' \in 0..MaxEvents
    BY <1>1, CountsType DEF DeleteProvider
  <2>2. /\ provider' \in [Id -> Row \cup {None}] /\ provider'[p] = None
        /\ \A x \in Id : provider'[x] = provider[x] \/ (x = p /\ provider'[x] = None)
    BY <1>0, <2>1
  <2>3. /\ models' \subseteq Id \X Model /\ \A r \in models' : provider'[r[1]] # None
        /\ \A r \in Id \X Model : r[1] # p => ((r \in models') <=> (r \in models))
    BY <1>0, <2>1, <2>2
  <2>4. default' \in Model \cup {None}
    BY <1>0, <2>1 DEF ClearedOf
  <2> QED
    BY <1>b, <2>1, <2>2, <2>3, <2>4
<1>2. ASSUME NEW p \in Id, NEW m \in Model, PostModel(p, m) PROVE IInv'
  <2>1. /\ models' = models \cup {<<p, m>>} /\ provider[p] # None /\ Writes(None, p, Idle)
        /\ UNCHANGED <<provider, nextId, default, offer>> /\ events' \in 0..MaxEvents
        /\ drifted' = [drifted EXCEPT ![p] = TRUE]
    BY <1>2, CountsType DEF PostModel, Touched, Exists
  <2>2. /\ models' \subseteq Id \X Model /\ \A r \in models' : provider'[r[1]] # None
        /\ \A r \in Id \X Model : r[1] # p => ((r \in models') <=> (r \in models))
    BY <1>0, <2>1
  <2> QED
    BY <1>0, <1>b, <2>1, <2>2
<1>3. ASSUME NEW p \in Id, NEW m \in Model, DeleteModel(p, m) PROVE IInv'
  <2>1. /\ models' = models \ {<<p, m>>} /\ default' = ClearedOf({m}) /\ Writes(None, p, Idle)
        /\ UNCHANGED <<provider, nextId, offer>> /\ events' \in 0..MaxEvents
        /\ drifted' = [drifted EXCEPT ![p] = TRUE]
    BY <1>3, CountsType DEF DeleteModel, Touched
  <2>2. /\ models' \subseteq Id \X Model /\ \A r \in models' : provider'[r[1]] # None
        /\ \A r \in Id \X Model : r[1] # p => ((r \in models') <=> (r \in models))
    BY <1>0, <2>1
  <2>3. default' \in Model \cup {None}
    BY <1>0, <2>1 DEF ClearedOf
  <2> QED
    BY <1>0, <1>b, <2>1, <2>2, <2>3
<1>4. ASSUME NEW p \in Id, NEW q \in Id, NEW m \in Model, NEW n \in Model, PutModel(p, m, q, n)
      PROVE  IInv'
  <2>1. /\ models' = (models \ {<<p, m>>}) \cup {<<q, n>>} /\ provider[q] # None
        /\ proc' = [g \in Proc |-> IF proc[g].id \in {p, q}
                                   THEN [proc[g] EXCEPT !.alone = FALSE] ELSE proc[g]]
        /\ drifted' = [x \in Id |-> drifted[x] \/ x \in {p, q}]
        /\ UNCHANGED <<provider, nextId, default, offer>> /\ events' \in 0..MaxEvents
    BY <1>4, CountsType DEF PutModel, Exists
  <2>2. Others(None, {p, q})
    <3>2. ASSUME NEW g \in Proc
          PROVE  /\ proc'[g] \in Tasks
                 /\ proc'[g].at = proc[g].at /\ proc'[g].id = proc[g].id
                 /\ proc'[g].row = proc[g].row /\ proc'[g].names = proc[g].names
                 /\ proc'[g].left = proc[g].left /\ proc'[g].todo = proc[g].todo
                 /\ proc'[g].alone = (proc[g].alone /\ proc[g].id \notin {p, q})
      <4>1. proc[g] \in Tasks /\ proc[g].alone \in BOOLEAN
        BY <1>0 DEF TypeOK, Tasks
      <4>2. CASE proc[g].id \in {p, q}
        <5>1. proc'[g] = [proc[g] EXCEPT !.alone = FALSE]
          BY <2>1, <4>2
        <5> QED
          BY <4>1, <4>2, <5>1, DisturbedType
      <4>3. CASE proc[g].id \notin {p, q}
        <5>1. proc'[g] = proc[g]
          BY <2>1, <4>3
        <5> QED
          BY <4>1, <4>3, <5>1
      <4> QED
        BY <4>2, <4>3
    <3>3. proc' \in [Proc -> Tasks]
      BY <2>1, <3>2
    <3> QED
      BY <3>2, <3>3 DEF Others
  <2>3. TablesOK'
    <3>1. drifted' \in [Id -> BOOLEAN]
      BY <1>0, <2>1
    <3>2. models' \subseteq Id \X Model /\ \A r \in models' : provider'[r[1]] # None
      BY <1>0, <2>1
    <3> QED
      BY <1>0, <2>1, <3>1, <3>2 DEF TypeOK, TablesOK, Exists
  <2>4. \A x \in Id \ {p, q} : provider'[x] = provider[x] /\ Of(x)' = Of(x)
    <3>1. ASSUME NEW x \in Id \ {p, q}, NEW k \in Model
          PROVE  (<<x, k>> \in models') <=> (<<x, k>> \in models)
      BY <2>1
    <3> QED
      BY <2>1, <3>1 DEF Of
  <2>5. ASSUME NEW x \in Id
        PROVE  ListKept(x)' \/ (x \notin {p, q} /\ drifted'[x] = drifted[x])
    BY <1>0, <2>1 DEF ListKept
  <2>6. {p, q} \in SUBSET Id /\ nextId' >= nextId
    BY <1>0, <2>1, CatalogConstants DEF TypeOK
  <2> QED
    BY <1>0, <2>2, <2>3, <2>4, <2>5, <2>6, StepKeeps
<1> QED
  BY <1>1, <1>2, <1>3, <1>4 DEF Edit

LEMMA CrashKeeps ==
  ASSUME IInv, Crash PROVE IInv'
<1>0. TypeOK
  BY DEF IInv
<1>1. /\ proc' = [h \in Proc |-> Idle] /\ drifted' = [p \in Id |-> drifted[p] \/ Busy(p) # {}]
      /\ UNCHANGED <<tables, offer>> /\ events' \in 0..MaxEvents
  BY CountsType DEF Crash
<1>2. PICK idle \in Tasks : /\ idle = Idle /\ idle.at = "idle"
                           /\ TaskOK(idle) /\ Undisturbed(idle)
  BY <1>0, IdleOK
<1>3. \A h \in Proc : proc'[h] = idle
  BY <1>1, <1>2
<1>4. TypeOK'
  <2>1. \A h \in Proc : TaskOK(proc[h])'
    BY <1>1, <1>2, <1>3 DEF TaskOK, tables
  <2>2. proc' \in [Proc -> Tasks] /\ drifted' \in [Id -> BOOLEAN]
    BY <1>0, <1>1, <1>2 DEF TypeOK
  <2> QED
    BY <1>0, <1>1, <2>1, <2>2 DEF TypeOK, tables, Exists
<1>5. \A h \in Proc : Undisturbed(proc[h])'
  BY <1>2, <1>3 DEF Undisturbed
<1>6. ASSUME NEW p \in Id PROVE ListKept(p)'
  <2>1. CASE drifted'[p]
    BY <2>1 DEF ListKept
  <2>2. CASE ~drifted'[p]
    <3>1. ~drifted[p] /\ \A h \in Proc : ~LastSave(proc[h], p)
      BY <1>1, <2>2 DEF Busy, LastSave
    <3>2. ListKept(p)
      BY DEF IInv
    <3> QED
      BY <1>1, <3>1, <3>2 DEF ListKept, tables, Exists, Of
  <2> QED
    BY <2>1, <2>2
<1> QED
  BY <1>4, <1>5, <1>6 DEF IInv

-----------------------------------------------------------------------------
(* Every reachable state satisfies IInv, in any interleaving of saves,     *)
(* fetches, edits, changes at the upstream, failures and crashes.          *)
THEOREM CatalogInvariance == Spec => []IInv
<1>1. Init => IInv
  <2> SUFFICES ASSUME Init PROVE IInv
    OBVIOUS
  <2>1. /\ provider = [p \in Id |-> None] /\ nextId = 1 /\ models = {} /\ default = None
        /\ offer \in List \ {{}} /\ proc = [h \in Proc |-> Idle] /\ events = 0
        /\ drifted = [p \in Id |-> FALSE]
    BY DEF Init
  <2>2. /\ Idle \in Tasks /\ Idle.at = "idle" /\ Idle.id = 0
        /\ Idle.left = {} /\ Idle.names = {} /\ Idle.todo = {}
    BY CatalogConstants DEF Idle, Task, Tasks, Step
  <2>3. TaskOK(Idle) /\ Undisturbed(Idle)
    BY <2>1, <2>2 DEF TaskOK, Undisturbed
  <2>4. TypeOK
    BY <2>1, <2>2, <2>3, CatalogConstants DEF TypeOK, Exists
  <2>5. \A p \in Id : ListKept(p)
    BY <2>1 DEF ListKept, Exists
  <2> QED
    BY <2>1, <2>3, <2>4, <2>5 DEF IInv
<1>2. IInv /\ [Next]_vars => IInv'
  <2> SUFFICES ASSUME IInv, [Next]_vars PROVE IInv'
    OBVIOUS
  <2>1. ASSUME NEW h \in Handler, Request(h) PROVE IInv'
    BY <2>1, RequestKeeps DEF Proc
  <2>2. CASE SyncOnce(Hourly)
    BY <2>2, RequestKeeps DEF Proc, Request
  <2>3. ASSUME NEW h \in Proc, Continues(h) \/ MirrorFails(h) \/ FetchFails(h) PROVE IInv'
    BY <2>3, SaveKeeps, FetchKeeps DEF Continues
  <2>4. CASE Edit
    BY <2>4, EditKeeps
  <2>5. ASSUME NEW s \in List \ {{}}, UpstreamChanges(s) PROVE IInv'
    <3>1. /\ offer' \in List \ {{}} /\ UNCHANGED <<tables, proc, drifted>>
          /\ events' \in 0..MaxEvents
      BY <2>5, CountsType DEF UpstreamChanges
    <3> QED
      BY <3>1 DEF IInv, TypeOK, tables, Exists, TaskOK, Undisturbed, ListKept, LastSave, Of
  <2>6. CASE Crash
    BY <2>6, CrashKeeps
  <2>7. CASE UNCHANGED vars
    BY <2>7 DEF vars, IInv, TypeOK, tables, Exists, TaskOK, Undisturbed, ListKept, LastSave, Of
  <2> QED
    BY <2>1, <2>2, <2>3, <2>4, <2>5, <2>6, <2>7 DEF Next
<1> QED
  BY <1>1, <1>2, PTL DEF Spec

(* The types of the tables and of the processes; a row of models has a     *)
(* provider, and a process that is at work has one in mind.                *)
THEOREM CatalogTypes == Spec => []TypeOK
<1>1. IInv => TypeOK
  BY DEF IInv
<1> QED
  BY <1>1, CatalogInvariance, PTL

(* gateway.go:139: the list of a manual provider and its rows are one.     *)
THEOREM ListsAgree == Spec => []ManualListsAgree
<1>1. ASSUME IInv, NEW p \in Id, Exists(p), provider[p].manual, ~drifted[p], Busy(p) = {}
      PROVE  Of(p) = provider[p].list
  <2>1. \A h \in Proc : ~LastSave(proc[h], p)
    BY <1>1 DEF Busy, LastSave
  <2>2. ListKept(p)
    BY <1>1 DEF IInv
  <2> QED
    BY <1>1, <2>1, <2>2 DEF ListKept
<1>2. IInv => ManualListsAgree
  BY <1>1 DEF ManualListsAgree
<1> QED
  BY <1>2, CatalogInvariance, PTL

(* A fetch that nobody disturbs leaves exactly the models of the answer.   *)
THEOREM FetchesAreExact == Spec => SyncTakesTheAnswer
<1> DEFINE Taken(h) == {m \in Model : <<proc[h].id, m>> \in models'} = proc[h].names
<1>1. ASSUME IInv, NEW h \in Proc, Remove(h), proc[h].alone PROVE Taken(h)
  <2>1. /\ proc[h].at = "remove" /\ proc[h] \in Tasks /\ TaskOK(proc[h]) /\ Undisturbed(proc[h])
    BY <1>1, ProcType DEF Remove
  <2>2. PICK p \in Id : p = proc[h].id
    BY <1>1, <2>1, ProcType
  <2>3. proc[h].names \subseteq Of(p) /\ proc[h].names \subseteq Model
    BY <1>1, <2>1, <2>2 DEF TaskOK, Undisturbed, Tasks
  <2>4. models' = models \ ({p} \X (Of(p) \ proc[h].names))
    BY <1>1, <2>2 DEF Remove, Doomed
  <2>5. ASSUME NEW m \in Model PROVE (<<p, m>> \in models') <=> (m \in proc[h].names)
    BY <2>3, <2>4 DEF Of
  <2> QED
    BY <2>2, <2>3, <2>5
<1>2. IInv /\ [Next]_vars =>
        [\A h \in Proc : Remove(h) /\ proc[h].alone /\ Exists(proc[h].id) => Taken(h)]_vars
  BY <1>1
<1> QED
  BY <1>2, CatalogInvariance, PTL DEF Spec, SyncTakesTheAnswer

(* gateway.go:294: the default model is orphaned by saving a list, and by  *)
(* moving or renaming a row, only.                                         *)
THEOREM OthersClearTheDefault == Spec => OnlyListsAndRenamesOrphanTheDefault
<1> DEFINE Excepted == \/ \E h \in Proc : Mirror(h)
                       \/ \E p, q \in Id, m, n \in Model : PutModel(p, m, q, n)
<1>1. ASSUME IInv, [Next]_vars, NEW m \in Model, Orphans(m) PROVE Excepted
  <2>1. PICK p \in Id : <<p, m>> \in models
    BY <1>1 DEF Orphans, Named, Of
  <2>2. default = m /\ default' = m /\ <<p, m>> \notin models' /\ m # None
    BY <1>1, CatalogConstants DEF Orphans
  <2>3. ASSUME NEW names, default' = ClearedOf(names) PROVE m \notin names
    BY <2>2, <2>3 DEF ClearedOf
  <2>4. ASSUME NEW h \in Proc, Request(h) PROVE FALSE
    BY <2>1, <2>2, <2>4 DEF Request, Post, PutReads, SyncOne, SyncOnce, ConfigChecks, tables
  <2>5. ASSUME NEW h \in Proc, Remove(h) PROVE FALSE
    <3>1. /\ models' = models \ ({proc[h].id} \X Doomed(proc[h].id, proc[h].names))
          /\ default' = ClearedOf(Doomed(proc[h].id, proc[h].names))
      BY <2>5 DEF Remove
    <3> QED
      BY <2>1, <2>2, <2>3, <3>1
  <2>6. ASSUME NEW h \in Proc, ~Mirror(h), ~Remove(h),
               Continues(h) \/ MirrorFails(h) \/ FetchFails(h)
        PROVE FALSE
    <3>1. models \subseteq models'
      BY <2>6 DEF Continues, PutWrites, Refused, Fetch, Upsert, ConfigWrites, MirrorFails,
          FetchFails, tables
    <3> QED
      BY <2>1, <2>2, <3>1
  <2>7. ASSUME NEW q \in Id, DeleteProvider(q) PROVE FALSE
    <3>1. models' = {r \in models : r[1] # q} /\ default' = ClearedOf(Of(q))
      BY <2>7 DEF DeleteProvider
    <3> QED
      BY <2>1, <2>2, <2>3, <3>1 DEF Of
  <2>8. ASSUME NEW q \in Id, NEW n \in Model, PostModel(q, n) \/ DeleteModel(q, n) PROVE FALSE
    <3>1. CASE PostModel(q, n)
      BY <2>1, <2>2, <3>1 DEF PostModel
    <3>2. CASE DeleteModel(q, n)
      <4>1. models' = models \ {<<q, n>>} /\ default' = ClearedOf({n})
        BY <3>2 DEF DeleteModel
      <4> QED
        BY <2>1, <2>2, <2>3, <4>1
    <3> QED
      BY <2>8, <3>1, <3>2
  <2>9. CASE Crash \/ UNCHANGED vars \/ \E s \in List \ {{}} : UpstreamChanges(s)
    BY <2>1, <2>2, <2>9 DEF Crash, vars, UpstreamChanges, tables
  <2>10. Handler \subseteq Proc /\ Hourly \in Proc
    BY DEF Proc
  <2>11. CASE SyncOnce(Hourly)
    BY <2>1, <2>2, <2>11 DEF SyncOnce, tables
  <2>12. CASE Edit
    BY <2>7, <2>8, <2>12 DEF Edit, Excepted
  <2> HIDE DEF Excepted
  <2>13. \A h \in Proc : Mirror(h) => Excepted
    BY DEF Excepted
  <2> QED
    BY <1>1, <2>4, <2>5, <2>6, <2>9, <2>10, <2>11, <2>12, <2>13 DEF Next
<1>2. IInv /\ [Next]_vars => [(\E m \in Model : Orphans(m)) => Excepted]_vars
  BY <1>1
<1> QED
  BY <1>2, CatalogInvariance, PTL DEF Spec, OnlyListsAndRenamesOrphanTheDefault
=============================================================================
