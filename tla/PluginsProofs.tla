--------------------------- MODULE PluginsProofs ---------------------------
(***************************************************************************)
(* Proofs about Plugins, for any number of processes, any finite set of    *)
(* requests, any users and credentials and any bounds.  IInv, the          *)
(* inductive invariant, is defined and explained there.  The second half   *)
(* proves the rate limiters correct, one of which guards the configuration *)
(* of plugins; the two halves use nothing of each other.                   *)
(***************************************************************************)
EXTENDS Plugins, Limiters, TLAPS, FiniteSetTheorems, WellFoundedInduction

-----------------------------------------------------------------------------
(* The operators.                                                          *)

\* A value that is sealed with a key is one that may be stored.
LEMMA SealType ==
  ASSUME keyFile \in MasterKey, NEW v \in Entry
  PROVE  /\ Seal(v) \in Sealed \cup Prefixed
         /\ Seal(Seal(v)) = Seal(v)
         /\ Seal(v) \in Sealed => Seal(v).key = keyFile
<1>1. CASE v \in Plain
  <2>1. Seal(v) = [key |-> keyFile, text |-> v] /\ Seal(v) \in Sealed
    BY <1>1 DEF Seal, Sealed
  <2>2. Seal(v) \notin Plain
    BY <2>1, SealedIsNotPlain DEF Entry
  <2> QED
    BY <2>1, <2>2 DEF Seal
<1>2. CASE v \notin Plain
  <2>1. Seal(v) = v /\ v \in Prefixed
    BY <1>2 DEF Seal, Entry
  <2>2. v \notin Sealed
    BY SealedIsNotPlain DEF Entry
  <2> QED
    BY <2>1, <2>2
<1> QED
  BY <1>1, <1>2

\* Encrypting a map twice stores the same as encrypting it once.
LEMMA TwiceIsOnce ==
  ASSUME keyFile \in MasterKey, NEW v \in Entry \cup {None}, NEW o \in Entry \cup {None}
  PROVE  SealTwice(v, o) = IF v = None THEN None ELSE Seal(v)
BY SealType DEF SealTwice

\* The keys of a row, credential by credential.
LEMMA KeysOfRow ==
  ASSUME NEW row, NEW K
  PROVE  (KeysOf(row) \subseteq K)
           <=> /\ row.env \in Sealed => row.env.key \in K
               /\ row.headers \in Sealed => row.headers.key \in K
<1>1. \A k : (k \in KeysOf(row))
               <=> \/ row.env \in Sealed /\ k = row.env.key
                   \/ row.headers \in Sealed /\ k = row.headers.key
  BY DEF KeysOf
<1> QED
  BY <1>1, Zenon

\* What a PUT stores is a row whose credentials have keys that were made.
LEMMA RenewedType ==
  ASSUME keyFile \in MasterKey, keyFile = made,
         NEW row \in Row, KeysOf(row) \subseteq 1..made,
         NEW env \in Entry \cup {None}, NEW headers \in Entry \cup {None}
  PROVE  LET new == Renewed(row, SealTwice(env, headers), SealTwice(headers, env))
         IN  new \in Row /\ KeysOf(new) \subseteq 1..made /\ new = AsAsked(row, env, headers)
<1> DEFINE e == SealTwice(env, headers)
           h == SealTwice(headers, env)
           new == Renewed(row, e, h)
<1>1. /\ e = IF env = None THEN None ELSE Seal(env)
      /\ h = IF headers = None THEN None ELSE Seal(headers)
  BY TwiceIsOnce
<1>2. ASSUME NEW v \in Entry \cup {None}, v # None
      PROVE  Seal(v) \in Sealed \cup Prefixed /\ (Seal(v) \in Sealed => Seal(v).key = keyFile)
  BY <1>2, SealType
<1>3. None \notin Sealed \cup Prefixed
  BY SealedIsNotPlain, PluginConstants
<1>4. /\ e # None => e \in Sealed \cup Prefixed /\ (e \in Sealed => e.key = keyFile)
      /\ h # None => h \in Sealed \cup Prefixed /\ (h \in Sealed => h.key = keyFile)
  BY <1>1, <1>2
<1>5. /\ (e = None) <=> (env = None)
      /\ (h = None) <=> (headers = None)
  BY <1>1, <1>2, <1>3
<1> HIDE DEF e, h
<1>6. new = [row EXCEPT !.env = IF e = None THEN row.env ELSE e,
                        !.headers = IF h = None THEN row.headers ELSE h]
  BY DEF Renewed, Row
<1>7. /\ new \in Row
      /\ new.env = (IF e = None THEN row.env ELSE e)
      /\ new.headers = (IF h = None THEN row.headers ELSE h)
  BY <1>4, <1>6 DEF Row
<1>8. KeysOf(new) \subseteq 1..made
  <2>1. keyFile \in 1..made
    BY DEF MasterKey
  <2>2. /\ row.env \in Sealed => row.env.key \in 1..made
        /\ row.headers \in Sealed => row.headers.key \in 1..made
    BY KeysOfRow, Zenon
  <2>3. /\ new.env \in Sealed => new.env.key \in 1..made
        /\ new.headers \in Sealed => new.headers.key \in 1..made
    BY <1>4, <1>7, <2>1, <2>2
  <2> HIDE DEF new
  <2> QED
    BY <2>3, KeysOfRow, Zenon
<1>9. new = AsAsked(row, env, headers)
  BY <1>1, <1>5, <1>6 DEF Row, AsAsked
<1> QED
  BY <1>7, <1>8, <1>9 DEF e, h

-----------------------------------------------------------------------------
(* The requests.  Each of these is a step of one of them.                  *)

LEMMA IdleType == Idle \in Tasks
BY PluginConstants DEF Idle, Task, Tasks, Id

LEMMA OutdatedType ==
  ASSUME NEW t \in Tasks
  PROVE  LET new == [t EXCEPT !.stale = TRUE]
         IN  /\ new \in Tasks /\ new.stale
             /\ new.at = t.at /\ new.id = t.id /\ new.row = t.row /\ new.user = t.user
BY DEF Tasks

LEMMA MovedType ==
  ASSUME NEW t \in Tasks, t.at = "open" \/ t.at = "record", NEW at \in {"record", "serve"}
  PROVE  LET new == [t EXCEPT !.at = at]
         IN  /\ new \in Tasks /\ new.stale = t.stale
             /\ new.at = at /\ new.id = t.id /\ new.row = t.row /\ new.user = t.user
BY DEF Tasks

LEMMA NewTaskType ==
  ASSUME NEW p \in Id, NEW row \in Row, NEW at, NEW u,
         \/ at = "put" /\ u = None
         \/ at = "open" /\ u \in User
  PROVE  Task(at, p, row, u) \in Tasks
BY PluginConstants DEF Task, Tasks, Id

-----------------------------------------------------------------------------
(* A step keeps the types.                                                 *)
LEMMA TypesArePreserved == IInv /\ [Next]_vars => TypeOK'
<1> SUFFICES ASSUME IInv, [Next]_vars PROVE TypeOK'
  OBVIOUS
<1> USE PluginConstants DEF IInv, TypeOK
<1>1. ASSUME NEW s \in Server, Starts(s) PROVE TypeOK'
  <2>1. CASE ReadKey(s) \/ Reread(s)
    BY <2>1 DEF ReadKey, Reread, Becomes, keyState, records
  <2>2. CASE CreateKey(s)
    BY <2>2 DEF CreateKey, Becomes, records
  <2>3. CASE WriteKey(s)
    BY <2>3 DEF WriteKey, Becomes, records, MasterKey
  <2> QED
    BY <1>1, <2>1, <2>2, <2>3 DEF Starts
<1>2. ASSUME NEW p \in Id, NEW env \in Entry, NEW headers \in Entry, Create(p, env, headers)
      PROVE  TypeOK'
  <2>1. keyFile \in MasterKey
    BY <1>2 DEF Create, Serving, KeyIsKept
  <2>2. [env |-> Seal(env), headers |-> Seal(headers), enabled |-> TRUE] \in Row
    BY <2>1, SealType DEF Row
  <2> QED
    BY <1>2, <2>2 DEF Create, keyState, records
<1>3. ASSUME NEW r \in Request, NEW p \in Id, PutReads(r, p) PROVE TypeOK'
  <2>1. plugin[p] \in Row
    BY <1>3 DEF PutReads
  <2>2. Task("put", p, plugin[p], None) \in Tasks
    BY <2>1, NewTaskType
  <2> QED
    BY <1>3, <2>2 DEF PutReads, Counts, keyState, records
<1>4. ASSUME NEW r \in Request, NEW env \in Entry \cup {None},
             NEW headers \in Entry \cup {None}, PutWrites(r, env, headers)
      PROVE  TypeOK'
  <2> DEFINE new == Renewed(req[r].row, SealTwice(env, headers), SealTwice(headers, env))
  <2>1. req[r].id \in Id /\ req[r].row \in Row
    BY <1>4 DEF PutWrites, Tasks
  <2>2. keyFile \in MasterKey /\ keyFile = made /\ KeysOf(req[r].row) \subseteq 1..made
    BY <1>4 DEF PutWrites, KeyIsKept
  <2>3. new \in Row
    BY <2>1, <2>2, RenewedType
  <2>4. /\ plugin' = [plugin EXCEPT ![req[r].id] = new]
        /\ req' = [Outdated(req[r].id) EXCEPT ![r] = Idle]
        /\ UNCHANGED <<keyFile, synced, made, lost, server, users, audit, configs, asked, events>>
    BY <1>4 DEF PutWrites, keyState, records
  <2> HIDE DEF new
  <2>5. req' \in [Request -> Tasks]
    BY <2>4, IdleType, OutdatedType DEF Outdated
  <2> QED
    BY <2>1, <2>3, <2>4, <2>5
<1>5. ASSUME NEW p \in Id, Delist(p) PROVE TypeOK'
  <2>1. [plugin[p] EXCEPT !.enabled = FALSE] \in Row
    BY <1>5 DEF Delist, Row
  <2>2. req' \in [Request -> Tasks]
    BY <1>5, OutdatedType DEF Delist, Outdated
  <2> QED
    BY <1>5, <2>1, <2>2 DEF Delist, Counts, keyState, records
<1>6. ASSUME NEW r \in Request, NEW u \in User, NEW p \in Id, Lookup(r, u, p) PROVE TypeOK'
  <2>1. plugin[p] \in Row
    BY <1>6 DEF Lookup
  <2>2. Task("open", p, plugin[p], u) \in Tasks
    BY <2>1, NewTaskType
  <2> QED
    BY <1>6, <2>2 DEF Lookup, keyState, records
<1>7. ASSUME NEW r \in Request, Decrypt(r) \/ Refuse(r) PROVE TypeOK'
  <2>1. \/ req' = [req EXCEPT ![r] = Idle]
        \/ req[r].at = "open" /\ req' = [req EXCEPT ![r] = [req[r] EXCEPT !.at = "record"]]
    BY <1>7 DEF Decrypt, Refuse
  <2>2. req[r].at = "open" => [req[r] EXCEPT !.at = "record"] \in Tasks
    BY MovedType
  <2>3. req' \in [Request -> Tasks]
    BY <2>1, <2>2, IdleType
  <2> QED
    BY <1>7, <2>3 DEF Decrypt, Refuse, keyState, records
<1>8. ASSUME NEW r \in Request, RecordDownload(r) \/ Serve(r) PROVE TypeOK'
  <2>1. \/ req' = [req EXCEPT ![r] = Idle]
        \/ req[r].at = "record" /\ req' = [req EXCEPT ![r] = [req[r] EXCEPT !.at = "serve"]]
    BY <1>8 DEF RecordDownload, Serve
  <2>2. req[r].at = "record" => [req[r] EXCEPT !.at = "serve"] \in Tasks
    BY MovedType
  <2>3. req' \in [Request -> Tasks]
    BY <2>1, <2>2, IdleType
  <2>4. \A d \in User \X Id : audit[d] + 1 \in Nat /\ configs[d] + 1 \in Nat
    OBVIOUS
  <2>5. audit' \in [User \X Id -> Nat]
    BY <1>8, <2>4 DEF RecordDownload, Serve
  <2>6. configs' \in [User \X Id -> Nat]
    BY <1>8, <2>4 DEF RecordDownload, Serve
  <2> QED
    BY <1>8, <2>3, <2>5, <2>6 DEF RecordDownload, Serve, keyState
<1>9. CASE Crash \/ PowerFails
  <2>1. CASE Crash
    BY <2>1, IdleType DEF Crash, Down, Counts, keyState, records
  <2>2. CASE PowerFails
    <3>1. lost' \in BOOLEAN /\ synced' \in BOOLEAN /\ keyFile' \in {None, Empty}
      BY <2>2 DEF PowerFails
    <3>2. /\ made' \in Nat /\ events' \in 0..MaxEvents
          /\ server' \in [Server -> {"down", "create", "write", "up"}]
          /\ req' \in [Request -> Tasks]
      BY <2>2, IdleType DEF PowerFails, Down, Counts
    <3> QED
      BY <2>2, <3>1, <3>2 DEF PowerFails, Down, records
  <2> QED
    BY <1>9, <2>1, <2>2
<1>10. ASSUME NEW u \in User, DeleteUser(u) PROVE TypeOK'
  BY <1>10 DEF DeleteUser, keyState
<1>11. CASE Flush
  BY <1>11 DEF Flush, records
<1>12. CASE UNCHANGED vars
  BY <1>12 DEF vars, keyState, records
<1> QED
  BY <1>1, <1>2, <1>3, <1>4, <1>5, <1>6, <1>7, <1>8, <1>9, <1>10, <1>11, <1>12 DEF Next

-----------------------------------------------------------------------------
(* What a step may do to a request: end it; change the row and tell it so, *)
(* or neither; or start it with a copy of the row.                         *)
LEMMA RequestSteps ==
  ASSUME IInv, [Next]_vars, NEW r \in Request
  PROVE  \/ req'[r] = Idle
         \/ /\ req[r].at # "idle" /\ req'[r].at # "idle"
            /\ req'[r].row = req[r].row /\ req'[r].id = req[r].id
            /\ req[r].stale => req'[r].stale
            /\ req'[r].stale \/ plugin'[req[r].id] = plugin[req[r].id]
         \/ \E p \in Id : /\ plugin[p] # None /\ Serving
                          /\ req'[r].row = plugin[p] /\ req'[r].id = p
                          /\ req'[r].at # "idle" /\ UNCHANGED <<plugin, keyState>>
<1> USE DEF IInv, TypeOK
<1> DEFINE Begins(p) == /\ plugin[p] # None /\ Serving /\ UNCHANGED <<plugin, keyState>>
                        /\ \E at \in {"put", "open"} : \E u : req'[r] = Task(at, p, plugin[p], u)
           Waits == /\ req[r].at # "idle" /\ req'[r] = req[r]
                    /\ plugin'[req[r].id] = plugin[req[r].id]
           Told == /\ req[r].at # "idle" /\ req'[r] = [req[r] EXCEPT !.stale = TRUE]
           Moved == /\ req[r].at \in {"open", "record"} /\ plugin' = plugin
                    /\ \E at \in {"record", "serve"} : req'[r] = [req[r] EXCEPT !.at = at]
           Continues == req'[r] = Idle \/ Waits \/ Told \/ Moved
<1>0. /\ req[r] \in Tasks /\ Idle.at = "idle" /\ Idle.id = 0
      /\ IF req[r].at = "idle" THEN req[r] = Idle /\ req[r].id \notin Id
                               ELSE plugin[req[r].id] # None /\ req[r].id \in Id
  BY DEF FreshCopies, Idle, Task, Tasks, Id
<1>1. ASSUME NEW s \in Server, Starts(s) PROVE Continues
  BY <1>0, <1>1 DEF Starts, ReadKey, CreateKey, Reread, WriteKey
<1>2. ASSUME NEW p \in Id, NEW env \in Entry, NEW headers \in Entry, Create(p, env, headers)
      PROVE  Continues
  BY <1>0, <1>2 DEF Create
<1>3. ASSUME NEW q \in Request, NEW p \in Id, PutReads(q, p)
      PROVE  Continues \/ Begins(p)
  BY <1>0, <1>3 DEF PutReads
<1>4. ASSUME NEW q \in Request, NEW p \in Id, NEW u \in User, Lookup(q, u, p)
      PROVE  Continues \/ Begins(p)
  BY <1>0, <1>4 DEF Lookup
<1>5. ASSUME NEW q \in Request, NEW env \in Entry \cup {None},
             NEW headers \in Entry \cup {None}, PutWrites(q, env, headers)
      PROVE  Continues
  <2>1. \E new : plugin' = [plugin EXCEPT ![req[q].id] = new]
    BY <1>5 DEF PutWrites
  <2>2. req' = [Outdated(req[q].id) EXCEPT ![q] = Idle] /\ req[q].at # "idle"
    BY <1>5 DEF PutWrites
  <2>3. req[q].id \in Id
    BY <2>2 DEF Tasks
  <2>4. \/ req'[r] = Idle
        \/ req[r].id = req[q].id /\ req'[r] = [req[r] EXCEPT !.stale = TRUE]
        \/ req[r].id # req[q].id /\ req'[r] = req[r]
    BY <2>2 DEF Outdated
  <2> QED
    BY <1>0, <2>1, <2>3, <2>4
<1>6. ASSUME NEW p \in Id, Delist(p) PROVE Continues
  <2>1. \E new : plugin' = [plugin EXCEPT ![p] = new]
    BY <1>6 DEF Delist
  <2>2. \/ req[r].id = p /\ req'[r] = [req[r] EXCEPT !.stale = TRUE]
        \/ req[r].id # p /\ req'[r] = req[r]
    BY <1>6 DEF Delist, Outdated
  <2> QED
    BY <1>0, <2>1, <2>2
<1>7. ASSUME NEW q \in Request, Decrypt(q) \/ RecordDownload(q) \/ Serve(q) \/ Refuse(q)
      PROVE  Continues
  BY <1>0, <1>7 DEF Decrypt, RecordDownload, Serve, Refuse
<1>8. ASSUME Crash \/ PowerFails PROVE Continues
  BY <1>8 DEF Crash, PowerFails, Down
<1>9. ASSUME Flush \/ (\E u \in User : DeleteUser(u)) \/ UNCHANGED vars PROVE Continues
  BY <1>0, <1>9 DEF Flush, DeleteUser, vars
<1>10. Continues \/ \E p \in Id : Begins(p)
  <2> HIDE DEF Continues, Begins, IInv, TypeOK
  <2>1. ASSUME NEW q \in Request, \/ \E p \in Id : PutReads(q, p)
                                  \/ \E u \in User, p \in Id : Lookup(q, u, p)
        PROVE  Continues \/ \E p \in Id : Begins(p)
    BY <1>3, <1>4, <2>1
  <2>2. CASE \E s \in Server : Starts(s)
    BY <1>1, <2>2
  <2>3. CASE \E p \in Id, env, headers \in Entry : Create(p, env, headers)
    BY <1>2, <2>3
  <2>4. ASSUME NEW q \in Request, \E env, headers \in Entry \cup {None} : PutWrites(q, env, headers)
        PROVE  Continues
    BY <1>5, <2>4
  <2>5. ASSUME NEW q \in Request,
               \/ \E p \in Id : PutReads(q, p)
               \/ \E env, headers \in Entry \cup {None} : PutWrites(q, env, headers)
               \/ \E u \in User, p \in Id : Lookup(q, u, p)
               \/ Decrypt(q) \/ RecordDownload(q) \/ Serve(q) \/ Refuse(q)
        PROVE  Continues \/ \E p \in Id : Begins(p)
    BY <1>7, <2>1, <2>4, <2>5
  <2>6. CASE \E p \in Id : Delist(p)
    BY <1>6, <2>6
  <2> QED
    BY <1>8, <1>9, <2>2, <2>3, <2>5, <2>6 DEF Next
<1> HIDE DEF IInv, TypeOK
<1>11. ASSUME Moved PROVE /\ req[r].at # "idle" /\ req'[r].at # "idle"
                          /\ req'[r].row = req[r].row /\ req'[r].id = req[r].id
                          /\ req'[r].stale = req[r].stale
  BY <1>0, <1>11, MovedType
<1>12. ASSUME Told PROVE /\ req[r].at # "idle" /\ req'[r].at # "idle"
                         /\ req'[r].row = req[r].row /\ req'[r].id = req[r].id
                         /\ req'[r].stale
  BY <1>0, <1>12, OutdatedType
<1>13. ASSUME NEW p \in Id, Begins(p)
       PROVE  /\ plugin[p] # None /\ Serving /\ UNCHANGED <<plugin, keyState>>
              /\ req'[r].row = plugin[p] /\ req'[r].id = p /\ req'[r].at # "idle"
  BY <1>13 DEF Task
<1> HIDE DEF Begins
<1> QED
  BY <1>10, <1>11, <1>12, <1>13

(* What a step may do to a row: store one that is sealed with the key.     *)
LEMMA RowSteps ==
  ASSUME IInv, [Next]_vars, NEW p \in Id
  PROVE  \/ plugin'[p] = plugin[p]
         \/ plugin'[p] # None /\ KeysOf(plugin'[p]) \subseteq 1..made
<1> USE NoneIsNoPlugin DEF IInv, TypeOK
<1> DEFINE Sealing == plugin'[p] # None /\ KeysOf(plugin'[p]) \subseteq 1..made
<1>1. ASSUME NEW q \in Id, NEW env \in Entry, NEW headers \in Entry, Create(q, env, headers)
      PROVE  plugin'[p] = plugin[p] \/ Sealing
  <2> DEFINE new == [env |-> Seal(env), headers |-> Seal(headers), enabled |-> TRUE]
  <2>1. keyFile \in MasterKey /\ keyFile \in 1..made
    BY <1>1 DEF Create, Serving, KeyIsKept, MasterKey
  <2>2. new \in Row
    BY <2>1, SealType DEF Row
  <2>3. KeysOf(new) \subseteq 1..made
    <3>1. /\ Seal(env) \in Sealed => Seal(env).key \in 1..made
          /\ Seal(headers) \in Sealed => Seal(headers).key \in 1..made
      BY <2>1, SealType
    <3>2. /\ new.env \in Sealed => new.env.key \in 1..made
          /\ new.headers \in Sealed => new.headers.key \in 1..made
      BY <3>1
    <3> HIDE DEF new
    <3> QED
      BY <3>2, KeysOfRow, Zenon
  <2>4. plugin' = [plugin EXCEPT ![q] = new]
    BY <1>1 DEF Create
  <2> HIDE DEF new
  <2> QED
    BY <2>2, <2>3, <2>4
<1>2. ASSUME NEW q \in Request, NEW env \in Entry \cup {None},
             NEW headers \in Entry \cup {None}, PutWrites(q, env, headers)
      PROVE  plugin'[p] = plugin[p] \/ Sealing
  <2> DEFINE new == Renewed(req[q].row, SealTwice(env, headers), SealTwice(headers, env))
  <2>1. /\ req[q].row \in Row /\ keyFile \in MasterKey /\ keyFile = made
        /\ KeysOf(req[q].row) \subseteq 1..made
    BY <1>2 DEF PutWrites, KeyIsKept, Tasks
  <2>2. new \in Row /\ KeysOf(new) \subseteq 1..made
    BY <2>1, RenewedType
  <2>3. plugin' = [plugin EXCEPT ![req[q].id] = new]
    BY <1>2 DEF PutWrites
  <2> HIDE DEF new
  <2> QED
    BY <2>1, <2>2, <2>3
<1>3. ASSUME NEW q \in Id, Delist(q) PROVE plugin'[p] = plugin[p] \/ Sealing
  <2> DEFINE new == [plugin[q] EXCEPT !.enabled = FALSE]
  <2>1. plugin[q] \in Row /\ KeysOf(plugin[q]) \subseteq 1..made
    BY <1>3 DEF Delist, KeyIsKept
  <2>2. new \in Row /\ KeysOf(new) \subseteq 1..made
    BY <2>1 DEF Row, KeysOf
  <2>3. plugin' = [plugin EXCEPT ![q] = new]
    BY <1>3 DEF Delist
  <2> HIDE DEF new
  <2> QED
    BY <2>1, <2>2, <2>3
<1>4. ASSUME NEW s \in Server, Starts(s) PROVE plugin' = plugin
  BY <1>4 DEF Starts, ReadKey, CreateKey, Reread, WriteKey
<1>5. ASSUME NEW r \in Request, \/ \E q \in Id : PutReads(r, q)
                                \/ \E u \in User, q \in Id : Lookup(r, u, q)
                                \/ Decrypt(r) \/ RecordDownload(r) \/ Serve(r) \/ Refuse(r)
      PROVE  plugin' = plugin
  BY <1>5 DEF PutReads, Lookup, Decrypt, RecordDownload, Serve, Refuse
<1>6. CASE Crash \/ PowerFails \/ Flush \/ (\E u \in User : DeleteUser(u)) \/ UNCHANGED vars
  BY <1>6 DEF Crash, PowerFails, Down, Flush, DeleteUser, vars
<1> HIDE DEF IInv, TypeOK
<1>7. CASE \E q \in Id, env, headers \in Entry : Create(q, env, headers)
  BY <1>1, <1>7
<1>8. ASSUME NEW r \in Request,
             \/ \E q \in Id : PutReads(r, q)
             \/ \E env, headers \in Entry \cup {None} : PutWrites(r, env, headers)
             \/ \E u \in User, q \in Id : Lookup(r, u, q)
             \/ Decrypt(r) \/ RecordDownload(r) \/ Serve(r) \/ Refuse(r)
      PROVE  plugin'[p] = plugin[p] \/ Sealing
  BY <1>2, <1>5, <1>8
<1>9. CASE \E q \in Id : Delist(q)
  BY <1>3, <1>9
<1>10. CASE \E s \in Server : Starts(s)
  BY <1>4, <1>10
<1> QED
  BY <1>6, <1>7, <1>8, <1>9, <1>10 DEF Next

-----------------------------------------------------------------------------
(* The parts of the invariant.                                             *)

(* Keys are only ever added; the one that was written stays in the file    *)
(* until the power fails.                                                  *)
LEMMA KeySteps ==
  ASSUME IInv, [Next]_vars
  PROVE  /\ made \in Nat /\ 1..made \subseteq (1..made)'
         /\ keyFile \in MasterKey => PowerFails \/ keyFile' = keyFile
<1> USE PluginConstants DEF IInv, TypeOK, KeyIsKept
<1> DEFINE Lasts == (made' = made \/ made' = made + 1)
                   /\ (keyFile \in MasterKey => PowerFails \/ keyFile' = keyFile)
<1>1. ASSUME NEW s \in Server, Starts(s) PROVE Lasts
  BY <1>1 DEF Starts, ReadKey, CreateKey, Reread, WriteKey, keyState, MasterKey
<1>2. ASSUME UNCHANGED keyState PROVE Lasts
  BY <1>2 DEF keyState
<1>3. ASSUME Flush \/ PowerFails PROVE Lasts
  BY <1>3 DEF Flush, PowerFails
<1>4. made \in Nat /\ (made' = made \/ made' = made + 1 => 1..made \subseteq 1..made')
  OBVIOUS
<1> HIDE DEF Lasts, IInv, TypeOK, KeyIsKept
<1>5. ASSUME \E s \in Server : Starts(s) PROVE Lasts
  BY <1>1, <1>5
<1>6. ASSUME NEW r \in Request,
             \/ \E p \in Id : PutReads(r, p)
             \/ \E env, headers \in Entry \cup {None} : PutWrites(r, env, headers)
             \/ \E u \in User, p \in Id : Lookup(r, u, p)
             \/ Decrypt(r) \/ RecordDownload(r) \/ Serve(r) \/ Refuse(r)
      PROVE  UNCHANGED keyState
  BY <1>6 DEF PutReads, PutWrites, Lookup, Decrypt, RecordDownload, Serve, Refuse
<1>7. ASSUME \/ \E p \in Id, env, headers \in Entry : Create(p, env, headers)
             \/ \E p \in Id : Delist(p)
             \/ \E u \in User : DeleteUser(u)
             \/ Crash \/ UNCHANGED vars
      PROVE  UNCHANGED keyState
  BY <1>7 DEF Create, Delist, DeleteUser, Crash, vars
<1>8. Lasts
  BY <1>2, <1>3, <1>5, <1>6, <1>7 DEF Next
<1> QED
  BY <1>4, <1>8 DEF Lasts

LEMMA KeysArePreserved == IInv /\ [Next]_vars => KeyIsKept'
<1> SUFFICES ASSUME IInv, [Next]_vars PROVE KeyIsKept'
  OBVIOUS
<1> DEFINE OneWriter ==
      /\ \A s \in Server : server'[s] = "write" => keyFile' = Empty
      /\ \A s, t \in Server : server'[s] = "write" /\ server'[t] = "write" => s = t
      /\ \A s \in Server : server'[s] = "up" => keyFile' \in MasterKey
      /\ keyFile' \in MasterKey => keyFile' = made'
      /\ ~lost' => made' = 0 \/ (made' = 1 /\ keyFile' = 1)
<1>1. OneWriter
  <2> USE PluginConstants DEF IInv, TypeOK, KeyIsKept, MasterKey
  <2>1. ASSUME NEW s \in Server, ReadKey(s) PROVE OneWriter
    BY <2>1 DEF ReadKey, Becomes, keyState
  <2>2. ASSUME NEW s \in Server, CreateKey(s) PROVE OneWriter
    BY <2>2 DEF CreateKey, Becomes
  <2>3. ASSUME NEW s \in Server, Reread(s) PROVE OneWriter
    BY <2>3 DEF Reread, Becomes, keyState
  <2>4. ASSUME NEW s \in Server, WriteKey(s) PROVE OneWriter
    BY <2>4 DEF WriteKey, Becomes
  <2>5. CASE UNCHANGED <<keyState, server>>
    BY <2>5 DEF keyState
  <2>6. CASE Crash
    BY <2>6 DEF Crash, Down, keyState
  <2>7. CASE PowerFails
    BY <2>7 DEF PowerFails, Down
  <2>8. CASE Flush
    BY <2>8 DEF Flush
  <2> QED
    BY <2>1, <2>2, <2>3, <2>4, <2>5, <2>6, <2>7, <2>8
    DEF Next, vars, Starts, Create, PutReads, PutWrites, Lookup, Decrypt, RecordDownload,
        Serve, Refuse, Delist, DeleteUser
<1>2. ASSUME NEW r \in Request, req'[r].at # "idle"
      PROVE  keyFile' \in MasterKey /\ (KeysOf(req[r].row) \subseteq 1..made)'
  <2>1. ~PowerFails
    BY <1>2 DEF PowerFails, Down, Idle, Task
  <2>2. CASE req[r].at # "idle" /\ req'[r].row = req[r].row
    BY <2>1, <2>2, KeySteps DEF IInv, KeyIsKept, KeysOf
  <2>3. ASSUME NEW p \in Id, plugin[p] # None, Serving, req'[r].row = plugin[p]
        PROVE  keyFile' \in MasterKey /\ (KeysOf(req[r].row) \subseteq 1..made)'
    BY <2>1, <2>3, KeySteps DEF IInv, KeyIsKept, KeysOf, Serving
  <2> QED
    BY <1>2, <2>2, <2>3, RequestSteps DEF Idle, Task
<1>3. ASSUME NEW p \in Id, plugin'[p] # None
      PROVE  (KeysOf(plugin[p]) \subseteq 1..made)'
  <2>1. KeysOf(plugin'[p]) \subseteq 1..made
    BY <1>3, RowSteps DEF IInv, KeyIsKept
  <2> QED
    BY <2>1, KeySteps DEF KeysOf
<1> QED
  BY <1>1, <1>2, <1>3 DEF KeyIsKept

LEMMA CopiesStayFresh == IInv /\ [Next]_vars => FreshCopies'
<1> DEFINE Fresh(r) == /\ req'[r].at = "idle" => req'[r] = Idle
                       /\ req'[r].at # "idle" => plugin'[req'[r].id] # None
                       /\ req'[r].at # "idle" /\ ~req'[r].stale
                            => req'[r].row = plugin'[req'[r].id]
<1> SUFFICES ASSUME IInv, [Next]_vars, NEW r \in Request PROVE Fresh(r)
  BY DEF FreshCopies
<1>1. CASE req'[r] = Idle
  BY <1>1 DEF Idle, Task
<1>2. CASE /\ req[r].at # "idle" /\ req'[r].at # "idle"
           /\ req'[r].row = req[r].row /\ req'[r].id = req[r].id
           /\ req[r].stale => req'[r].stale
           /\ req'[r].stale \/ plugin'[req[r].id] = plugin[req[r].id]
  <2>1. req[r].id \in Id
    BY <1>2 DEF IInv, TypeOK, Tasks
  <2>2. plugin'[req[r].id] # None
    BY <1>2, <2>1, RowSteps DEF IInv, FreshCopies
  <2> QED
    BY <1>2, <2>2 DEF IInv, FreshCopies
<1>3. ASSUME NEW p \in Id, plugin[p] # None, req'[r].row = plugin[p], req'[r].id = p,
             req'[r].at # "idle", UNCHANGED plugin
      PROVE  Fresh(r)
  BY <1>3
<1> QED
  BY <1>1, <1>2, <1>3, RequestSteps

(* Nobody else gets to "serve", and those who are there are the same.      *)
LEMMA ServersStay ==
  ASSUME IInv, [Next]_vars,
         \A r \in Request : ~RecordDownload(r) /\ ~Serve(r),
         \A u \in User : ~DeleteUser(u)
  PROVE  /\ UNCHANGED records
         /\ \A d \in User \X Id : AboutToServe(d)' \subseteq AboutToServe(d)
<1>1. UNCHANGED records
  BY DEF Next, vars, Starts, ReadKey, CreateKey, Reread, WriteKey, Create, PutReads,
         PutWrites, Lookup, Decrypt, Refuse, Delist, Flush, Crash, PowerFails, Down
<1>2. ASSUME NEW r \in Request, req'[r].at = "serve"
      PROVE  /\ req[r].at = "serve"
             /\ req'[r].user = req[r].user /\ req'[r].id = req[r].id
  <2> DEFINE Same == /\ req[r].at = "serve"
                     /\ req'[r].user = req[r].user /\ req'[r].id = req[r].id
  <2>0. req \in [Request -> Tasks] /\ req[r] \in Tasks /\ Idle.at = "idle"
    BY DEF IInv, TypeOK, Idle, Task
  <2>1. [req[r] EXCEPT !.stale = TRUE].at = req[r].at
        /\ [req[r] EXCEPT !.stale = TRUE].id = req[r].id
        /\ [req[r] EXCEPT !.stale = TRUE].user = req[r].user
    BY <2>0, OutdatedType
  <2>2. ASSUME req' = req PROVE Same
    BY <1>2, <2>2
  <2>3. ASSUME NEW q \in Request, NEW at \in {"put", "open"}, NEW p, NEW u,
               req' = [req EXCEPT ![q] = Task(at, p, plugin[p], u)]
        PROVE  Same
    BY <1>2, <2>0, <2>3 DEF Task
  <2>4. ASSUME NEW q \in Request, NEW p, req' = [Outdated(p) EXCEPT ![q] = Idle]
        PROVE  Same
    BY <1>2, <2>0, <2>1, <2>4 DEF Outdated
  <2>5. ASSUME NEW p, req' = Outdated(p) PROVE Same
    BY <1>2, <2>1, <2>5 DEF Outdated
  <2>6. ASSUME NEW q \in Request,
               req' \in {[req EXCEPT ![q] = Idle], [req EXCEPT ![q].at = "record"]}
        PROVE  Same
    <3>1. CASE q = r /\ req' = [req EXCEPT ![q].at = "record"]
      <4>1. req'[r] = [req[r] EXCEPT !.at = "record"]
        BY <2>0, <3>1
      <4>2. req'[r].at = "record"
        BY <2>0, <4>1 DEF Tasks
      <4> QED
        BY <1>2, <4>2
    <3> QED
      BY <1>2, <2>0, <2>6, <3>1
  <2>7. ASSUME Crash \/ PowerFails PROVE Same
    BY <1>2, <2>0, <2>7 DEF Crash, PowerFails, Down
  <2> HIDE DEF Same
  <2>8. ASSUME NEW s \in Server, Starts(s) PROVE req' = req
    BY <2>8 DEF Starts, ReadKey, CreateKey, Reread, WriteKey
  <2>9. ASSUME NEW q \in Request,
               \/ \E p \in Id : PutReads(q, p)
               \/ \E env, headers \in Entry \cup {None} : PutWrites(q, env, headers)
               \/ \E u \in User, p \in Id : Lookup(q, u, p)
               \/ Decrypt(q) \/ RecordDownload(q) \/ Serve(q) \/ Refuse(q)
        PROVE  Same
    <3>1. CASE \E p \in Id : PutReads(q, p)
      BY <2>3, <3>1 DEF PutReads
    <3>2. CASE \E env, headers \in Entry \cup {None} : PutWrites(q, env, headers)
      BY <2>4, <3>2 DEF PutWrites
    <3>3. CASE \E u \in User, p \in Id : Lookup(q, u, p)
      BY <2>3, <3>3 DEF Lookup
    <3>4. CASE Decrypt(q) \/ Refuse(q)
      BY <2>6, <3>4 DEF Decrypt, Refuse
    <3>5. ~RecordDownload(q) /\ ~Serve(q)
      OBVIOUS
    <3> QED
      BY <2>9, <3>1, <3>2, <3>3, <3>4, <3>5
  <2>10. ASSUME \E p \in Id : Delist(p) PROVE Same
    BY <2>5, <2>10 DEF Delist
  <2>11. ASSUME \E p \in Id, env, headers \in Entry : Create(p, env, headers) PROVE Same
    BY <2>11, <2>2 DEF Create
  <2>12. ASSUME Flush \/ UNCHANGED vars PROVE Same
    BY <2>12, <2>2 DEF Flush, vars
  <2>13. Same
    BY <2>2, <2>7, <2>8, <2>9, <2>10, <2>11, <2>12 DEF Next
  <2> QED
    BY <2>13 DEF Same
<1>3. ASSUME NEW d \in User \X Id PROVE AboutToServe(d)' \subseteq AboutToServe(d)
  BY <1>2 DEF AboutToServe
<1> QED
  BY <1>1, <1>3

LEMMA AuditIsKept == IInv /\ [Next]_vars => ConfigsAreAudited'
<1> SUFFICES ASSUME IInv, [Next]_vars, NEW d \in User \X Id
             PROVE  IF d[1] \in users'
                    THEN configs'[d] + Cardinality(AboutToServe(d)') <= audit'[d]
                    ELSE audit'[d] = 0
  BY DEF ConfigsAreAudited
<1> DEFINE S == AboutToServe(d)
           T == AboutToServe(d)'
           Goal == IF d[1] \in users' THEN configs'[d] + Cardinality(T) <= audit'[d]
                                      ELSE audit'[d] = 0
<1>1. /\ IsFiniteSet(S) /\ IsFiniteSet(T)
      /\ Cardinality(S) \in Nat /\ Cardinality(T) \in Nat
  <2>1. S \subseteq Request /\ T \subseteq Request
    BY DEF AboutToServe
  <2> QED
    BY <2>1, PluginConstants, FS_Subset, FS_CardinalityType
<1>2. /\ configs \in [User \X Id -> Nat] /\ audit \in [User \X Id -> Nat]
      /\ d[1] \in users => configs[d] + Cardinality(S) <= audit[d]
      /\ d[1] \notin users => audit[d] = 0
  BY DEF IInv, TypeOK, ConfigsAreAudited
<1>3. CASE /\ \A r \in Request : ~RecordDownload(r) /\ ~Serve(r)
           /\ \A u \in User : ~DeleteUser(u)
  <2>1. T \subseteq S /\ configs'[d] = configs[d] /\ audit'[d] = audit[d] /\ users' = users
    BY <1>3, ServersStay DEF records
  <2>2. Cardinality(T) <= Cardinality(S)
    BY <1>1, <2>1, FS_Subset
  <2> HIDE DEF S, T
  <2>3. configs[d] \in Nat /\ audit[d] \in Nat
    BY <1>2
  <2> QED
    BY <1>1, <1>2, <2>1, <2>2, <2>3 DEF S, T
<1>4. ASSUME NEW r \in Request, RecordDownload(r) PROVE Goal
  <2> DEFINE e == <<req[r].user, req[r].id>>
  <2>1. /\ req \in [Request -> Tasks] /\ req[r].at = "record" /\ e \in User \X Id
        /\ configs' = configs /\ audit' = [audit EXCEPT ![e] = audit[e] + 1]
        /\ users' = users /\ (e = d => d[1] \in users)
    BY <1>4 DEF RecordDownload, IInv, TypeOK, Tasks
  <2>2. /\ req' = [req EXCEPT ![r] = [req[r] EXCEPT !.at = "serve"]]
        /\ [req[r] EXCEPT !.at = "serve"].at = "serve"
        /\ [req[r] EXCEPT !.at = "serve"].user = req[r].user
        /\ [req[r] EXCEPT !.at = "serve"].id = req[r].id
    BY <1>4, <2>1, MovedType DEF RecordDownload
  <2>3. T = IF e = d THEN S \cup {r} ELSE S
    BY <2>1, <2>2 DEF AboutToServe
  <2>4. Cardinality(T) <= IF e = d THEN Cardinality(S) + 1 ELSE Cardinality(S)
    BY <1>1, <2>3, FS_AddElement
  <2>5. audit'[d] = IF e = d THEN audit[d] + 1 ELSE audit[d]
    BY <1>2, <2>1
  <2> HIDE DEF S, T, e
  <2>6. /\ configs[d] \in Nat /\ audit[d] \in Nat /\ configs'[d] = configs[d]
        /\ users' = users /\ (e = d => d[1] \in users)
    BY <1>2, <2>1
  <2>7. Cardinality(S) \in Nat /\ Cardinality(T) \in Nat
    BY <1>1
  <2> QED
    BY <1>2, <2>4, <2>5, <2>6, <2>7
<1>5. ASSUME NEW r \in Request, Serve(r) PROVE Goal
  <2> DEFINE e == <<req[r].user, req[r].id>>
  <2>1. /\ req \in [Request -> Tasks] /\ req[r].at = "serve" /\ e \in User \X Id
        /\ audit' = audit /\ users' = users /\ configs' = [configs EXCEPT ![e] = configs[e] + 1]
        /\ req' = [req EXCEPT ![r] = Idle] /\ Idle.at = "idle"
    BY <1>5 DEF Serve, IInv, TypeOK, Tasks, Idle, Task
  <2>2. T = S \ {r} /\ ((r \in S) <=> (e = d))
    BY <2>1 DEF AboutToServe
  <2>3. Cardinality(T) = IF e = d THEN Cardinality(S) - 1 ELSE Cardinality(S)
    BY <1>1, <2>2, FS_RemoveElement
  <2>4. configs'[d] = IF e = d THEN configs[d] + 1 ELSE configs[d]
    BY <1>2, <2>1
  <2> HIDE DEF S, T, e
  <2>5. configs[d] \in Nat /\ audit[d] \in Nat /\ audit'[d] = audit[d] /\ users' = users
    BY <1>2, <2>1
  <2>6. Cardinality(S) \in Nat /\ Cardinality(T) \in Nat
    BY <1>1
  <2> QED
    BY <1>2, <2>3, <2>4, <2>5, <2>6
<1>6. ASSUME NEW u \in User, DeleteUser(u) PROVE Goal
  <2>1. T = S /\ configs' = configs /\ users' = users \ {u}
    BY <1>6 DEF DeleteUser, AboutToServe
  <2>2. audit'[d] = IF d[1] = u THEN 0 ELSE audit[d]
    BY <1>6 DEF DeleteUser
  <2> QED
    BY <1>2, <2>1, <2>2
<1> QED
  BY <1>3, <1>4, <1>5, <1>6

-----------------------------------------------------------------------------
(* Every reachable state satisfies IInv, in any interleaving of starts,    *)
(* requests, edits, takedowns, deletions of accounts and crashes.          *)
THEOREM PluginsInvariance == Spec => []IInv
<1>1. Init => IInv
  <2> SUFFICES ASSUME Init PROVE IInv
    OBVIOUS
  <2>1. TypeOK
    <3>1. lost \in BOOLEAN /\ synced \in BOOLEAN
      BY Zenon DEF Init
    <3>2. /\ keyFile \in {None, Empty} /\ made \in Nat /\ asked \in 0..MaxConfigs
          /\ server \in [Server -> {"down", "create", "write", "up"}]
          /\ plugin \in [Id -> {None}] /\ req \in [Request -> Tasks] /\ users \subseteq User
      BY IdleType, PluginConstants DEF Init
    <3>3. /\ audit \in [User \X Id -> Nat] /\ configs \in [User \X Id -> Nat]
          /\ events \in 0..MaxEvents
      BY PluginConstants DEF Init
    <3> QED
      BY <3>1, <3>2, <3>3 DEF TypeOK
  <2>2. KeyIsKept /\ FreshCopies
    BY PluginConstants DEF Init, KeyIsKept, FreshCopies, Idle, Task, MasterKey
  <2>3. ASSUME NEW d \in User \X Id PROVE AboutToServe(d) = {}
    <3>1. \A r \in Request : req[r].at = "idle"
      BY DEF Init, Idle, Task
    <3> QED
      BY <3>1 DEF AboutToServe
  <2>4. ASSUME NEW d \in User \X Id
        PROVE  /\ configs[d] + Cardinality(AboutToServe(d)) <= audit[d]
               /\ audit[d] = 0
    <3>1. configs[d] = 0 /\ audit[d] = 0
      BY <2>4 DEF Init
    <3>2. Cardinality(AboutToServe(d)) = 0
      BY <2>3, <2>4, FS_EmptySet
    <3> QED
      BY <3>1, <3>2
  <2>5. ConfigsAreAudited
    BY <2>4 DEF ConfigsAreAudited
  <2> QED
    BY <2>1, <2>2, <2>5 DEF IInv
<1>2. IInv /\ [Next]_vars => IInv'
  BY TypesArePreserved, KeysArePreserved, CopiesStayFresh, AuditIsKept DEF IInv
<1> QED
  BY <1>1, <1>2, PTL DEF Spec

(* The types of the rows, of the key file and of the requests.             *)
THEOREM PluginsTypes == Spec => []TypeOK
<1>1. IInv => TypeOK
  BY DEF IInv
<1> QED
  BY <1>1, PluginsInvariance, PTL

(* However the first starts of any number of processes interleave and      *)
(* whenever they crash: one process at a time is about to write a key, who *)
(* serves works with the one in the file, the last that was made, and      *)
(* unless the power took a key that was in use no other was ever made and  *)
(* every stored credential opens with it (crypto.go:25, EnsureMasterKey).  *)
THEOREM OneMasterKey == Spec => []OneKey
<1>1. IInv => OneKey
  <2> SUFFICES ASSUME IInv PROVE OneKey
    OBVIOUS
  <2> DEFINE W == {s \in Server : server[s] = "write"}
  <2>1. ASSUME NEW s \in W PROVE W = {s}
    <3>1. ASSUME NEW t \in W PROVE t = s
      BY DEF IInv, KeyIsKept
    <3> QED
      BY <3>1
  <2>2. W = {} \/ \E s : W = {s}
    BY <2>1
  <2> HIDE DEF W
  <2>3. Cardinality(W) = 0 \/ Cardinality(W) = 1
    BY <2>2, FS_EmptySet, FS_Singleton, Zenon
  <2>4. Cardinality(W) <= 1
    BY <2>3
  <2>5. Serving => keyFile \in MasterKey /\ keyFile = made
    BY DEF IInv, KeyIsKept, Serving
  <2>6. ASSUME ~lost PROVE made <= 1
    BY <2>6 DEF IInv, KeyIsKept
  <2>7. ASSUME ~lost, NEW p \in Id, plugin[p] # None PROVE KeysOf(plugin[p]) \subseteq {keyFile}
    <3>1. KeysOf(plugin[p]) \subseteq 1..made
      BY <2>7 DEF IInv, KeyIsKept
    <3>2. made = 0 \/ (made = 1 /\ keyFile = 1)
      BY <2>7 DEF IInv, KeyIsKept
    <3>3. 1..made \subseteq {keyFile}
      BY <3>2
    <3> QED
      BY <3>1, <3>3
  <2> QED
    BY <2>4, <2>5, <2>6, <2>7 DEF W, OneKey
<1> QED
  BY <1>1, PluginsInvariance, PTL

(* Whoever was sent the credentials of a plugin and still has his account  *)
(* is on record, once for each time (getMCPConfig); nobody is on record    *)
(* who has none (DeleteUser).                                              *)
THEOREM EveryConfigIsAudited == Spec => []ConfigsAreAudited
<1>1. IInv => ConfigsAreAudited
  BY DEF IInv
<1> QED
  BY <1>1, PluginsInvariance, PTL

(* A row changes to what one administrator has asked for, unless the PUT   *)
(* holds a copy that is not the row any more (updateMCPAdmin).             *)
THEOREM NothingElseUndoes == Spec => OnlyStaleCopiesUndo
<1> DEFINE Allowed(p) ==
      \/ plugin'[p] = [plugin[p] EXCEPT !.enabled = FALSE]
      \/ \E r \in Request, env, headers \in Entry \cup {None} :
           /\ req[r].id = p /\ PutWrites(r, env, headers)
           /\ \/ req[r].stale
              \/ plugin'[p] = AsAsked(plugin[p], env, headers)
<1>1. ASSUME IInv, [Next]_vars, NEW p \in Id, plugin[p] # None, plugin'[p] # plugin[p]
      PROVE  Allowed(p)
  <2> USE <1>1 DEF IInv, TypeOK
  <2>1. ASSUME NEW q \in Id, NEW env \in Entry, NEW headers \in Entry, Create(q, env, headers)
        PROVE  FALSE
    BY <2>1 DEF Create
  <2>2. ASSUME NEW q \in Id, Delist(q) PROVE Allowed(p)
    BY <2>2 DEF Delist
  <2>3. ASSUME NEW r \in Request, NEW env \in Entry \cup {None},
               NEW headers \in Entry \cup {None}, PutWrites(r, env, headers)
        PROVE  Allowed(p)
    <3> DEFINE new == Renewed(req[r].row, SealTwice(env, headers), SealTwice(headers, env))
    <3>1. /\ req[r].at = "put" /\ req[r].id \in Id /\ req[r].row \in Row
          /\ keyFile \in MasterKey /\ keyFile = made /\ KeysOf(req[r].row) \subseteq 1..made
      BY <2>3 DEF PutWrites, KeyIsKept, Tasks
    <3>2. new = AsAsked(req[r].row, env, headers)
      BY <3>1, RenewedType
    <3>3. plugin' = [plugin EXCEPT ![req[r].id] = new]
      BY <2>3 DEF PutWrites
    <3> HIDE DEF new
    <3>4. req[r].id = p /\ plugin'[p] = new
      BY <1>1, <3>1, <3>3
    <3>5. ~req[r].stale => req[r].row = plugin[p]
      BY <3>1, <3>4 DEF FreshCopies
    <3> HIDE DEF IInv, TypeOK
    <3>6. req[r].stale \/ plugin'[p] = AsAsked(plugin[p], env, headers)
      BY <3>2, <3>4, <3>5
    <3> QED
      BY <2>3, <3>4, <3>6
  <2> HIDE DEF IInv, TypeOK, Allowed
  <2>4. ASSUME NEW s \in Server, Starts(s) PROVE plugin' = plugin
    BY <2>4 DEF Starts, ReadKey, CreateKey, Reread, WriteKey
  <2>5. ASSUME NEW r \in Request,
               \/ \E q \in Id : PutReads(r, q)
               \/ \E env, headers \in Entry \cup {None} : PutWrites(r, env, headers)
               \/ \E u \in User, q \in Id : Lookup(r, u, q)
               \/ Decrypt(r) \/ RecordDownload(r) \/ Serve(r) \/ Refuse(r)
        PROVE  plugin' = plugin \/ Allowed(p)
    BY <2>3, <2>5 DEF PutReads, Lookup, Decrypt, RecordDownload, Serve, Refuse
  <2>6. CASE Crash \/ PowerFails \/ Flush \/ (\E u \in User : DeleteUser(u)) \/ UNCHANGED vars
    BY <1>1, <2>6 DEF Crash, PowerFails, Down, Flush, DeleteUser, vars
  <2>7. CASE \E q \in Id, env, headers \in Entry : Create(q, env, headers)
    BY <2>1, <2>7
  <2>8. CASE \E q \in Id : Delist(q)
    BY <2>2, <2>8
  <2> QED
    BY <1>1, <2>4, <2>5, <2>6, <2>7, <2>8 DEF Next
<1>2. IInv /\ [Next]_vars
        => [\A p \in Id : plugin[p] # None /\ plugin'[p] # plugin[p] => Allowed(p)]_vars
  BY <1>1
<1> QED
  BY <1>2, PluginsInvariance, PTL DEF Spec, OnlyStaleCopiesUndo

-----------------------------------------------------------------------------
(***************************************************************************)
(* Proofs about Limiters: for any keys, callers, limits, windows and sizes *)
(* of the tables under LimitersAssumption, the tables being what is left of*)
(* the history after sweeps, prunings and evictions.  LimitersInv is       *)
(* defined and explained there.                                            *)
(***************************************************************************)

\* The numbers the code has.
LEMMA LimiterNumbers ==
  /\ MaxEntries \in Nat /\ MaxAttempts \in Nat /\ Rate \in Nat /\ Minute \in Nat /\ Limit \in Nat
  /\ MaxEntries > 0 /\ MaxAttempts > 0 /\ Rate > 0 /\ Minute > 0 /\ Limit > 0
  /\ Window \in Nat /\ Sweep \in Nat /\ Hour \in Nat /\ Delay \in Nat /\ Span \in Nat
  /\ Hour + 1 >= Minute + 2 * Delay
BY LimitersAssumption

\* A stretch of time has a number of calls.
LEMMA CallsAreCounted ==
  ASSUME LimitersTypeOK, NEW k, NEW from, NEW to
  PROVE  /\ IsFiniteSet(Within(k, from, to)) /\ CallsOf(k, from, to) \in Nat
         /\ CallsOf(k, from, to) = 0 <=> Within(k, from, to) = {}
<1>1. IsFiniteSet(Within(k, from, to))
  BY FS_Subset DEF LimitersTypeOK, Within
<1> QED
  BY <1>1, FS_CardinalityType, FS_EmptySet DEF CallsOf

\* Fewer calls than there are in a set that holds them.
LEMMA FewerCalls ==
  ASSUME LimitersTypeOK, NEW k, NEW from, NEW to, NEW S,
         IsFiniteSet(S), Within(k, from, to) \subseteq S
  PROVE  CallsOf(k, from, to) <= Cardinality(S)
BY FS_Subset DEF CallsOf

\* What it means that a call is let through, by whatever limiter.
LEMMA OneMore ==
  ASSUME LimitersTypeOK, NEW k \in Key, NEW at \in 0..now, NEW v, v # k,
         PassedEvicting(k, at, v)
  PROVE  /\ calls' \in Nat /\ refused' = NoKey /\ IsFiniteSet(log')
         /\ log' \subseteq [key : Key, at : 0..now, no : 1..calls']
         /\ \A e \in log' : e = Call(k, at) \/ (e \in log /\ e.key # v)
         /\ \A x \in Key : \A from, to \in Int :
              /\ x = v => Within(x, from, to)' = {}
              /\ x = k /\ at \in from..to =>
                   /\ Within(x, from, to)' = Within(x, from, to) \cup {Call(k, at)}
                   /\ CallsOf(x, from, to)' = CallsOf(x, from, to) + 1
              /\ x # v /\ (x # k \/ at \notin from..to) =>
                   Within(x, from, to)' = Within(x, from, to)
<1> DEFINE new == Call(k, at)
<1>1. /\ calls' = calls + 1 /\ calls \in Nat /\ refused' = NoKey
      /\ log' = {e \in log : e.key # v} \cup {new}
  BY DEF PassedEvicting, LimitersTypeOK
<1>2. new.key = k /\ new.at = at /\ new.no = calls + 1
  BY DEF Call
<1>3. \A e \in log : e.no # calls + 1 /\ e \in [key : Key, at : 0..now, no : 1..calls]
  BY <1>1 DEF LimitersTypeOK
<1>4. new \in [key : Key, at : 0..now, no : 1..calls'] /\ new \notin log
  BY <1>1, <1>2, <1>3 DEF Call
<1>5. log' \subseteq [key : Key, at : 0..now, no : 1..calls']
  BY <1>1, <1>3, <1>4
<1>6. IsFiniteSet(log')
  <2>1. IsFiniteSet({e \in log : e.key # v})
    BY FS_Subset DEF LimitersTypeOK
  <2> QED
    BY <1>1, <2>1, FS_AddElement
<1> HIDE DEF new
<1>7. ASSUME NEW x \in Key, NEW from \in Int, NEW to \in Int
      PROVE  /\ x = v => Within(x, from, to)' = {}
             /\ x = k /\ at \in from..to =>
                  /\ Within(x, from, to)' = Within(x, from, to) \cup {new}
                  /\ CallsOf(x, from, to)' = CallsOf(x, from, to) + 1
             /\ x # v /\ (x # k \/ at \notin from..to) =>
                  Within(x, from, to)' = Within(x, from, to)
  <2>1. Within(x, from, to)' = {e \in log' : e.key = x /\ e.at \in from..to}
    BY DEF Within
  <2>2. x = v => Within(x, from, to)' = {}
    BY <1>1, <1>2, <2>1
  <2>3. x = k /\ at \in from..to =>
          Within(x, from, to)' = Within(x, from, to) \cup {new}
    BY <1>1, <1>2, <2>1 DEF Within
  <2>4. x # v /\ (x # k \/ at \notin from..to) => Within(x, from, to)' = Within(x, from, to)
    BY <1>1, <1>2, <2>1 DEF Within
  <2>5. new \notin Within(x, from, to)
    BY <1>4 DEF Within
  <2>6. x = k /\ at \in from..to => CallsOf(x, from, to)' = CallsOf(x, from, to) + 1
    <3>1. IsFiniteSet(Within(x, from, to))
      BY CallsAreCounted
    <3> QED
      BY <2>3, <2>5, <3>1, FS_AddElement DEF CallsOf
  <2> QED
    BY <2>2, <2>3, <2>4, <2>6
<1>8. \A e \in log' : e = new \/ (e \in log /\ e.key # v)
  BY <1>1
<1>9. new = Call(k, at)
  BY DEF new
<1> QED
  BY <1>1, <1>5, <1>6, <1>7, <1>8, <1>9

\* A refused call leaves the history alone.
LEMMA SameCalls ==
  ASSUME log' = log, NEW k, NEW from, NEW to
  PROVE  Within(k, from, to)' = Within(k, from, to) /\ CallsOf(k, from, to)' = CallsOf(k, from, to)
BY DEF Within, CallsOf

\* An entry put in without anybody being evicted, said like one with.
LEMMA PutOnly ==
  ASSUME NEW t, NEW k, NEW e, NEW v, v \notin DOMAIN t
  PROVE  Put(t, k, e) = Put(Without(t, {v}), k, e)
BY DEF Put, Without

\* The number of entries when one is put in: the table was not full, the key had
\* one already, or another went.
LEMMA TableSize ==
  ASSUME NEW D, IsFiniteSet(D), Cardinality(D) <= MaxEntries, NEW k, NEW v, v # k,
         \/ v \notin D /\ (k \in D \/ Cardinality(D) < MaxEntries)
         \/ v \in D,
         NEW E, E = (D \ {v}) \cup {k}
  PROVE  IsFiniteSet(E) /\ Cardinality(E) <= MaxEntries
<1>1. Cardinality(D) \in Nat /\ MaxEntries \in Nat
  BY FS_CardinalityType, LimiterNumbers
<1>2. /\ IsFiniteSet(D \ {v})
      /\ Cardinality(D \ {v}) = IF v \in D THEN Cardinality(D) - 1 ELSE Cardinality(D)
  BY FS_RemoveElement
<1>3. /\ IsFiniteSet((D \ {v}) \cup {k})
      /\ Cardinality((D \ {v}) \cup {k}) =
           IF k \in D \ {v} THEN Cardinality(D \ {v}) ELSE Cardinality(D \ {v}) + 1
  BY <1>2, FS_AddElement
<1> QED
  BY <1>1, <1>2, <1>3

-----------------------------------------------------------------------------
(* The login limiter (ratelimit.go, allow).                                *)

\* A sweep and a call keep of an entry what is in the window.
LEMMA SweptKeeps ==
  ASSUME LimitersTypeOK, AttemptsAreKept, limiter = "login"
  PROVE  /\ DOMAIN Swept(table) \subseteq DOMAIN table
         /\ \A x \in Key : Recent(Swept(table), x) = Within(x, now - Window + 1, now)
         /\ EntriesAreCalls(Swept(table))
<1>1. \A x \in Key : Recent(table, x) = Within(x, now - Window + 1, now)
  BY DEF AttemptsAreKept
<1>2. DOMAIN Swept(table) \subseteq DOMAIN table
  BY DEF Swept
<1>4. EntriesAreCalls(Swept(table))
  <2>1. EntriesAreCalls(table)
    BY DEF AttemptsAreKept
  <2>2. CASE now - lastSweep < Sweep
    BY <2>1, <2>2 DEF Swept
  <2>3. CASE ~(now - lastSweep < Sweep)
    <3>1. Swept(table) = [k \in {y \in DOMAIN table : Kept(table[y]) # {}} |-> Kept(table[k])]
      BY <2>3 DEF Swept
    <3> QED
      BY <2>1, <3>1 DEF EntriesAreCalls, Kept
  <2> QED
    BY <2>2, <2>3
<1>3. ASSUME NEW x \in Key PROVE Recent(Swept(table), x) = Recent(table, x)
  <2>1. CASE now - lastSweep < Sweep
    BY <2>1 DEF Swept
  <2>2. CASE ~(now - lastSweep < Sweep)
    <3>1. Swept(table) = [k \in {y \in DOMAIN table : Kept(table[y]) # {}} |-> Kept(table[k])]
      BY <2>2 DEF Swept
    <3>2. CASE x \in DOMAIN Swept(table)
      <4>1. x \in DOMAIN table /\ Swept(table)[x] = Kept(table[x])
        BY <3>1, <3>2
      <4> QED
        BY <3>2, <4>1 DEF Recent, Kept
    <3>3. CASE x \notin DOMAIN Swept(table)
      <4>1. x \in DOMAIN table => Kept(table[x]) = {}
        BY <3>1, <3>3
      <4> QED
        BY <3>3, <4>1 DEF Recent
    <3> QED
      BY <3>2, <3>3
  <2> QED
    BY <2>1, <2>2
<1> QED
  BY <1>1, <1>2, <1>3, <1>4

\* Every set of numbers has a least element.
LEMMA LeastNumber ==
  ASSUME NEW T \in SUBSET Nat, T # {}
  PROVE  \E n \in T : \A m \in T : n <= m
<1> DEFINE R == {ss \in Nat \X Nat : ss[1] < ss[2]}
<1>1. IsWellFoundedOn(R, Nat)
  BY NatLessThanWellFounded, Zenon DEF OpToRel
<1> HIDE DEF R
<1>2. PICK n \in T : \A m \in T : <<m, n>> \notin R
  BY <1>1, WFMin, Zenon
<1>3. \A m \in T : ~(m < n)
  BY <1>2 DEF R
<1> QED
  BY <1>3

\* The entry that goes belongs to a key whose first call is the oldest.
LEMMA OldestIsOldest ==
  ASSUME LimitersTypeOK, AttemptsAreKept, limiter = "login", NEW t, t = Swept(table),
         NEW v \in Oldest([x \in DOMAIN t |-> Earliest(t[x])])
  PROVE  OldestInLog(v)
<1>1. /\ \A x \in Key : Recent(t, x) = Within(x, now - Window + 1, now)
      /\ EntriesAreCalls(t)
  BY SweptKeeps
<1>2. v \in DOMAIN t /\ \A x \in DOMAIN t : Earliest(t[v]) <= Earliest(t[x])
  BY DEF Oldest
<1>3. ASSUME NEW x \in DOMAIN t
      PROVE  /\ Earliest(t[x]) \in 0..now
             /\ \E e \in t[x] : e.at = Earliest(t[x])
             /\ \A e \in t[x] : Earliest(t[x]) <= e.at
  <2> DEFINE ts == {u \in 0..now : \E e \in t[x] : e.at = u}
  <2>1. t[x] # {} /\ \A e \in t[x] : e.at \in 0..now
    BY <1>1 DEF EntriesAreCalls
  <2>2. \E u \in ts : \A w \in ts : u <= w
    <3>1. ts \in SUBSET Nat /\ ts # {}
      BY <2>1 DEF LimitersTypeOK
    <3> HIDE DEF ts
    <3> QED
      BY <3>1, LeastNumber
  <2>3. \E u \in 0..now : (\E e \in t[x] : e.at = u) /\ \A e \in t[x] : u <= e.at
    BY <2>1, <2>2
  <2> QED
    BY <2>3 DEF Earliest
<1> SUFFICES ASSUME NEW x \in Key \ {v}, NEW e \in Within(x, now - Window + 1, now)
             PROVE  \E f \in log : f.key = v /\ f.at <= e.at
  BY DEF OldestInLog
<1>4. x \in DOMAIN t /\ e \in t[x] /\ e.at \in 0..now
  <2>1. e \in Recent(t, x)
    BY <1>1
  <2>2. x \in DOMAIN t /\ e \in t[x]
    BY <2>1 DEF Recent, Kept
  <2> QED
    BY <1>1, <2>2 DEF EntriesAreCalls
<1>5. PICK f \in t[v] : f.at = Earliest(t[v])
  BY <1>2, <1>3
<1>6. f \in log /\ f.key = v
  BY <1>1, <1>2, <1>5 DEF EntriesAreCalls
<1>7. Earliest(t[v]) <= Earliest(t[x]) /\ Earliest(t[x]) <= e.at
  BY <1>2, <1>3, <1>4
<1> QED
  BY <1>2, <1>3, <1>4, <1>5, <1>6, <1>7

\* A call that is let through, another key losing its entry or not.
LEMMA LoginPasses ==
  ASSUME LimitersInv, limiter = "login", UNCHANGED <<limiter, now, reading>>,
         lastSweep' \in Int, NEW k \in Key, NEW t, t = Swept(table),
         Cardinality(Recent(t, k)) < MaxAttempts,
         NEW v, v # k, PassedEvicting(k, now, v),
         \/ v \notin DOMAIN t /\ (k \in DOMAIN t \/ ~Full(t))
         \/ v \in DOMAIN t,
         table' = Put(Without(t, {v}), k, Recent(t, k) \cup {Call(k, now)}),
         v \notin DOMAIN t => v = NoKey
  PROVE  LimitersInv'
<1> DEFINE W(x) == Within(x, now - Window + 1, now)
           new == Call(k, now)
<1>0. /\ LimitersTypeOK /\ AttemptsAreKept /\ now \in Nat /\ now' = now /\ limiter' = "login"
      /\ Window \in Nat /\ MaxAttempts \in Nat /\ MaxEntries \in Nat
  BY LimiterNumbers DEF LimitersInv, LimitersTypeOK
<1>1. /\ DOMAIN t \subseteq DOMAIN table /\ \A x \in Key : Recent(t, x) = W(x)
      /\ EntriesAreCalls(t)
  BY <1>0, SweptKeeps
<1>2. now \in 0..now /\ NoKey \notin Key
  BY <1>0, LimitersAssumption
<1>3. /\ calls' \in Nat /\ refused' = NoKey /\ IsFiniteSet(log')
      /\ log' \subseteq [key : Key, at : 0..now, no : 1..calls']
      /\ \A x \in Key : \A from, to \in Int :
           /\ x = v => Within(x, from, to)' = {}
           /\ x = k /\ now \in from..to =>
                /\ Within(x, from, to)' = Within(x, from, to) \cup {new}
                /\ CallsOf(x, from, to)' = CallsOf(x, from, to) + 1
           /\ x # v /\ (x # k \/ now \notin from..to) =>
                Within(x, from, to)' = Within(x, from, to)
  BY <1>0, <1>2, OneMore
<1>11. log' = {e \in log : e.key # v} \cup {new}
  BY DEF PassedEvicting
<1>4. /\ DOMAIN table' = (DOMAIN t \ {v}) \cup {k} /\ table'[k] = Recent(t, k) \cup {new}
      /\ \A x \in DOMAIN t \ {k, v} : table'[x] = t[x]
  BY DEF Put, Without
<1>5. /\ IsFiniteSet(DOMAIN table') /\ Cardinality(DOMAIN table') <= MaxEntries
      /\ DOMAIN table' \subseteq Key
  <2>1. IsFiniteSet(DOMAIN table) /\ Cardinality(DOMAIN table) <= MaxEntries /\ DOMAIN table \subseteq Key
    BY DEF LimitersInv, LimitersTypeOK, LimitersHold, TablesAreBounded
  <2>2. IsFiniteSet(DOMAIN t) /\ Cardinality(DOMAIN t) <= MaxEntries /\ Cardinality(DOMAIN t) \in Nat
    <3>1. IsFiniteSet(DOMAIN t) /\ Cardinality(DOMAIN t) <= Cardinality(DOMAIN table)
      BY <1>1, <2>1, FS_Subset
    <3> QED
      BY <1>0, <2>1, <3>1, FS_CardinalityType
  <2>3. ~Full(t) => Cardinality(DOMAIN t) < MaxEntries
    BY <1>0, <2>2 DEF Full
  <2>4. \/ v \notin DOMAIN t /\ (k \in DOMAIN t \/ Cardinality(DOMAIN t) < MaxEntries)
        \/ v \in DOMAIN t
    BY <2>3
  <2>5. IsFiniteSet(DOMAIN table') /\ Cardinality(DOMAIN table') <= MaxEntries
    BY <1>4, <2>2, <2>4, TableSize
  <2>6. DOMAIN table' \subseteq Key
    BY <1>1, <1>4, <2>1
  <2> QED
    BY <2>5, <2>6
<1>6. LimitersTypeOK'
  <2>1. limiter' \in {"login", "bucket", "config"} /\ now' \in Nat /\ calls' \in Nat /\ lastSweep' \in Int
    BY <1>0, <1>3
  <2>2. /\ reading' \in [Caller -> [key : Key \cup {NoKey}, at : 0..now']]
        /\ \A c \in Caller : reading'[c] = NoReading
    BY <1>0 DEF LimitersTypeOK
  <2> QED
    BY <1>0, <1>3, <1>5, <2>1, <2>2 DEF LimitersTypeOK
<1>7. AttemptsAreKept'
  <2>6. EntriesAreCalls(table)'
    <3>1. \A e \in Recent(t, k) : e \in log /\ e.key = k /\ e.at \in 0..now
      BY <1>0, <1>1 DEF LimitersTypeOK, Within
    <3>2. new.at = now /\ new.key = k
      BY DEF Call
    <3> HIDE DEF new
    <3>3. table'[k] # {} /\ \A e \in table'[k] : e \in log' /\ e.key = k /\ e.at \in 0..now
      BY <1>2, <1>4, <1>11, <3>1, <3>2
    <3>4. ASSUME NEW x \in DOMAIN t \ {k, v}
          PROVE  table'[x] # {} /\ \A e \in table'[x] : e \in log' /\ e.key = x /\ e.at \in 0..now
      <4>1. t[x] # {} /\ \A e \in t[x] : e \in log /\ e.key = x /\ e.at \in 0..now
        BY <1>1 DEF EntriesAreCalls
      <4> QED
        BY <1>4, <1>11, <4>1
    <3>5. ASSUME NEW x \in DOMAIN table' PROVE x = k \/ x \in DOMAIN t \ {k, v}
      BY <1>4
    <3>6. EntriesAreCalls(table)' <=>
            \A x \in DOMAIN table' :
              table'[x] # {} /\ \A e \in table'[x] : e \in log' /\ e.key = x /\ e.at \in 0..now
      BY <1>0 DEF EntriesAreCalls
    <3> QED
      BY <3>3, <3>4, <3>5, <3>6, Zenon
  <2> SUFFICES ASSUME NEW x \in Key
               PROVE  Recent(table, x)' = Within(x, now - Window + 1, now)'
    BY <2>6 DEF AttemptsAreKept
  <2>0. PICK a \in Int, b \in Int : a = now - Window + 1 /\ b = now
    BY <1>0
  <2>1. Within(x, now - Window + 1, now)' = Within(x, a, b)' /\ W(x) = Within(x, a, b)
    BY <1>0, <2>0
  <2>2. Recent(table, x)' = IF x \in DOMAIN table' THEN {e \in table'[x] : e.at > now - Window} ELSE {}
    BY <1>0 DEF Recent, Kept
  <2>3. CASE x = v
    BY <1>3, <1>4, <2>1, <2>2, <2>3
  <2>4. CASE x = k
    <3>1. table'[k] = W(k) \cup {new} /\ k \in DOMAIN table' /\ new.at = now
      BY <1>1, <1>4 DEF Call
    <3>2. \A e \in W(k) : e.at > now - Window
      BY <1>0 DEF Within, LimitersInv, LimitersTypeOK
    <3>3. Recent(table, x)' = IF now > now - Window THEN W(k) \cup {new} ELSE W(k)
      BY <2>2, <2>4, <3>1, <3>2
    <3>4. now > now - Window <=> now \in (now - Window + 1)..now
      BY <1>0
    <3>5. (Within(x, now - Window + 1, now))' = IF now > now - Window THEN W(k) \cup {new} ELSE W(k)
      BY <1>3, <2>0, <2>1, <2>4, <3>4
    <3> QED
      BY <3>3, <3>5
  <2>5. CASE x # v /\ x # k
    <3>1. Recent(table, x)' = Recent(t, x)
      BY <1>0, <1>4, <2>2, <2>5 DEF Recent, Kept
    <3> QED
      BY <1>1, <1>3, <2>1, <2>5, <3>1
  <2> QED
    BY <2>3, <2>4, <2>5
<1>8. LoginBudget'
  <2> SUFFICES ASSUME NEW x \in Key, NEW u \in 0..now
               PROVE  CallsOf(x, u - Window + 1, u)' <= MaxAttempts
    BY <1>0 DEF LoginBudget
  <2>1. CallsOf(x, u - Window + 1, u) \in Nat /\ CallsOf(x, u - Window + 1, u) <= MaxAttempts
    BY <1>0, CallsAreCounted DEF LimitersInv, LimitersHold, LoginBudget
  <2>2. u \in Int /\ u - Window + 1 \in Int
    BY <1>0
  <2>3. CASE x = k /\ now \in (u - Window + 1)..u
    <3>1. u = now /\ CallsOf(x, u - Window + 1, u) < MaxAttempts
      BY <1>0, <1>1, <2>3 DEF CallsOf
    <3> QED
      BY <1>0, <1>3, <2>1, <2>2, <2>3, <3>1
  <2>4. CASE x = v
    BY <1>0, <1>3, <2>2, <2>4, FS_EmptySet DEF CallsOf
  <2>5. CASE x # v /\ (x # k \/ now \notin (u - Window + 1)..u)
    BY <1>3, <2>1, <2>2, <2>5 DEF CallsOf
  <2> QED
    BY <2>3, <2>4, <2>5
<1>9. /\ BucketsArePaid' /\ WindowsAreCounted' /\ BucketBudget' /\ ConfigBudget'
      /\ TablesAreBounded' /\ RefusalsAreEarned'
  BY <1>0, <1>3, <1>5 DEF BucketsArePaid, WindowsAreCounted, BucketBudget, ConfigBudget,
     TablesAreBounded, RefusalsAreEarned
<1> QED
  BY <1>6, <1>7, <1>8, <1>9 DEF LimitersInv, LimitersHold

\* A call that is refused: its key has an entry, with as many attempts.
LEMMA LoginRefuses ==
  ASSUME LimitersInv, limiter = "login", UNCHANGED <<limiter, now, reading>>,
         lastSweep' \in Int, NEW k \in Key, NEW t, t = Swept(table),
         Cardinality(Recent(t, k)) >= MaxAttempts,
         Refused(k), table' = Put(t, k, Recent(t, k))
  PROVE  LimitersInv'
<1>0. /\ LimitersTypeOK /\ AttemptsAreKept /\ now \in Nat /\ now' = now /\ limiter' = "login"
      /\ log' = log /\ calls' = calls /\ refused' = k /\ Window \in Nat
  BY LimiterNumbers DEF LimitersInv, LimitersTypeOK, Refused
<1>1. /\ DOMAIN t \subseteq DOMAIN table
      /\ \A x \in Key : Recent(t, x) = Within(x, now - Window + 1, now)
      /\ EntriesAreCalls(t)
  BY <1>0, SweptKeeps
<1>2. k \in DOMAIN t /\ Recent(t, k) # {}
  <2> SUFFICES Recent(t, k) # {}
    BY DEF Recent
  <2> QED
    BY FS_EmptySet, LimiterNumbers
<1>3. /\ DOMAIN table' = DOMAIN t /\ table'[k] = Recent(t, k)
      /\ \A x \in DOMAIN t \ {k} : table'[x] = t[x]
  BY <1>2 DEF Put
<1>4. /\ IsFiniteSet(DOMAIN table') /\ DOMAIN table' \subseteq Key
      /\ Cardinality(DOMAIN table') <= MaxEntries
  <2>1. IsFiniteSet(DOMAIN table) /\ DOMAIN table \subseteq Key /\ Cardinality(DOMAIN table) <= MaxEntries
    BY <1>0 DEF LimitersInv, LimitersTypeOK, LimitersHold, TablesAreBounded
  <2>2. DOMAIN table' \in SUBSET (DOMAIN table)
    BY <1>1, <1>3
  <2>3. IsFiniteSet(DOMAIN table') /\ Cardinality(DOMAIN table') <= Cardinality(DOMAIN table)
    BY <2>1, <2>2, FS_Subset
  <2>4. Cardinality(DOMAIN table') \in Nat /\ Cardinality(DOMAIN table) \in Nat /\ MaxEntries \in Nat
    BY <2>1, <2>3, FS_CardinalityType, LimiterNumbers
  <2> QED
    BY <2>1, <2>2, <2>3, <2>4
<1>5. LimitersTypeOK'
  <2>1. limiter' \in {"login", "bucket", "config"} /\ now' \in Nat /\ calls' \in Nat /\ lastSweep' \in Int
        /\ refused' \in Key \cup {NoKey}
    BY <1>0 DEF LimitersTypeOK
  <2>2. /\ reading' \in [Caller -> [key : Key \cup {NoKey}, at : 0..now']]
        /\ \A c \in Caller : reading'[c] = NoReading
    BY <1>0 DEF LimitersTypeOK
  <2>3. IsFiniteSet(log') /\ log' \subseteq [key : Key, at : 0..now', no : 1..calls']
    BY <1>0 DEF LimitersTypeOK
  <2> QED
    BY <1>4, <2>1, <2>2, <2>3 DEF LimitersTypeOK
<1>6. ASSUME NEW x \in Key PROVE Recent(table, x)' = Within(x, now - Window + 1, now)'
  <2>1. Within(x, now - Window + 1, now)' = Within(x, now - Window + 1, now)
    BY <1>0 DEF Within
  <2>2. Recent(table, x)' = IF x \in DOMAIN table' THEN {e \in table'[x] : e.at > now - Window} ELSE {}
    BY <1>0 DEF Recent, Kept
  <2>3. Recent(t, x) = IF x \in DOMAIN t THEN {e \in t[x] : e.at > now - Window} ELSE {}
    BY <1>0 DEF Recent, Kept
  <2>4. Recent(table, x)' = Recent(t, x)
    BY <1>2, <1>3, <2>2, <2>3
  <2> QED
    BY <1>1, <2>1, <2>4
<1>11. EntriesAreCalls(table)'
  <2>1. /\ table'[k] # {} /\ \A e \in table'[k] : e \in t[k]
        /\ \A x \in DOMAIN t \ {k} : table'[x] = t[x]
    BY <1>2, <1>3 DEF Recent, Kept
  <2>2. ASSUME NEW x \in DOMAIN t
        PROVE  table'[x] # {} /\ \A e \in table'[x] : e \in log /\ e.key = x /\ e.at \in 0..now
    <3>1. t[x] # {} /\ \A e \in t[x] : e \in log /\ e.key = x /\ e.at \in 0..now
      BY <1>1 DEF EntriesAreCalls
    <3> QED
      BY <2>1, <3>1
  <2>3. EntriesAreCalls(table)' <=>
          \A x \in DOMAIN table' :
            table'[x] # {} /\ \A e \in table'[x] : e \in log' /\ e.key = x /\ e.at \in 0..now'
    BY DEF EntriesAreCalls
  <2> QED
    BY <1>0, <1>3, <2>2, <2>3
<1>7. AttemptsAreKept'
  BY <1>6, <1>11 DEF AttemptsAreKept
<1>8. LoginBudget'
  BY <1>0, SameCalls DEF LoginBudget, LimitersInv, LimitersHold
<1>9. RefusalsAreEarned'
  BY <1>0, <1>1, SameCalls DEF RefusalsAreEarned, CallsOf
<1>10. /\ BucketsArePaid' /\ WindowsAreCounted' /\ BucketBudget' /\ ConfigBudget' /\ TablesAreBounded'
  BY <1>0, <1>4 DEF BucketsArePaid, WindowsAreCounted, BucketBudget, ConfigBudget, TablesAreBounded
<1> QED
  BY <1>5, <1>7, <1>8, <1>9, <1>10 DEF LimitersInv, LimitersHold

\* loginLimiter.allow keeps the invariant, whatever it answers.
LEMMA LoginKeeps ==
  ASSUME LimitersInv, NEW k \in Key, LoginAllow(k)
  PROVE  LimitersInv'
<1> DEFINE t == Swept(table)
           kept == Recent(t, k)
<1>0. limiter = "login" /\ UNCHANGED <<limiter, now, reading>> /\ lastSweep' \in Int
  BY DEF LoginAllow, LimitersInv, LimitersTypeOK
<1>1. NoKey \notin Key /\ DOMAIN t \subseteq Key /\ Cardinality(kept) \in Nat /\ MaxAttempts \in Nat
  <2>1. IsFiniteSet(kept)
    BY <1>0, SweptKeeps, CallsAreCounted DEF LimitersInv
  <2> QED
    BY <1>0, <2>1, SweptKeeps, FS_CardinalityType, LimiterNumbers, LimitersAssumption
       DEF LimitersInv, LimitersTypeOK
<1>2. CASE Cardinality(kept) >= MaxAttempts /\ table' = Put(t, k, kept) /\ Refused(k)
  BY <1>0, <1>2, LoginRefuses
<1>3. CASE /\ Cardinality(kept) < MaxAttempts /\ (k \in DOMAIN t \/ ~Full(t))
           /\ table' = Put(t, k, kept \cup {Call(k, now)}) /\ Passed(k, now)
  <2>1. table' = Put(Without(t, {NoKey}), k, kept \cup {Call(k, now)})
    BY <1>1, <1>3, PutOnly
  <2>2. NoKey # k /\ PassedEvicting(k, now, NoKey) /\ NoKey \notin DOMAIN t
    BY <1>1, <1>3 DEF Passed
  <2> HIDE DEF t
  <2> QED
    BY <1>0, <1>3, <2>1, <2>2, LoginPasses DEF t
<1>4. ASSUME Cardinality(kept) < MaxAttempts, k \notin DOMAIN t, Full(t),
             NEW v \in Oldest([x \in DOMAIN t |-> Earliest(t[x])]),
             table' = Put(Without(t, {v}), k, kept \cup {Call(k, now)}),
             PassedEvicting(k, now, Forgotten(v))
      PROVE  LimitersInv'
  <2>1. v \in DOMAIN t
    BY DEF Oldest
  <2>2. OldestInLog(v)
    BY <1>0, OldestIsOldest DEF LimitersInv
  <2> HIDE DEF t
  <2>3. PassedEvicting(k, now, v) /\ v # k
    BY <1>4, <2>1, <2>2 DEF Forgotten
  <2> QED
    BY <1>0, <1>4, <2>1, <2>3, LoginPasses DEF t
<1>5. \/ Cardinality(kept) >= MaxAttempts /\ table' = Put(t, k, kept) /\ Refused(k)
      \/ /\ Cardinality(kept) < MaxAttempts /\ (k \in DOMAIN t \/ ~Full(t))
         /\ table' = Put(t, k, kept \cup {Call(k, now)}) /\ Passed(k, now)
      \/ /\ Cardinality(kept) < MaxAttempts /\ k \notin DOMAIN t /\ Full(t)
         /\ \E v \in Oldest([x \in DOMAIN t |-> Earliest(t[x])]) :
              /\ table' = Put(Without(t, {v}), k, kept \cup {Call(k, now)})
              /\ PassedEvicting(k, now, Forgotten(v))
  BY Zenon DEF LoginAllow
<1> QED
  BY <1>2, <1>3, <1>4, <1>5

-----------------------------------------------------------------------------
(* The bucket (handler.go, rateLimiter.allow).                             *)

\* Arithmetic with products, which the provers are told once.
LEMMA MoreDrips ==
  ASSUME NEW R \in Nat, NEW a \in Int, NEW b \in Int
  PROVE  /\ a * R \in Int /\ (a + b) * R = a * R + b * R
         /\ a <= b => a * R <= b * R
OBVIOUS

\* The same for the tokens of one more call.
LEMMA OneMoreTaken ==
  ASSUME NEW M \in Int, NEW n \in Int
  PROVE  n * M \in Int /\ (n + 1) * M = n * M + M
OBVIOUS

\* A bucket that is thrown away when the table is full would be full again.
LEMMA PrunedKeeps ==
  ASSUME LimitersInv, limiter = "bucket", NEW at \in 0..now, now - at <= Delay,
         NEW t, t = Pruned(at)
  PROVE  /\ DOMAIN t \subseteq DOMAIN table /\ \A x \in DOMAIN t : t[x] = table[x]
         /\ \A e \in log : e.key \notin DOMAIN t => e.at + Minute <= now - Delay
<1>1. DOMAIN t \subseteq DOMAIN table /\ \A x \in DOMAIN t : t[x] = table[x]
  BY DEF Pruned, Without
<1>2. \A x \in DOMAIN table : x \notin DOMAIN t => at - table[x].last > Hour
  BY DEF Pruned, Without
<1>3. ASSUME NEW e \in log, e.key \notin DOMAIN t PROVE e.at + Minute <= now - Delay
  <2>1. now \in Nat /\ e.at \in Int
    BY DEF LimitersInv, LimitersTypeOK
  <2>2. CASE e.key \notin DOMAIN table
    BY <2>2 DEF LimitersInv, BucketsArePaid
  <2>3. CASE e.key \in DOMAIN table
    <3>1. table[e.key].last \in Int /\ e.at <= table[e.key].last + Delay
      BY <2>3, <2>1 DEF LimitersInv, BucketsArePaid
    <3>2. at - table[e.key].last > Hour
      BY <1>2, <1>3, <2>3
    <3> QED
      BY <2>1, <3>1, <3>2, LimiterNumbers
  <2> QED
    BY <2>2, <2>3
<1> QED
  BY <1>1, <1>3

\* What a bucket holds after what dripped in meanwhile, for a key that has one
\* or not.
LEMMA Owed ==
  ASSUME LimitersInv, limiter = "bucket", NEW k \in Key, NEW at \in 0..now, now - at <= Delay,
         NEW t, t = Pruned(at),
         NEW b, b = Refill(IF k \in DOMAIN t THEN t[k] ELSE NewBucket(at), at)
  PROVE  /\ b.tokens \in Int /\ b.tokens <= Rate * Minute /\ b.last = at
         /\ b.tokens < Minute => k \in DOMAIN t
         /\ \A from \in 0..now : \A to \in from..now : CallsOf(k, from, to) > 0 =>
              CallsOf(k, from, to) * Minute + b.tokens <= (Minute + at - from) * Rate
<1> DEFINE C == Rate * Minute
<1>0. /\ LimitersTypeOK /\ now \in Nat /\ at \in Int /\ Rate \in Nat /\ Minute \in Nat
      /\ Minute > 0 /\ Rate > 0 /\ C \in Int /\ C >= Minute
  BY LimiterNumbers, MoreDrips DEF LimitersInv, LimitersTypeOK
<1>1. /\ DOMAIN t \subseteq DOMAIN table /\ \A x \in DOMAIN t : t[x] = table[x]
      /\ \A e \in log : e.key \notin DOMAIN t => e.at + Minute <= now - Delay
  BY PrunedKeeps
<1>2. CASE k \in DOMAIN t
  <2> DEFINE old == table[k]
             drip == (at - old.last) * Rate
  <2>1. old \in [tokens : Int, last : 0..now] /\ t[k] = old
    BY <1>1, <1>2 DEF LimitersInv, BucketsArePaid
  <2>2. old.tokens \in Int /\ old.last \in Int /\ drip \in Int
    BY <1>0, <2>1, MoreDrips
  <2>3. b = [tokens |-> Least(C, old.tokens + drip), last |-> at]
    BY <1>2, <2>1 DEF Refill
  <2>4. b.tokens \in Int /\ b.last = at /\ b.tokens <= C /\ b.tokens <= old.tokens + drip
    <3> HIDE DEF C, drip
    <3> QED
      BY <1>0, <2>2, <2>3 DEF Least
  <2>5. ASSUME NEW from \in 0..now, NEW to \in from..now, CallsOf(k, from, to) > 0
        PROVE  CallsOf(k, from, to) * Minute + b.tokens <= (Minute + at - from) * Rate
    <3> DEFINE n == CallsOf(k, from, to)
               paid == (Minute + old.last - from) * Rate
    <3>1. n \in Nat /\ n * Minute \in Int
      BY <1>0, CallsAreCounted, OneMoreTaken
    <3>2. k \in DOMAIN table
      BY <1>1, <1>2
    <3>3. n * Minute + old.tokens <= Dripped(k, from)
      BY <2>5, <3>2 DEF LimitersInv, BucketsArePaid
    <3>4. Dripped(k, from) = paid
      BY DEF Dripped
    <3>5. paid \in Int /\ (Minute + at - from) * Rate = paid + drip
      <4> DEFINE x == Minute + old.last - from
                 y == at - old.last
      <4>1. x \in Int /\ y \in Int /\ Minute + at - from = x + y
        BY <1>0, <2>2
      <4>2. x * Rate \in Int /\ (x + y) * Rate = x * Rate + y * Rate
        <5> HIDE DEF x, y
        <5> QED
          BY <1>0, <4>1, MoreDrips
      <4> QED
        BY <4>1, <4>2
    <3> DEFINE taken == n * Minute
               all == (Minute + at - from) * Rate
    <3>6. taken \in Int /\ taken + old.tokens <= paid /\ all = paid + drip
      BY <3>1, <3>3, <3>4, <3>5
    <3> HIDE DEF taken, all, paid, drip, n
    <3>7. taken + b.tokens <= all
      BY <2>2, <2>4, <3>5, <3>6
    <3> QED
      BY <3>7 DEF taken, all, n
  <2> HIDE DEF C
  <2> QED
    BY <1>2, <2>4, <2>5 DEF C
<1>3. CASE k \notin DOMAIN t
  <2>1. b.tokens = C /\ b.last = at
    <3>1. b = [tokens |-> Least(C, C + (at - at) * Rate), last |-> at]
      BY <1>3 DEF Refill, NewBucket
    <3>2. (at - at) * Rate = 0
      BY <1>0
    <3> HIDE DEF C
    <3> QED
      BY <1>0, <3>1, <3>2 DEF Least
  <2>2. ASSUME NEW from \in 0..now, NEW to \in from..now, CallsOf(k, from, to) > 0
        PROVE  CallsOf(k, from, to) * Minute + C <= (Minute + at - from) * Rate
    <3> DEFINE n == CallsOf(k, from, to)
               end == at - Minute
    <3>1. \A e \in Within(k, from, to) : e.at \in Int /\ e.at >= from /\ e.at <= end
      <4>1. \A e \in Within(k, from, to) : e \in log /\ e.key = k /\ e.at \in Int /\ e.at >= from
        BY <1>0 DEF Within, LimitersTypeOK
      <4>2. Delay \in Nat
        BY LimiterNumbers
      <4> QED
        BY <1>0, <1>1, <1>3, <4>1, <4>2
    <3>2. PICK e \in Within(k, from, to) : TRUE
      BY <1>0, <2>2, CallsAreCounted
    <3>3. from \in 0..now /\ end \in from..now
      BY <1>0, <3>1, <3>2
    <3>4. Within(k, from, to) \subseteq Within(k, from, end)
      BY <3>1, <3>3 DEF Within
    <3>5. n <= CallsOf(k, from, end) /\ n \in Nat /\ CallsOf(k, from, end) \in Nat
      BY <1>0, <3>4, CallsAreCounted, FewerCalls DEF CallsOf
    <3>6. CallsOf(k, from, end) * Minute <= C + (end - from) * Rate
      BY <3>3 DEF LimitersInv, LimitersHold, BucketBudget
    <3>7. n * Minute <= CallsOf(k, from, end) * Minute /\ n * Minute \in Int
          /\ CallsOf(k, from, end) * Minute \in Int
      BY <1>0, <3>5, MoreDrips
    <3>8. /\ (end - from) * Rate \in Int /\ Minute * Rate = C
          /\ (Minute + at - from) * Rate = C + (C + (end - from) * Rate)
      <4>1. Minute * Rate = C
        BY <1>0
      <4>2. end - from \in Int /\ Minute + (end - from) \in Int
            /\ Minute + at - from = Minute + (Minute + (end - from))
        BY <1>0, <3>3
      <4>3. (Minute + (Minute + (end - from))) * Rate = Minute * Rate + (Minute + (end - from)) * Rate
        BY <1>0, <4>2, MoreDrips
      <4>4. (Minute + (end - from)) * Rate = Minute * Rate + (end - from) * Rate
            /\ (end - from) * Rate \in Int
        BY <1>0, <4>2, MoreDrips
      <4> QED
        BY <4>1, <4>2, <4>3, <4>4
    <3> DEFINE taken == n * Minute
               most == CallsOf(k, from, end) * Minute
               drip == (end - from) * Rate
               all == (Minute + at - from) * Rate
    <3>9. /\ taken \in Int /\ most \in Int /\ drip \in Int /\ taken <= most /\ most <= C + drip
          /\ all = C + (C + drip)
      BY <3>6, <3>7, <3>8
    <3> HIDE DEF taken, most, drip, all, C
    <3>10. taken + C <= all
      BY <1>0, <3>9
    <3> QED
      BY <3>10 DEF taken, all
  <2> HIDE DEF C
  <2> QED
    BY <1>0, <2>1, <2>2 DEF C
<1> QED
  BY <1>2, <1>3

\* A call that gets a token, another bucket being evicted or not.
LEMMA BucketPasses ==
  ASSUME LimitersInv, limiter = "bucket", UNCHANGED <<limiter, now, lastSweep>>,
         NEW c \in Caller, reading' = [reading EXCEPT ![c] = NoReading],
         NEW k \in Key, NEW at \in 0..now, now - at <= Delay,
         NEW t, t = Pruned(at),
         NEW b, b = Refill(IF k \in DOMAIN t THEN t[k] ELSE NewBucket(at), at),
         b.tokens >= Minute,
         NEW v, v # k, PassedEvicting(k, at, v),
         \/ v \notin DOMAIN t /\ (k \in DOMAIN t \/ ~Full(t))
         \/ v \in DOMAIN t,
         table' = Put(Without(t, {v}), k, Spend(b)),
         v \notin DOMAIN t => v = NoKey
  PROVE  LimitersInv'
<1> DEFINE new == Call(k, at)
           C == Rate * Minute
<1>0. /\ LimitersTypeOK /\ now \in Nat /\ now' = now /\ limiter' = "bucket" /\ at \in Int
      /\ Minute \in Nat /\ Rate \in Nat /\ C \in Int /\ MaxEntries \in Nat /\ Delay \in Nat
  BY LimiterNumbers, MoreDrips DEF LimitersInv, LimitersTypeOK
<1>1. /\ DOMAIN t \subseteq DOMAIN table /\ \A x \in DOMAIN t : t[x] = table[x]
      /\ \A e \in log : e.key \notin DOMAIN t => e.at + Minute <= now - Delay
  BY PrunedKeeps
<1>2. /\ b.tokens \in Int /\ b.tokens <= C /\ b.last = at
      /\ \A from \in 0..now : \A to \in from..now : CallsOf(k, from, to) > 0 =>
           CallsOf(k, from, to) * Minute + b.tokens <= (Minute + at - from) * Rate
  BY Owed
<1>3. /\ calls' \in Nat /\ refused' = NoKey /\ IsFiniteSet(log')
      /\ log' \subseteq [key : Key, at : 0..now, no : 1..calls']
      /\ \A e \in log' : e = new \/ (e \in log /\ e.key # v)
      /\ \A x \in Key : \A from, to \in Int :
           /\ x = v => Within(x, from, to)' = {}
           /\ x = k /\ at \in from..to =>
                /\ Within(x, from, to)' = Within(x, from, to) \cup {new}
                /\ CallsOf(x, from, to)' = CallsOf(x, from, to) + 1
           /\ x # v /\ (x # k \/ at \notin from..to) =>
                Within(x, from, to)' = Within(x, from, to)
  BY <1>0, OneMore
<1>4. /\ DOMAIN table' = (DOMAIN t \ {v}) \cup {k}
      /\ table'[k] = [tokens |-> b.tokens - Minute, last |-> at]
      /\ \A x \in DOMAIN t \ {k, v} : table'[x] = table[x]
  <2>1. Spend(b) = [tokens |-> b.tokens - Minute, last |-> at]
    BY <1>2 DEF Spend, Refill
  <2> QED
    BY <1>1, <2>1 DEF Put, Without
<1>5. /\ IsFiniteSet(DOMAIN table') /\ Cardinality(DOMAIN table') <= MaxEntries
      /\ DOMAIN table' \subseteq Key
  <2>1. IsFiniteSet(DOMAIN table) /\ Cardinality(DOMAIN table) <= MaxEntries /\ DOMAIN table \subseteq Key
    BY DEF LimitersInv, LimitersTypeOK, LimitersHold, TablesAreBounded
  <2>2. IsFiniteSet(DOMAIN t) /\ Cardinality(DOMAIN t) <= MaxEntries /\ Cardinality(DOMAIN t) \in Nat
    <3>1. IsFiniteSet(DOMAIN t) /\ Cardinality(DOMAIN t) <= Cardinality(DOMAIN table)
      BY <1>1, <2>1, FS_Subset
    <3> QED
      BY <1>0, <2>1, <3>1, FS_CardinalityType
  <2>3. ~Full(t) => Cardinality(DOMAIN t) < MaxEntries
    BY <1>0, <2>2 DEF Full
  <2>4. \/ v \notin DOMAIN t /\ (k \in DOMAIN t \/ Cardinality(DOMAIN t) < MaxEntries)
        \/ v \in DOMAIN t
    BY <2>3
  <2>5. IsFiniteSet(DOMAIN table') /\ Cardinality(DOMAIN table') <= MaxEntries
    BY <1>4, <2>2, <2>4, TableSize
  <2>6. DOMAIN table' \subseteq Key
    BY <1>1, <1>4, <2>1
  <2> QED
    BY <2>5, <2>6
<1>6. LimitersTypeOK'
  <2>1. limiter' \in {"login", "bucket", "config"} /\ now' \in Nat /\ calls' \in Nat /\ lastSweep' \in Int
    BY <1>0, <1>3 DEF LimitersTypeOK
  <2>2. /\ reading' \in [Caller -> [key : Key \cup {NoKey}, at : 0..now']]
        /\ \A d \in Caller : reading'[d] # NoReading =>
             reading'[d].key \in Key /\ now' - reading'[d].at <= Delay
    BY <1>0 DEF LimitersTypeOK, NoReading
  <2> QED
    BY <1>0, <1>3, <1>5, <2>1, <2>2 DEF LimitersTypeOK
<1>7. ASSUME NEW x \in Key, NEW from \in 0..now, NEW to \in from..now,
             CallsOf(x, from, to)' > 0, x \in DOMAIN table'
      PROVE  CallsOf(x, from, to)' * Minute + table'[x].tokens <= (Minute + table'[x].last - from) * Rate
  <2>0. from \in Int /\ to \in Int /\ CallsOf(x, from, to) \in Nat
    BY <1>0, CallsAreCounted
  <2>1. CASE x # k
    <3>1. x # v /\ x \in DOMAIN table /\ table'[x] = table[x]
      BY <1>1, <1>4, <1>7, <2>1
    <3>2. CallsOf(x, from, to)' = CallsOf(x, from, to)
      BY <1>3, <2>0, <2>1, <3>1 DEF CallsOf
    <3> QED
      BY <1>7, <3>1, <3>2 DEF LimitersInv, BucketsArePaid, Dripped
  <2>2. CASE x = k
    <3> DEFINE n == CallsOf(k, from, to)
               m == CallsOf(k, from, to)'
               taken == n * Minute
               after == m * Minute
               all == (Minute + at - from) * Rate
    <3>1. n \in Nat /\ taken \in Int /\ (n + 1) * Minute = taken + Minute
      BY <1>0, <2>0, <2>2, OneMoreTaken
    <3>2. n > 0 => taken + b.tokens <= all
      BY <1>2
    <3>3. table'[k].tokens = b.tokens - Minute /\ table'[k].last = at
      BY <1>4
    <3>4. all \in Int
      BY <1>0, <2>0, MoreDrips
    <3>5. CASE at \in from..to
      <4>1. m = n + 1
        BY <1>3, <2>0, <3>5
      <4>2. after = taken + Minute
        BY <3>1, <4>1
      <4>3. n = 0 => taken = 0 /\ C <= all
        <5>1. Minute <= Minute + at - from /\ Minute + at - from \in Int /\ Minute * Rate = C
          BY <1>0, <2>0, <3>5
        <5> DEFINE x1 == Minute + at - from
        <5>2. Minute * Rate <= x1 * Rate
          <6> HIDE DEF x1
          <6> QED
            BY <1>0, <5>1, MoreDrips DEF x1
        <5> QED
          BY <1>0, <5>1, <5>2
      <4>4. after + (b.tokens - Minute) <= all
        <5> HIDE DEF taken, after, all, C, n
        <5> QED
          BY <1>0, <1>2, <3>1, <3>2, <3>4, <4>2, <4>3
      <4> QED
        BY <2>2, <3>3, <4>4
    <3>6. CASE at \notin from..to
      <4>1. m = n
        BY <1>3, <2>0, <2>2, <3>6 DEF CallsOf
      <4>2. after = taken /\ n > 0
        BY <1>7, <2>2, <4>1
      <4>3. after + (b.tokens - Minute) <= all
        <5> HIDE DEF taken, after, all, C, n
        <5> QED
          BY <1>0, <1>2, <3>1, <3>2, <3>4, <4>2
      <4> QED
        BY <2>2, <3>3, <4>3
    <3> QED
      BY <3>5, <3>6
  <2> QED
    BY <2>1, <2>2
<1>8. table' \in [DOMAIN table' -> [tokens : Int, last : 0..now]]
  <2>1. \A x \in DOMAIN t \ {k, v} : table'[x] \in [tokens : Int, last : 0..now]
    BY <1>1, <1>4 DEF LimitersInv, BucketsArePaid
  <2>2. table'[k] \in [tokens : Int, last : 0..now]
    BY <1>0, <1>2, <1>4
  <2> QED
    BY <1>4, <2>1, <2>2 DEF Put
<1>9. \A x \in DOMAIN table' : Within(x, 0, now)' # {}
  <2>0. PICK u \in Int : u = now
    BY <1>0
  <2>1. ASSUME NEW x \in Key, x \in DOMAIN table' PROVE Within(x, 0, u)' # {}
    <3>0. 0 \in Int /\ (Within(x, 0, now) = Within(x, 0, u)) /\ at \in 0..u
      BY <2>0
    <3>1. CASE x = k
      BY <1>3, <3>0, <3>1
    <3>2. CASE x # k
      <4>1. x # v /\ x \in DOMAIN table
        BY <1>1, <1>4, <2>1, <3>2
      <4>2. Within(x, 0, u) # {}
        BY <3>0, <4>1 DEF LimitersInv, BucketsArePaid
      <4> QED
        BY <1>3, <3>0, <3>2, <4>1, <4>2
    <3> QED
      BY <3>1, <3>2
  <2>2. u = now'
    BY <1>0, <2>0
  <2>3. \A x \in DOMAIN table' : x \in Key
    BY <1>5
  <2> QED
    BY <2>1, <2>2, <2>3
<1>10. ASSUME NEW e \in log'
       PROVE  IF e.key \in DOMAIN table' THEN e.at <= table'[e.key].last + Delay
                                         ELSE e.at + Minute <= now - Delay
  <2>1. e.at \in 0..now
    BY <1>3
  <2>2. CASE e.key = k
    BY <1>0, <1>4, <2>1, <2>2
  <2>3. CASE e.key # k
    <3>1. e \in log /\ e.key # v
      BY <1>3, <2>3 DEF Call
    <3>2. CASE e.key \in DOMAIN t
      <4>1. e.key \in DOMAIN table /\ e.key \in DOMAIN table' /\ table'[e.key] = table[e.key]
        BY <1>1, <1>4, <2>3, <3>1, <3>2
      <4> QED
        BY <3>1, <4>1 DEF LimitersInv, BucketsArePaid
    <3>3. CASE e.key \notin DOMAIN t
      BY <1>1, <1>4, <2>3, <3>1, <3>3
    <3> QED
      BY <3>2, <3>3
  <2> QED
    BY <2>2, <2>3
<1>11. BucketsArePaid'
  <2>1. now' = now /\ DOMAIN table' \subseteq Key
    BY <1>0, <1>5
  <2>2. \A x \in DOMAIN table' : \A from \in 0..now : \A to \in from..now :
          CallsOf(x, from, to)' > 0 =>
            CallsOf(x, from, to)' * Minute + table'[x].tokens <= (Minute + table'[x].last - from) * Rate
    BY <1>7, <2>1
  <2> QED
    BY <1>8, <1>9, <1>10, <2>1, <2>2 DEF BucketsArePaid, Dripped
<1>12. BucketBudget'
  <2> SUFFICES ASSUME NEW x \in Key, NEW from \in 0..now, NEW to \in from..now
               PROVE  CallsOf(x, from, to)' * Minute <= C + (to - from) * Rate
    BY <1>0 DEF BucketBudget
  <2>0. from \in Int /\ to \in Int /\ CallsOf(x, from, to) \in Nat /\ (to - from) * Rate \in Int
    BY <1>0, CallsAreCounted, MoreDrips
  <2>1. CallsOf(x, from, to) * Minute <= C + (to - from) * Rate
    BY DEF LimitersInv, LimitersHold, BucketBudget
  <2>2. CASE x = v
    <3>1. CallsOf(x, from, to)' = 0
      BY <1>3, <2>0, <2>2, FS_EmptySet DEF CallsOf
    <3>2. 0 <= to - from /\ to - from \in Int /\ 0 * Rate = 0
      BY <1>0, <2>0
    <3>3. 0 <= (to - from) * Rate
      BY <1>0, <3>2, MoreDrips
    <3>4. 0 <= C
      BY <1>0, MoreDrips
    <3> QED
      BY <1>0, <2>0, <3>1, <3>3, <3>4
  <2>3. CASE x # v /\ (x # k \/ at \notin from..to)
    BY <1>3, <2>0, <2>1, <2>3 DEF CallsOf
  <2>4. CASE x = k /\ at \in from..to
    <3>1. CallsOf(x, from, to)' > 0 /\ x \in DOMAIN table'
          /\ table'[x].tokens = b.tokens - Minute /\ table'[x].last = at
      BY <1>3, <1>4, <2>0, <2>4
    <3> DEFINE after == CallsOf(x, from, to)' * Minute
               all == (Minute + at - from) * Rate
               drip == (to - from) * Rate
    <3>2. after + (b.tokens - Minute) <= all
      BY <1>7, <3>1
    <3>3. after \in Int
      BY <1>0, <1>3, <2>0, <2>4, OneMoreTaken
    <3>4. all \in Int /\ drip \in Int /\ all <= C + drip
      <4> DEFINE y == Minute + at - from
                 z == to - from
      <4>1. y \in Int /\ z \in Int /\ Minute + z \in Int /\ y <= Minute + z /\ Minute * Rate = C
        BY <1>0, <2>0, <2>4
      <4>2. /\ y * Rate \in Int /\ z * Rate \in Int /\ y * Rate <= (Minute + z) * Rate
            /\ (Minute + z) * Rate = Minute * Rate + z * Rate
        <5> HIDE DEF y, z
        <5> QED
          BY <1>0, <4>1, MoreDrips
      <4> QED
        BY <4>1, <4>2
    <3>5. after <= C + drip
      <4> HIDE DEF after, all, drip, C
      <4> QED
        BY <1>0, <1>2, <3>2, <3>3, <3>4
    <3> QED
      BY <3>5
  <2> QED
    BY <2>2, <2>3, <2>4
<1>13. /\ AttemptsAreKept' /\ WindowsAreCounted' /\ LoginBudget' /\ ConfigBudget'
       /\ TablesAreBounded' /\ RefusalsAreEarned'
  BY <1>0, <1>3, <1>5 DEF AttemptsAreKept, WindowsAreCounted, LoginBudget, ConfigBudget,
     TablesAreBounded, RefusalsAreEarned
<1> QED
  BY <1>6, <1>11, <1>12, <1>13 DEF LimitersInv, LimitersHold

\* A call that gets none leaves its bucket with what dripped in.
LEMMA BucketRefuses ==
  ASSUME LimitersInv, limiter = "bucket", UNCHANGED <<limiter, now, lastSweep>>,
         NEW c \in Caller, reading' = [reading EXCEPT ![c] = NoReading],
         NEW k \in Key, NEW at \in 0..now, now - at <= Delay,
         NEW t, t = Pruned(at),
         NEW b, b = Refill(IF k \in DOMAIN t THEN t[k] ELSE NewBucket(at), at),
         b.tokens < Minute, Refused(k), table' = Put(t, k, b)
  PROVE  LimitersInv'
<1>0. /\ LimitersTypeOK /\ now \in Nat /\ now' = now /\ limiter' = "bucket" /\ at \in Int
      /\ Delay \in Nat /\ log' = log /\ calls' = calls /\ refused' = k
  BY LimiterNumbers DEF LimitersInv, LimitersTypeOK, Refused
<1>1. /\ DOMAIN t \subseteq DOMAIN table /\ \A x \in DOMAIN t : t[x] = table[x]
      /\ \A e \in log : e.key \notin DOMAIN t => e.at + Minute <= now - Delay
  BY PrunedKeeps
<1>2. /\ b.tokens \in Int /\ b.last = at /\ k \in DOMAIN t
      /\ \A from \in 0..now : \A to \in from..now : CallsOf(k, from, to) > 0 =>
           CallsOf(k, from, to) * Minute + b.tokens <= (Minute + at - from) * Rate
  BY Owed
<1>3. b = [tokens |-> b.tokens, last |-> at]
  BY <1>2 DEF Refill
<1>4. /\ DOMAIN table' = DOMAIN t /\ table'[k] = b
      /\ \A x \in DOMAIN t \ {k} : table'[x] = table[x]
  BY <1>1, <1>2 DEF Put
<1>5. /\ IsFiniteSet(DOMAIN table') /\ DOMAIN table' \subseteq Key
      /\ Cardinality(DOMAIN table') <= MaxEntries
  <2>1. IsFiniteSet(DOMAIN table) /\ DOMAIN table \subseteq Key /\ Cardinality(DOMAIN table) <= MaxEntries
    BY <1>0 DEF LimitersInv, LimitersTypeOK, LimitersHold, TablesAreBounded
  <2>2. DOMAIN table' \in SUBSET (DOMAIN table)
    BY <1>1, <1>4
  <2>3. IsFiniteSet(DOMAIN table') /\ Cardinality(DOMAIN table') <= Cardinality(DOMAIN table)
    BY <2>1, <2>2, FS_Subset
  <2>4. Cardinality(DOMAIN table') \in Nat /\ Cardinality(DOMAIN table) \in Nat /\ MaxEntries \in Nat
    BY <2>1, <2>3, FS_CardinalityType, LimiterNumbers
  <2> QED
    BY <2>1, <2>2, <2>3, <2>4
<1>6. LimitersTypeOK'
  <2>1. /\ limiter' \in {"login", "bucket", "config"} /\ now' \in Nat /\ calls' \in Nat
        /\ lastSweep' \in Int /\ refused' \in Key \cup {NoKey}
    BY <1>0 DEF LimitersTypeOK
  <2>2. /\ reading' \in [Caller -> [key : Key \cup {NoKey}, at : 0..now']]
        /\ \A d \in Caller : reading'[d] # NoReading =>
             reading'[d].key \in Key /\ now' - reading'[d].at <= Delay
    BY <1>0 DEF LimitersTypeOK, NoReading
  <2>3. IsFiniteSet(log') /\ log' \subseteq [key : Key, at : 0..now', no : 1..calls']
    BY <1>0 DEF LimitersTypeOK
  <2> QED
    BY <1>0, <1>5, <2>1, <2>2, <2>3 DEF LimitersTypeOK
<1>7. BucketsArePaid'
  <2>1. table' \in [DOMAIN table' -> [tokens : Int, last : 0..now']]
    <3>1. b \in [tokens : Int, last : 0..now']
      BY <1>0, <1>2, <1>3
    <3>2. \A x \in DOMAIN t \ {k} : table'[x] \in [tokens : Int, last : 0..now']
      BY <1>0, <1>1, <1>4 DEF LimitersInv, BucketsArePaid
    <3> QED
      BY <1>4, <3>1, <3>2 DEF Put
  <2>2. ASSUME NEW x \in DOMAIN table', NEW from \in 0..now, NEW to \in from..now,
               CallsOf(x, from, to) > 0
        PROVE  CallsOf(x, from, to) * Minute + table'[x].tokens
                 <= (Minute + table'[x].last - from) * Rate
    <3>1. CASE x = k
      BY <1>2, <1>4, <2>2, <3>1
    <3>2. CASE x # k
      <4>1. x \in DOMAIN table /\ table'[x] = table[x]
        BY <1>1, <1>4, <2>2, <3>2
      <4> QED
        BY <2>2, <4>1 DEF LimitersInv, BucketsArePaid, Dripped
    <3> QED
      BY <3>1, <3>2
  <2>3. \A x \in DOMAIN table' : Within(x, 0, now) # {}
    BY <1>1, <1>4 DEF LimitersInv, BucketsArePaid
  <2>4. ASSUME NEW e \in log
        PROVE  IF e.key \in DOMAIN table' THEN e.at <= table'[e.key].last + Delay
                                          ELSE e.at + Minute <= now - Delay
    <3>1. e.at \in 0..now
      BY <1>0 DEF LimitersTypeOK
    <3>2. CASE e.key = k
      BY <1>0, <1>2, <1>4, <3>1, <3>2
    <3>3. CASE e.key # k
      <4>1. CASE e.key \in DOMAIN t
        <5>1. e.key \in DOMAIN table /\ e.key \in DOMAIN table' /\ table'[e.key] = table[e.key]
          BY <1>1, <1>4, <3>3, <4>1
        <5> QED
          BY <5>1 DEF LimitersInv, BucketsArePaid
      <4>2. CASE e.key \notin DOMAIN t
        BY <1>1, <1>4, <4>2
      <4> QED
        BY <4>1, <4>2
    <3> QED
      BY <3>2, <3>3
  <2> QED
    BY <1>0, <2>1, <2>2, <2>3, <2>4 DEF BucketsArePaid, Dripped, CallsOf, Within
<1>8. BucketBudget'
  BY <1>0 DEF BucketBudget, LimitersInv, LimitersHold, CallsOf, Within
<1>9. RefusalsAreEarned'
  <2>1. Within(k, 0, now) # {}
    BY <1>1, <1>2 DEF LimitersInv, BucketsArePaid
  <2>2. CallsOf(k, 0, now) > 0
    BY <1>0, <2>1, CallsAreCounted
  <2> QED
    BY <1>0, <2>2 DEF RefusalsAreEarned, CallsOf, Within
<1>10. /\ AttemptsAreKept' /\ WindowsAreCounted' /\ LoginBudget' /\ ConfigBudget' /\ TablesAreBounded'
  BY <1>0, <1>5 DEF AttemptsAreKept, WindowsAreCounted, LoginBudget, ConfigBudget, TablesAreBounded
<1> QED
  BY <1>6, <1>7, <1>8, <1>9, <1>10 DEF LimitersInv, LimitersHold

\* rateLimiter.allow keeps the invariant, whatever it answers.
LEMMA BucketKeeps ==
  ASSUME LimitersInv, NEW c \in Caller, BucketAllow(c)
  PROVE  LimitersInv'
<1> DEFINE k == reading[c].key
           at == reading[c].at
           t == Pruned(at)
           b == Refill(IF k \in DOMAIN t THEN t[k] ELSE NewBucket(at), at)
<1>0. /\ UNCHANGED <<limiter, now, lastSweep>> /\ reading' = [reading EXCEPT ![c] = NoReading]
      /\ limiter = "bucket" /\ k \in Key /\ at \in 0..now /\ now - at <= Delay
  BY DEF BucketAllow, LimitersInv, LimitersTypeOK
<1>1. NoKey \notin Key /\ NoKey # k /\ DOMAIN t \subseteq Key
  BY <1>0, PrunedKeeps, LimitersAssumption DEF LimitersInv, LimitersTypeOK
<1>2. b.tokens \in Int /\ Minute \in Int
  BY <1>0, Owed, LimiterNumbers
<1>3. CASE b.tokens < Minute /\ table' = Put(t, k, b) /\ Refused(k)
  <2> HIDE DEF k, at, t, b
  <2> QED
    BY <1>0, <1>3, BucketRefuses DEF t, b
<1>4. CASE /\ b.tokens >= Minute /\ (k \in DOMAIN t \/ ~Full(t))
           /\ table' = Put(t, k, Spend(b)) /\ Passed(k, at)
  <2>1. NoKey \notin DOMAIN t
    BY <1>1
  <2>2. table' = Put(Without(t, {NoKey}), k, Spend(b))
    BY <1>4, <2>1, PutOnly
  <2>3. PassedEvicting(k, at, NoKey)
    BY <1>4 DEF Passed
  <2> HIDE DEF k, at, t, b
  <2> QED
    BY <1>0, <1>1, <1>4, <2>1, <2>2, <2>3, BucketPasses DEF t, b
<1>5. ASSUME b.tokens >= Minute, k \notin DOMAIN t, Full(t), NEW v \in DOMAIN t,
             table' = Put(Without(t, {v}), k, Spend(b)), PassedEvicting(k, at, v)
      PROVE  LimitersInv'
  <2>1. v # k
    BY <1>5
  <2> HIDE DEF k, at, t, b
  <2> QED
    BY <1>0, <1>5, <2>1, BucketPasses DEF t, b
<1>6. \/ b.tokens < Minute /\ table' = Put(t, k, b) /\ Refused(k)
      \/ /\ b.tokens >= Minute /\ (k \in DOMAIN t \/ ~Full(t))
         /\ table' = Put(t, k, Spend(b)) /\ Passed(k, at)
      \/ /\ b.tokens >= Minute /\ k \notin DOMAIN t /\ Full(t)
         /\ \E v \in DOMAIN t : /\ table' = Put(Without(t, {v}), k, Spend(b))
                                /\ PassedEvicting(k, at, v)
  BY Zenon DEF BucketAllow, Oldest
<1> QED
  BY <1>3, <1>4, <1>5, <1>6

-----------------------------------------------------------------------------
\* A call that reads the clock.
LEMMA ReadClockKeeps ==
  ASSUME LimitersInv, NEW c \in Caller, NEW k \in Key, ReadClock(c, k)
  PROVE  LimitersInv'
<1>1. /\ limiter = "bucket" /\ reading' = [reading EXCEPT ![c] = [key |-> k, at |-> now]]
      /\ UNCHANGED <<limiter, now, table, lastSweep, log, calls, refused>> /\ now \in Nat /\ Delay \in Nat
  BY LimiterNumbers DEF ReadClock, LimitersInv, LimitersTypeOK
<1>2. /\ reading' \in [Caller -> [key : Key \cup {NoKey}, at : 0..now']]
      /\ \A d \in Caller : reading'[d] # NoReading =>
           reading'[d].key \in Key /\ now' - reading'[d].at <= Delay
  BY <1>1 DEF LimitersInv, LimitersTypeOK, NoReading
<1>3. LimitersTypeOK'
  <2>1. LimitersTypeOK
    BY DEF LimitersInv
  <2> QED
    BY <1>1, <1>2, <2>1 DEF LimitersTypeOK
<1>4. AttemptsAreKept' /\ WindowsAreCounted'
  BY <1>1 DEF AttemptsAreKept, WindowsAreCounted
<1>5. BucketsArePaid'
  BY <1>1 DEF LimitersInv, BucketsArePaid, Dripped, CallsOf, Within
<1>6. LimitersHold' /\ RefusalsAreEarned'
  BY <1>1 DEF LimitersInv, LimitersHold, LoginBudget, BucketBudget, ConfigBudget, TablesAreBounded,
     RefusalsAreEarned, CallsOf, Within
<1> QED
  BY <1>3, <1>4, <1>5, <1>6 DEF LimitersInv

-----------------------------------------------------------------------------
(* The window of a plugin's configuration.                                 *)

\* What is known of a table without the windows that are long over.
LEMMA WindowsKeep ==
  ASSUME LimitersInv, limiter = "config",
         NEW t, t = Without(table, {x \in DOMAIN table : now - table[x].start > 2 * Span})
  PROVE  /\ DOMAIN t \subseteq DOMAIN table
         /\ t \in [DOMAIN t -> [start : 0..now, count : 1..Limit]]
         /\ \A x \in DOMAIN t : t[x] = table[x]
         /\ \A x \in DOMAIN t : /\ CallsOf(x, t[x].start, now) = t[x].count
                                /\ CallsOf(x, t[x].start - Span, t[x].start - 1) <= Limit
         /\ \A e \in log : IF e.key \in DOMAIN t THEN e.at <= t[e.key].start + Span
                                                 ELSE e.at < now - Span
<1>0. now \in Nat /\ Span \in Nat
  BY LimiterNumbers DEF LimitersInv, LimitersTypeOK
<1>1. /\ DOMAIN t \subseteq DOMAIN table /\ \A x \in DOMAIN t : t[x] = table[x]
      /\ \A x \in DOMAIN table : x \notin DOMAIN t => now - table[x].start > 2 * Span
      /\ t = [x \in DOMAIN t |-> t[x]]
  BY DEF Without
<1>2. /\ table \in [DOMAIN table -> [start : 0..now, count : 1..Limit]]
      /\ \A k \in DOMAIN table : /\ CallsOf(k, table[k].start, now) = table[k].count
                                 /\ CallsOf(k, table[k].start - Span, table[k].start - 1) <= Limit
  BY DEF LimitersInv, WindowsAreCounted
<1>3. ASSUME NEW e \in log
      PROVE  IF e.key \in DOMAIN t THEN e.at <= t[e.key].start + Span ELSE e.at < now - Span
  <2>1. e.at \in Int /\ (IF e.key \in DOMAIN table THEN e.at <= table[e.key].start + Span
                                                   ELSE e.at < now - Span)
    BY DEF LimitersInv, LimitersTypeOK, WindowsAreCounted
  <2>2. e.key \in DOMAIN table => table[e.key].start \in Int
    BY <1>0, <1>2
  <2> QED
    BY <1>0, <1>1, <2>1, <2>2
<1> QED
  BY <1>1, <1>2, <1>3

\* A call that is let through, in a window that goes on or in a new one.
LEMMA ConfigPasses ==
  ASSUME LimitersInv, limiter = "config", UNCHANGED <<limiter, now, lastSweep, reading>>,
         NEW k \in Key, Passed(k, now),
         NEW t, t = Without(table, {x \in DOMAIN table : now - table[x].start > 2 * Span}),
         NEW w, table' = Put(t, k, w),
         \/ Current(t, k) /\ t[k].count < Limit /\ w = [t[k] EXCEPT !.count = @ + 1]
         \/ ~Current(t, k) /\ w = [start |-> now, count |-> 1]
  PROVE  LimitersInv'
<1> DEFINE new == Call(k, now)
<1>0. /\ LimitersTypeOK /\ now \in Nat /\ now' = now /\ limiter' = "config" /\ now \in 0..now
      /\ Span \in Nat /\ Limit \in Nat /\ Limit > 0 /\ NoKey \notin Key /\ NoKey # k
  BY LimiterNumbers, LimitersAssumption DEF LimitersInv, LimitersTypeOK
<1>1. /\ DOMAIN t \subseteq DOMAIN table
      /\ t \in [DOMAIN t -> [start : 0..now, count : 1..Limit]]
      /\ \A x \in DOMAIN t : /\ CallsOf(x, t[x].start, now) = t[x].count
                             /\ CallsOf(x, t[x].start - Span, t[x].start - 1) <= Limit
      /\ \A e \in log : IF e.key \in DOMAIN t THEN e.at <= t[e.key].start + Span
                                              ELSE e.at < now - Span
  BY WindowsKeep
<1>2. /\ calls' \in Nat /\ refused' = NoKey /\ IsFiniteSet(log')
      /\ log' \subseteq [key : Key, at : 0..now, no : 1..calls']
      /\ \A e \in log' : e = new \/ e \in log
      /\ \A x \in Key : \A from, to \in Int :
           /\ x = k /\ now \in from..to =>
                /\ Within(x, from, to)' = Within(x, from, to) \cup {new}
                /\ CallsOf(x, from, to)' = CallsOf(x, from, to) + 1
           /\ (x # k \/ now \notin from..to) => CallsOf(x, from, to)' = CallsOf(x, from, to)
  <2>1. PassedEvicting(k, now, NoKey)
    BY DEF Passed
  <2>2. /\ calls' \in Nat /\ refused' = NoKey /\ IsFiniteSet(log')
        /\ log' \subseteq [key : Key, at : 0..now, no : 1..calls']
        /\ \A e \in log' : e = new \/ (e \in log /\ e.key # NoKey)
        /\ \A x \in Key : \A from, to \in Int :
             /\ x = NoKey => Within(x, from, to)' = {}
             /\ x = k /\ now \in from..to =>
                  /\ Within(x, from, to)' = Within(x, from, to) \cup {new}
                  /\ CallsOf(x, from, to)' = CallsOf(x, from, to) + 1
             /\ x # NoKey /\ (x # k \/ now \notin from..to) =>
                  Within(x, from, to)' = Within(x, from, to)
    BY <1>0, <2>1, OneMore
  <2>3. \A x \in Key : x # NoKey
    BY <1>0
  <2> QED
    BY <2>2, <2>3 DEF CallsOf
<1>3. /\ DOMAIN table' = DOMAIN t \cup {k} /\ table'[k] = w
      /\ \A x \in DOMAIN t \ {k} : table'[x] = t[x]
  BY DEF Put
<1>4. DOMAIN table' \subseteq Key /\ IsFiniteSet(DOMAIN table')
  <2>1. DOMAIN table \subseteq Key /\ IsFiniteSet(DOMAIN table)
    BY <1>0 DEF LimitersTypeOK
  <2>2. IsFiniteSet(DOMAIN t)
    BY <1>1, <2>1, FS_Subset
  <2>3. IsFiniteSet(DOMAIN t \cup {k})
    BY <2>2, FS_AddElement
  <2> QED
    BY <1>1, <1>3, <2>1, <2>3
<1>5. LimitersTypeOK'
  <2>1. limiter' \in {"login", "bucket", "config"} /\ now' \in Nat /\ calls' \in Nat /\ lastSweep' \in Int
    BY <1>0, <1>2 DEF LimitersTypeOK
  <2>2. /\ reading' \in [Caller -> [key : Key \cup {NoKey}, at : 0..now']]
        /\ \A c \in Caller : reading'[c] = NoReading
    BY <1>0 DEF LimitersTypeOK
  <2> QED
    BY <1>0, <1>2, <1>4, <2>1, <2>2 DEF LimitersTypeOK
\* The calls of k before this one, against the window it falls in.
<1>6. /\ w \in [start : 0..now, count : 1..Limit] /\ now <= w.start + Span
      /\ CallsOf(k, w.start, now) + 1 = w.count
      /\ CallsOf(k, w.start - Span, w.start - 1) <= Limit
      /\ \A e \in log : e.key = k => e.at <= w.start + Span
      /\ CallsOf(k, now - Span, now) + 1 <= 2 * Limit
  <2>0. \A e \in log : e.at \in 0..now
    BY <1>0 DEF LimitersTypeOK
  <2>1. CASE Current(t, k) /\ t[k].count < Limit /\ w = [t[k] EXCEPT !.count = @ + 1]
    <3>1. k \in DOMAIN t /\ now - t[k].start <= Span
      BY <2>1 DEF Current
    <3> DEFINE s == t[k].start
               n == t[k].count
    <3>2. /\ s \in 0..now /\ n \in 1..Limit /\ t[k] = [start |-> s, count |-> n]
          /\ CallsOf(k, s, now) = n /\ CallsOf(k, s - Span, s - 1) <= Limit
      BY <1>1, <3>1
    <3>3. w = [start |-> s, count |-> n + 1] /\ n < Limit
      BY <2>1, <3>2
    <3>4. Within(k, now - Span, now) \subseteq Within(k, s - Span, s - 1) \cup Within(k, s, now)
      <4> HIDE DEF s
      <4> QED
        BY <1>0, <2>0, <3>2 DEF Within
    <3>5. CallsOf(k, now - Span, now) <= Limit + n
      <4> DEFINE A == Within(k, s - Span, s - 1)
                 B == Within(k, s, now)
      <4>1. /\ IsFiniteSet(A) /\ IsFiniteSet(B) /\ Cardinality(A) \in Nat /\ Cardinality(B) \in Nat
            /\ Cardinality(A) <= Limit /\ Cardinality(B) = n
        BY <1>0, <3>2, CallsAreCounted DEF CallsOf
      <4>2. /\ IsFiniteSet(A \cup B) /\ IsFiniteSet(A \cap B)
            /\ Cardinality(A \cup B) = Cardinality(A) + Cardinality(B) - Cardinality(A \cap B)
        BY <4>1, FS_Union, FS_Intersection
      <4>3. Cardinality(A \cap B) \in Nat
        BY <4>2, FS_CardinalityType
      <4>4. CallsOf(k, now - Span, now) <= Cardinality(A \cup B)
        BY <1>0, <3>4, <4>2, FewerCalls
      <4>5. CallsOf(k, now - Span, now) \in Nat
        BY <1>0, CallsAreCounted
      <4> HIDE DEF A, B, s, n
      <4> QED
        BY <1>0, <4>1, <4>2, <4>3, <4>4, <4>5
    <3>6. CallsOf(k, now - Span, now) \in Nat
      BY <1>0, CallsAreCounted
    <3>7. \A e \in log : e.key = k => e.at <= s + Span
      BY <1>1, <3>1
    <3> HIDE DEF s, n
    <3> QED
      BY <1>0, <3>1, <3>2, <3>3, <3>5, <3>6, <3>7 DEF s
  <2>2. CASE ~Current(t, k) /\ w = [start |-> now, count |-> 1]
    <3>1. \A e \in log : e.key = k => e.at < now
      <4>1. CASE k \in DOMAIN t
        <5>1. now - t[k].start > Span /\ t[k].start \in Int
          BY <1>0, <1>1, <2>2, <4>1 DEF Current
        <5> QED
          BY <1>0, <1>1, <2>0, <4>1, <5>1
      <4>2. CASE k \notin DOMAIN t
        BY <1>0, <1>1, <2>0, <4>2
      <4> QED
        BY <4>1, <4>2
    <3>2. CallsOf(k, now, now) = 0
      <4>1. Within(k, now, now) = {}
        BY <1>0, <2>0, <3>1 DEF Within
      <4> QED
        BY <1>0, <4>1, CallsAreCounted
    <3>3. Within(k, now - Span, now) = Within(k, now - Span, now - 1)
      BY <1>0, <2>0, <3>1 DEF Within
    <3>4. CallsOf(k, now - Span, now) <= Limit /\ CallsOf(k, now - Span, now) \in Nat
      <4>1. CASE k \in DOMAIN t
        <5>1. now - t[k].start > Span /\ t[k].start \in Int /\ t[k].count \in 1..Limit
          BY <1>0, <1>1, <2>2, <4>1 DEF Current
        <5>2. Within(k, now - Span, now) \subseteq Within(k, t[k].start, now)
          <6> DEFINE s == t[k].start
          <6>1. s \in Int /\ s <= now - Span
            BY <1>0, <5>1
          <6> HIDE DEF s
          <6>2. Within(k, now - Span, now) \subseteq Within(k, s, now)
            BY <1>0, <2>0, <6>1 DEF Within
          <6> QED
            BY <6>2 DEF s
        <5>3. IsFiniteSet(Within(k, t[k].start, now)) /\ CallsOf(k, t[k].start, now) = t[k].count
          BY <1>0, <1>1, <4>1, CallsAreCounted
        <5>4. CallsOf(k, now - Span, now) <= CallsOf(k, t[k].start, now)
              /\ CallsOf(k, now - Span, now) \in Nat
          BY <1>0, <5>2, <5>3, FewerCalls, CallsAreCounted DEF CallsOf
        <5> QED
          BY <1>0, <5>1, <5>3, <5>4
      <4>2. CASE k \notin DOMAIN t
        <5>1. Within(k, now - Span, now) = {}
          BY <1>0, <1>1, <2>0, <4>2 DEF Within
        <5> QED
          BY <1>0, <5>1, CallsAreCounted
      <4> QED
        BY <4>1, <4>2
    <3>5. CallsOf(k, now - Span, now - 1) <= Limit
      BY <3>3, <3>4 DEF CallsOf
    <3>6. w.start = now /\ w.count = 1 /\ w \in [start : 0..now, count : 1..Limit]
      BY <1>0, <2>2
    <3>7. \A e \in log : e.key = k => e.at <= now + Span
      BY <1>0, <2>0
    <3> QED
      BY <1>0, <3>2, <3>4, <3>5, <3>6, <3>7
  <2> QED
    BY <2>1, <2>2
<1>7. WindowsAreCounted'
  <2>1. table' \in [DOMAIN table' -> [start : 0..now, count : 1..Limit]]
    BY <1>1, <1>3, <1>6 DEF Put
  <2>0. PICK u \in Int : u = now /\ u = now'
    BY <1>0
  <2>2. ASSUME NEW x \in Key, NEW s \in Int, x \in DOMAIN table', s = table'[x].start
        PROVE  CallsOf(x, s, u)' = table'[x].count /\ CallsOf(x, s - Span, s - 1)' <= Limit
    <3>1. s \in 0..now /\ s - Span \in Int /\ s - 1 \in Int
      BY <1>0, <2>1, <2>2
    <3>2. CASE x = k
      <4>1. s = w.start /\ w.count = table'[x].count
        BY <1>3, <2>2, <3>2
      <4>2. CallsOf(x, s, u) + 1 = w.count /\ CallsOf(x, s - Span, s - 1) <= Limit
        BY <1>6, <2>0, <3>2, <4>1
      <4>3. now \in s..u /\ now \notin (s - Span)..(s - 1)
        BY <1>0, <2>0, <3>1
      <4>4. CallsOf(x, s, u)' = CallsOf(x, s, u) + 1
        BY <1>2, <2>0, <3>2, <4>3
      <4>5. CallsOf(x, s - Span, s - 1)' = CallsOf(x, s - Span, s - 1)
        BY <1>2, <3>1, <4>3
      <4> QED
        BY <4>1, <4>2, <4>4, <4>5
    <3>3. CASE x # k
      <4>1. x \in DOMAIN t /\ table'[x] = t[x]
        BY <1>3, <2>2, <3>3
      <4>2. CallsOf(x, s, u) = t[x].count /\ CallsOf(x, s - Span, s - 1) <= Limit
        BY <1>1, <2>0, <2>2, <4>1
      <4> QED
        BY <1>2, <2>0, <3>1, <3>3, <4>1, <4>2
    <3> QED
      BY <3>2, <3>3
  <2>3. ASSUME NEW e \in log'
        PROVE  IF e.key \in DOMAIN table' THEN e.at <= table'[e.key].start + Span
                                          ELSE e.at < now - Span
    <3>1. CASE e = new
      BY <1>0, <1>3, <1>6, <3>1 DEF Call
    <3>2. CASE e # new
      <4>1. e \in log
        BY <1>2, <3>2
      <4>2. CASE e.key = k
        BY <1>3, <1>6, <4>1, <4>2
      <4>3. CASE e.key # k
        BY <1>1, <1>3, <4>1, <4>3
      <4> QED
        BY <4>2, <4>3
    <3> QED
      BY <3>1, <3>2
  <2>4. ASSUME NEW x \in DOMAIN table'
        PROVE  /\ CallsOf(x, table[x].start, now)' = table'[x].count
               /\ CallsOf(x, table[x].start - Span, table[x].start - 1)' <= Limit
    <3>1. x \in Key /\ table'[x].start \in Int
      BY <1>0, <1>4, <2>1
    <3>2. PICK s \in Int : s = table'[x].start
      BY <3>1
    <3>3. CallsOf(x, s, u)' = table'[x].count /\ CallsOf(x, s - Span, s - 1)' <= Limit
      BY <2>2, <2>4, <3>1, <3>2
    <3> QED
      BY <2>0, <3>2, <3>3
  <2> QED
    BY <1>0, <2>1, <2>3, <2>4 DEF WindowsAreCounted
<1>8. ConfigBudget'
  <2> SUFFICES ASSUME NEW x \in Key, NEW u \in 0..now
               PROVE  CallsOf(x, u - Span, u)' <= 2 * Limit
    BY <1>0 DEF ConfigBudget
  <2>1. CallsOf(x, u - Span, u) <= 2 * Limit /\ u \in Int /\ u - Span \in Int
    BY <1>0 DEF LimitersInv, LimitersHold, ConfigBudget
  <2>2. CASE x = k /\ now \in (u - Span)..u
    <3>1. u = now
      BY <1>0, <2>2
    <3> QED
      BY <1>2, <1>6, <2>1, <2>2, <3>1
  <2>3. CASE x # k \/ now \notin (u - Span)..u
    BY <1>2, <2>1, <2>3
  <2> QED
    BY <2>2, <2>3
<1>9. /\ AttemptsAreKept' /\ BucketsArePaid' /\ LoginBudget' /\ BucketBudget'
      /\ TablesAreBounded' /\ RefusalsAreEarned'
  BY <1>0, <1>2 DEF AttemptsAreKept, BucketsArePaid, LoginBudget, BucketBudget,
     TablesAreBounded, RefusalsAreEarned
<1> QED
  BY <1>5, <1>7, <1>8, <1>9 DEF LimitersInv, LimitersHold

\* A call that is refused: the window it falls in is used up.
LEMMA ConfigRefuses ==
  ASSUME LimitersInv, limiter = "config", UNCHANGED <<limiter, now, lastSweep, reading>>,
         NEW k \in Key, Refused(k),
         NEW t, t = Without(table, {x \in DOMAIN table : now - table[x].start > 2 * Span}),
         Current(t, k), t[k].count >= Limit, table' = t
  PROVE  LimitersInv'
<1>0. /\ LimitersTypeOK /\ now \in Nat /\ now' = now /\ limiter' = "config"
      /\ Span \in Nat /\ Limit \in Nat /\ log' = log /\ calls' = calls /\ refused' = k
  BY LimiterNumbers DEF LimitersInv, LimitersTypeOK, Refused
<1>1. /\ DOMAIN t \subseteq DOMAIN table
      /\ t \in [DOMAIN t -> [start : 0..now, count : 1..Limit]]
      /\ \A x \in DOMAIN t : /\ CallsOf(x, t[x].start, now) = t[x].count
                             /\ CallsOf(x, t[x].start - Span, t[x].start - 1) <= Limit
      /\ \A e \in log : IF e.key \in DOMAIN t THEN e.at <= t[e.key].start + Span
                                              ELSE e.at < now - Span
  BY WindowsKeep
<1>2. DOMAIN table' \subseteq Key /\ IsFiniteSet(DOMAIN table')
  BY <1>0, <1>1, FS_Subset DEF LimitersTypeOK
<1>3. LimitersTypeOK'
  <2>1. /\ limiter' \in {"login", "bucket", "config"} /\ now' \in Nat /\ calls' \in Nat
        /\ lastSweep' \in Int /\ refused' \in Key \cup {NoKey}
    BY <1>0 DEF LimitersTypeOK
  <2>2. /\ reading' \in [Caller -> [key : Key \cup {NoKey}, at : 0..now']]
        /\ \A c \in Caller : reading'[c] = NoReading
    BY <1>0 DEF LimitersTypeOK
  <2>3. IsFiniteSet(log') /\ log' \subseteq [key : Key, at : 0..now', no : 1..calls']
    BY <1>0 DEF LimitersTypeOK
  <2> QED
    BY <1>0, <1>2, <2>1, <2>2, <2>3 DEF LimitersTypeOK
<1>4. WindowsAreCounted'
  BY <1>0, <1>1 DEF WindowsAreCounted, CallsOf, Within
<1>5. ConfigBudget'
  BY <1>0 DEF ConfigBudget, LimitersInv, LimitersHold, CallsOf, Within
<1>6. RefusalsAreEarned'
  <2> DEFINE s == t[k].start
  <2>1. s \in 0..now /\ now - s <= Span /\ CallsOf(k, s, now) = t[k].count /\ t[k].count \in Nat
    BY <1>0, <1>1 DEF Current
  <2>2. Within(k, s, now) \subseteq Within(k, now - Span, now)
    <3> HIDE DEF s
    <3> QED
      BY <1>0, <2>1 DEF Within, LimitersTypeOK
  <2>3. /\ CallsOf(k, s, now) <= CallsOf(k, now - Span, now)
        /\ CallsOf(k, now - Span, now) \in Nat
    BY <1>0, <2>2, FewerCalls, CallsAreCounted DEF CallsOf
  <2>4. CallsOf(k, now - Span, now) >= Limit
    BY <1>0, <2>1, <2>3
  <2> QED
    BY <1>0, <2>4 DEF RefusalsAreEarned, CallsOf, Within
<1>7. /\ AttemptsAreKept' /\ BucketsArePaid' /\ LoginBudget' /\ BucketBudget' /\ TablesAreBounded'
  BY <1>0 DEF AttemptsAreKept, BucketsArePaid, LoginBudget, BucketBudget, TablesAreBounded
<1> QED
  BY <1>3, <1>4, <1>5, <1>6, <1>7 DEF LimitersInv, LimitersHold

\* configTake keeps the invariant, whatever it answers.
LEMMA ConfigKeeps ==
  ASSUME LimitersInv, NEW k \in Key, ConfigTake(k)
  PROVE  LimitersInv'
<1> DEFINE t == Without(table, {x \in DOMAIN table : now - table[x].start > 2 * Span})
<1>0. limiter = "config" /\ UNCHANGED <<limiter, now, lastSweep, reading>>
  BY DEF ConfigTake
<1>1. CASE Current(t, k) /\ t[k].count >= Limit /\ table' = t /\ Refused(k)
  BY <1>0, <1>1, ConfigRefuses
<1>2. CASE /\ Current(t, k) /\ t[k].count < Limit
           /\ table' = [t EXCEPT ![k].count = @ + 1] /\ Passed(k, now)
  <2> DEFINE w == [t[k] EXCEPT !.count = @ + 1]
  <2>1. k \in DOMAIN t /\ t = [x \in DOMAIN t |-> t[x]]
    BY <1>2 DEF Current, Without
  <2>2. table' = Put(t, k, w)
    BY <1>2, <2>1 DEF Put
  <2> HIDE DEF t
  <2> QED
    BY <1>0, <1>2, <2>2, ConfigPasses DEF t
<1>3. CASE ~Current(t, k) /\ table' = Put(t, k, [start |-> now, count |-> 1]) /\ Passed(k, now)
  BY <1>0, <1>3, ConfigPasses
<1> QED
  BY <1>1, <1>2, <1>3 DEF ConfigTake

-----------------------------------------------------------------------------
(* Time.                                                                   *)

\* No call is later than now, so that a window that ends later holds no more.
LEMMA LaterHoldsNoMore ==
  ASSUME LimitersTypeOK, NEW k \in Key, NEW from \in Int, NEW to \in Int
  PROVE  /\ to > now => CallsOf(k, from, to) = CallsOf(k, from, now)
         /\ to = now + 1 => CallsOf(k, from + 1, to) <= CallsOf(k, from, now)
         /\ from > now => CallsOf(k, from, to) = 0
<1>0. now \in Nat /\ \A e \in log : e.at \in 0..now
  BY DEF LimitersTypeOK
<1>1. to > now => Within(k, from, to) = Within(k, from, now)
  BY <1>0 DEF Within
<1>2. to = now + 1 => Within(k, from + 1, to) \subseteq Within(k, from, now)
  BY <1>0 DEF Within
<1>3. from > now => Within(k, from, to) = {}
  BY <1>0 DEF Within
<1>4. IsFiniteSet(Within(k, from, now))
  BY CallsAreCounted
<1> QED
  BY <1>1, <1>2, <1>3, <1>4, FewerCalls, CallsAreCounted DEF CallsOf

\* Time passes: windows move on, buckets fill up, waiting calls get older.
LEMMA TickKeeps ==
  ASSUME LimitersInv, Tick
  PROVE  LimitersInv'
<1>0. /\ LimitersTypeOK /\ now \in Nat /\ now' = now + 1 /\ refused' = NoKey
      /\ UNCHANGED <<limiter, table, lastSweep, reading, log, calls>>
      /\ Window \in Nat /\ Span \in Nat /\ Delay \in Nat /\ Minute \in Nat /\ Rate \in Nat
      /\ MaxAttempts \in Nat /\ Limit \in Nat
  BY LimiterNumbers DEF Tick, LimitersInv, LimitersTypeOK
<1>1. PICK u \in Int : u = now'
  BY <1>0
<1>2. /\ u = now + 1
      /\ \A x, from, to : /\ Within(x, from, to)' = Within(x, from, to)
                          /\ CallsOf(x, from, to)' = CallsOf(x, from, to)
  BY <1>0, <1>1 DEF Within, CallsOf
<1>3. LimitersTypeOK'
  <2>1. log' \subseteq [key : Key, at : 0..now', no : 1..calls'] /\ IsFiniteSet(log')
    BY <1>0 DEF LimitersTypeOK
  <2>2. /\ reading' \in [Caller -> [key : Key \cup {NoKey}, at : 0..now']]
        /\ \A c \in Caller : reading'[c] # NoReading =>
             limiter' = "bucket" /\ reading'[c].key \in Key /\ now' - reading'[c].at <= Delay
    BY <1>0 DEF LimitersTypeOK, Tick
  <2> QED
    BY <1>0, <2>1, <2>2 DEF LimitersTypeOK
<1>4. ASSUME limiter = "login" PROVE AttemptsAreKept' /\ LoginBudget'
  <2>1. /\ EntriesAreCalls(table)
        /\ \A x \in Key : Recent(table, x) = Within(x, now - Window + 1, now)
    BY <1>4 DEF LimitersInv, AttemptsAreKept
  <2>2. ASSUME NEW x \in Key PROVE Recent(table, x)' = Within(x, u - Window + 1, u)'
    <3>1. Recent(table, x)' = {e \in Recent(table, x) : e.at > u - Window}
      BY <1>0, <1>1, <1>2, <2>1 DEF Recent, Kept, EntriesAreCalls
    <3>2. Within(x, u - Window + 1, u) = {e \in Within(x, now - Window + 1, now) : e.at > u - Window}
      BY <1>0, <1>2 DEF Within, LimitersTypeOK
    <3> QED
      BY <1>2, <2>1, <3>1, <3>2
  <2>3. AttemptsAreKept'
    BY <1>0, <1>1, <2>1, <2>2 DEF AttemptsAreKept, EntriesAreCalls
  <2>4. ASSUME NEW x \in Key, NEW s \in 0..u
        PROVE  CallsOf(x, s - Window + 1, s) <= MaxAttempts
    <3>1. CASE s \in 0..now
      BY <1>4, <3>1 DEF LimitersInv, LimitersHold, LoginBudget
    <3>2. CASE s = u
      <4> DEFINE from == now - Window + 1
      <4>1. from \in Int /\ s - Window + 1 = from + 1 /\ s = now + 1 /\ now \in 0..now
        BY <1>0, <1>2, <3>2
      <4>2. CallsOf(x, from + 1, s) <= CallsOf(x, from, now)
        <5> HIDE DEF from
        <5> QED
          BY <1>0, <1>2, <3>2, <4>1, LaterHoldsNoMore
      <4>3. CallsOf(x, from, now) <= MaxAttempts
        BY <1>4, <4>1 DEF LimitersInv, LimitersHold, LoginBudget
      <4>4. CallsOf(x, from + 1, s) \in Nat /\ CallsOf(x, from, now) \in Nat
        BY <1>0, CallsAreCounted
      <4>5. CallsOf(x, from + 1, s) <= MaxAttempts
        BY <1>0, <4>2, <4>3, <4>4
      <4> QED
        BY <4>1, <4>5
    <3> QED
      BY <1>0, <1>2, <3>1, <3>2
  <2>5. LoginBudget'
    BY <1>1, <1>2, <2>4 DEF LoginBudget
  <2> QED
    BY <2>3, <2>5
<1>5. ASSUME limiter = "bucket" PROVE BucketsArePaid' /\ BucketBudget'
  <2>1. ASSUME NEW x \in DOMAIN table, NEW from \in 0..u, NEW to \in from..u, CallsOf(x, from, to) > 0
        PROVE  CallsOf(x, from, to) * Minute + table[x].tokens <= (Minute + table[x].last - from) * Rate
    <3>0. x \in Key /\ from \in Int /\ to \in Int
      BY <1>0, <2>1 DEF LimitersTypeOK
    <3>1. from \in 0..now
      BY <1>0, <1>2, <2>1, <3>0, LaterHoldsNoMore
    <3>2. CASE to \in from..now
      BY <1>5, <2>1, <3>1, <3>2 DEF LimitersInv, BucketsArePaid, Dripped
    <3>3. CASE to > now
      <4>1. CallsOf(x, from, to) = CallsOf(x, from, now) /\ now \in from..now
        BY <1>0, <3>0, <3>1, <3>3, LaterHoldsNoMore
      <4>2. CallsOf(x, from, now) > 0
        BY <2>1, <4>1
      <4>3. CallsOf(x, from, now) * Minute + table[x].tokens <= (Minute + table[x].last - from) * Rate
        BY <1>5, <2>1, <3>1, <4>1, <4>2 DEF LimitersInv, BucketsArePaid, Dripped
      <4> QED
        BY <4>1, <4>3
    <3> QED
      BY <1>0, <3>0, <3>1, <2>1, <3>2, <3>3
  <2>2. BucketsArePaid'
    <3>1. table' \in [DOMAIN table' -> [tokens : Int, last : 0..now']]
      BY <1>0, <1>5 DEF LimitersInv, BucketsArePaid
    <3>2. \A x \in DOMAIN table : Within(x, 0, u) # {}
      <4>1. \A x \in DOMAIN table : Within(x, 0, now) # {}
        BY <1>5 DEF LimitersInv, BucketsArePaid
      <4> QED
        BY <1>0, <1>2, <4>1 DEF Within
    <3>3. \A e \in log : IF e.key \in DOMAIN table THEN e.at <= table[e.key].last + Delay
                                                   ELSE e.at + Minute <= u - Delay
      <4>1. \A e \in log : e.at \in Int
        BY <1>0 DEF LimitersTypeOK
      <4> QED
        BY <1>0, <1>2, <1>5, <4>1 DEF LimitersInv, BucketsArePaid
    <3> QED
      BY <1>0, <1>1, <1>2, <2>1, <3>1, <3>2, <3>3 DEF BucketsArePaid, Dripped
  <2>3. ASSUME NEW x \in Key, NEW from \in 0..u, NEW to \in from..u
        PROVE  CallsOf(x, from, to) * Minute <= Rate * Minute + (to - from) * Rate
    <3> DEFINE C == Rate * Minute
               drip == (to - from) * Rate
    <3>0. from \in Int /\ to \in Int /\ to - from \in Int /\ 0 <= to - from
      BY <1>0, <1>2
    <3>1. C \in Int /\ C >= 0 /\ drip \in Int /\ drip >= 0
      <4>1. \A a \in Nat, b \in Nat : a * b \in Int /\ a * b >= 0
        OBVIOUS
      <4> QED
        BY <1>0, <3>0, <4>1
    <3>2. CASE from > now
      <4>1. CallsOf(x, from, to) * Minute = 0
        BY <1>0, <3>0, <3>2, LaterHoldsNoMore
      <4> HIDE DEF C, drip
      <4>2. 0 <= C + drip
        BY <3>1
      <4> QED
        BY <4>1, <4>2 DEF C, drip
    <3>3. CASE from <= now /\ to <= now
      <4>1. from \in 0..now /\ to \in from..now
        BY <1>0, <3>0, <3>3
      <4> QED
        BY <1>5, <4>1 DEF LimitersInv, LimitersHold, BucketBudget
    <3>4. CASE from <= now /\ to > now
      <4> DEFINE less == (now - from) * Rate
                 taken == CallsOf(x, from, now) * Minute
      <4>1. from \in 0..now /\ now \in from..now /\ now - from \in Int /\ now - from <= to - from
        BY <1>0, <3>0, <3>4
      <4>2. CallsOf(x, from, to) = CallsOf(x, from, now) /\ CallsOf(x, from, now) \in Nat
        BY <1>0, <3>0, <3>4, LaterHoldsNoMore, CallsAreCounted
      <4>3. taken <= C + less
        BY <1>5, <4>1 DEF LimitersInv, LimitersHold, BucketBudget
      <4>4. less \in Int /\ less <= drip /\ taken \in Int
        BY <1>0, <3>0, <4>1, <4>2, MoreDrips, OneMoreTaken
      <4>5. taken <= C + drip
        <5> HIDE DEF C, drip, less, taken
        <5> QED
          BY <3>1, <4>3, <4>4
      <4> QED
        BY <4>2, <4>5
    <3> QED
      BY <1>0, <3>0, <3>2, <3>3, <3>4
  <2>4. BucketBudget'
    BY <1>1, <1>2, <2>3 DEF BucketBudget
  <2> QED
    BY <2>2, <2>4
<1>6. ASSUME limiter = "config" PROVE WindowsAreCounted' /\ ConfigBudget'
  <2>1. /\ table \in [DOMAIN table -> [start : 0..now, count : 1..Limit]]
        /\ \A x \in DOMAIN table :
             /\ CallsOf(x, table[x].start, now) = table[x].count
             /\ CallsOf(x, table[x].start - Span, table[x].start - 1) <= Limit
        /\ \A e \in log : IF e.key \in DOMAIN table THEN e.at <= table[e.key].start + Span
                                                    ELSE e.at < now - Span
    BY <1>6 DEF LimitersInv, WindowsAreCounted
  <2>2. \A x \in DOMAIN table : CallsOf(x, table[x].start, u) = table[x].count
    <3>1. ASSUME NEW x \in DOMAIN table PROVE CallsOf(x, table[x].start, u) = table[x].count
      <4>1. table[x].start \in Int /\ x \in Key
        BY <1>0, <2>1 DEF LimitersTypeOK
      <4>2. u > now
        BY <1>0, <1>2
      <4> QED
        BY <1>0, <2>1, <4>1, <4>2, LaterHoldsNoMore
    <3> QED
      BY <3>1
  <2>3. table \in [DOMAIN table -> [start : 0..u, count : 1..Limit]]
    BY <1>0, <1>2, <2>1
  <2>4. \A e \in log : IF e.key \in DOMAIN table THEN e.at <= table[e.key].start + Span
                                                 ELSE e.at < u - Span
    BY <1>0, <1>2, <2>1 DEF LimitersTypeOK
  <2>5. WindowsAreCounted'
    <3>1. \A x \in DOMAIN table : CallsOf(x, table[x].start, now)' = table[x].count
                                  /\ CallsOf(x, table[x].start - Span, table[x].start - 1)' <= Limit
      BY <1>0, <1>1, <1>2, <2>1, <2>2
    <3> QED
      BY <1>0, <1>1, <2>3, <2>4, <3>1 DEF WindowsAreCounted
  <2>6. ASSUME NEW x \in Key, NEW s \in 0..u
        PROVE  CallsOf(x, s - Span, s) <= 2 * Limit
    <3>1. CASE s \in 0..now
      BY <1>6, <3>1 DEF LimitersInv, LimitersHold, ConfigBudget
    <3>2. CASE s = u
      <4> DEFINE from == now - Span
      <4>1. from \in Int /\ s - Span = from + 1 /\ s = now + 1 /\ now \in 0..now
        BY <1>0, <1>2, <3>2
      <4>2. CallsOf(x, from + 1, s) <= CallsOf(x, from, now)
        <5> HIDE DEF from
        <5> QED
          BY <1>0, <1>2, <3>2, <4>1, LaterHoldsNoMore
      <4>3. CallsOf(x, from, now) <= 2 * Limit
        BY <1>6, <4>1 DEF LimitersInv, LimitersHold, ConfigBudget
      <4>4. CallsOf(x, from + 1, s) \in Nat /\ CallsOf(x, from, now) \in Nat
        BY <1>0, CallsAreCounted
      <4>5. CallsOf(x, from + 1, s) <= 2 * Limit
        BY <1>0, <4>2, <4>3, <4>4
      <4> QED
        BY <4>1, <4>5
    <3> QED
      BY <1>0, <1>2, <3>1, <3>2
  <2>7. ConfigBudget'
    BY <1>1, <1>2, <2>6 DEF ConfigBudget
  <2> QED
    BY <2>5, <2>7
<1>7. AttemptsAreKept' /\ LoginBudget'
  BY <1>0, <1>4 DEF AttemptsAreKept, LoginBudget
<1>8. BucketsArePaid' /\ BucketBudget'
  BY <1>0, <1>5 DEF BucketsArePaid, BucketBudget
<1>9. WindowsAreCounted' /\ ConfigBudget'
  BY <1>0, <1>6 DEF WindowsAreCounted, ConfigBudget
<1>10. TablesAreBounded' /\ RefusalsAreEarned'
  BY <1>0 DEF LimitersInv, LimitersHold, TablesAreBounded, RefusalsAreEarned
<1> QED
  BY <1>3, <1>7, <1>8, <1>9, <1>10 DEF LimitersInv, LimitersHold

-----------------------------------------------------------------------------
(* The limiters.                                                           *)

\* Empty tables, and nobody let through yet.
LEMMA LimitersStart ==
  ASSUME LimitersInit
  PROVE  LimitersInv
<1>0. /\ limiter \in {"login", "bucket", "config"} /\ now = 0 /\ table = <<>> /\ log = {}
      /\ calls = 0 /\ refused = NoKey /\ lastSweep = -Sweep
      /\ reading = [c \in Caller |-> NoReading]
  BY DEF LimitersInit
<1>1. DOMAIN table = {} /\ IsFiniteSet(DOMAIN table) /\ Cardinality(DOMAIN table) = 0 /\ IsFiniteSet(log)
  BY <1>0, FS_EmptySet
<1>2. LimitersTypeOK
  BY <1>0, <1>1, LimiterNumbers DEF LimitersTypeOK, NoReading
<1>3. \A k, from, to : Within(k, from, to) = {} /\ CallsOf(k, from, to) = 0
  BY <1>0, FS_EmptySet DEF Within, CallsOf
<1>4. AttemptsAreKept /\ LoginBudget
  BY <1>0, <1>1, <1>3, LimiterNumbers DEF AttemptsAreKept, EntriesAreCalls, LoginBudget, Recent
<1>5. BucketsArePaid
  BY <1>0, <1>1 DEF BucketsArePaid
<1>6. BucketBudget
  <2> SUFFICES ASSUME NEW k \in Key, NEW from \in 0..now, NEW to \in from..now
               PROVE  CallsOf(k, from, to) * Minute <= Rate * Minute + (to - from) * Rate
    BY DEF BucketBudget
  <2>1. from = 0 /\ to = 0 /\ CallsOf(k, from, to) = 0
    BY <1>0, <1>3
  <2>2. 0 * Minute = 0 /\ Rate * Minute >= 0 /\ (0 - 0) * Rate = 0 /\ Rate * Minute \in Int
    <3>1. \A a \in Nat, b \in Nat : a * b \in Int /\ a * b >= 0
      OBVIOUS
    <3> QED
      BY <3>1, LimiterNumbers
  <2> QED
    BY <2>1, <2>2
<1>7. WindowsAreCounted /\ ConfigBudget
  BY <1>0, <1>1, <1>3, LimiterNumbers DEF WindowsAreCounted, ConfigBudget
<1>8. TablesAreBounded /\ RefusalsAreEarned
  BY <1>0, <1>1, LimiterNumbers DEF TablesAreBounded, RefusalsAreEarned
<1> QED
  BY <1>2, <1>4, <1>5, <1>6, <1>7, <1>8 DEF LimitersInv, LimitersHold

\* Nothing happens.
LEMMA LimitersStutter ==
  ASSUME LimitersInv, UNCHANGED limiterVars
  PROVE  LimitersInv'
<1>0. UNCHANGED <<limiter, now, table, lastSweep, reading, log, calls, refused>>
  BY DEF limiterVars
<1>1. LimitersTypeOK' /\ AttemptsAreKept' /\ WindowsAreCounted'
  BY <1>0 DEF LimitersInv, LimitersTypeOK, AttemptsAreKept, EntriesAreCalls,
     WindowsAreCounted, Recent, Kept, CallsOf, Within
<1>2. BucketsArePaid'
  BY <1>0 DEF LimitersInv, BucketsArePaid, Dripped, CallsOf, Within
<1>3. LimitersHold' /\ RefusalsAreEarned'
  BY <1>0 DEF LimitersInv, LimitersHold, LoginBudget, BucketBudget, ConfigBudget, TablesAreBounded,
     RefusalsAreEarned, CallsOf, Within
<1> QED
  BY <1>1, <1>2, <1>3 DEF LimitersInv

(* The inductive invariant of the three limiters (ratelimit.go, handler.go,*)
(* skill_api.go): what each table remembers is the history of its calls.   *)
THEOREM LimitersInvariance == LimitersSpec => []LimitersInv
<1>1. LimitersInit => LimitersInv
  BY LimitersStart
<1>2. LimitersInv /\ [LimitersNext]_limiterVars => LimitersInv'
  BY LoginKeeps, BucketKeeps, ReadClockKeeps, ConfigKeeps, TickKeeps, LimitersStutter DEF LimitersNext
<1> QED
  BY <1>1, <1>2, PTL DEF LimitersSpec

(* No limiter gives more than its budget: a login key in any window, a     *)
(* user of the gateway in any stretch of time, a user of a plugin's        *)
(* configuration in any window (loginLimiter.allow, rateLimiter.allow,     *)
(* configTake), for every order of calls, waits for the lock and evictions.*)
THEOREM BudgetsHold == LimitersSpec => []LimitersHold
<1>1. LimitersInv => LimitersHold
  BY DEF LimitersInv
<1> QED
  BY <1>1, LimitersInvariance, PTL

(* Nobody is refused but who has used his budget, also when a table is full*)
(* (C-2, L19: allow evicts, and does not refuse).                          *)
THEOREM RefusalsAreFair == LimitersSpec => []RefusalsAreEarned
<1>1. LimitersInv => RefusalsAreEarned
  BY DEF LimitersInv
<1> QED
  BY <1>1, LimitersInvariance, PTL
=============================================================================
