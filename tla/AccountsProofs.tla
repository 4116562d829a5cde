--------------------------- MODULE AccountsProofs ---------------------------
(***************************************************************************)
(* Proofs about Accounts, for any requests, any names, any directory, any  *)
(* passwords and any number of users.  IInv, the inductive invariant, is   *)
(* defined and explained there.                                            *)
(***************************************************************************)
EXTENDS Accounts, TLAPS, FiniteSetTheorems

-----------------------------------------------------------------------------
(* The records.                                                            *)

LEMMA AskedType ==
  ASSUME NEW actor \in 0..MaxUsers, NEW uid \in 0..MaxUsers, NEW row \in Row
  PROVE  LET r == Asked(actor, uid, row)
         IN  r \in Request /\ r.actor = actor /\ r.uid = uid /\ r.row = row
BY DEF Asked, Request, Source

LEMMA ClaimedType ==
  ASSUME NEW kind \in {"none", "client", "admin"}, NEW name \in Name \cup {NoName},
         NEW src \in Source, NEW uid \in 0..MaxUsers, NEW row \in Row
  PROVE  LET r == Claimed(kind, name, src, uid, row)
         IN  /\ r \in Request /\ r.actor = 0 /\ r.uid = uid /\ r.row = row
             /\ r.name = name /\ r.src = src /\ r.kind = kind
BY AccountConstants DEF Claimed, Request

LEMMA NoRowType == NoRow \in Row /\ NoRow.name = NoName /\ ~NoRow.admin
BY DEF NoRow, Row, Source, Pw

LEMMA NoRequestType ==
  /\ NoRequest \in Request /\ NoRequest.uid = 0 /\ NoRequest.actor = 0
BY NoRowType, AccountConstants, AskedType DEF NoRequest, Asked, Request, Source

\* What TypeOK says of one row, one request and the bounds.
LEMMA Types ==
  ASSUME TypeOK
  PROVE  /\ nextUid \in Nat /\ nextUid > 0 /\ Uid \subseteq Nat
         /\ \A u \in Uid : user[u] \in Row
         /\ \A p \in Proc : /\ req[p] \in Request /\ req[p].uid \in 0..MaxUsers
                            /\ req[p].actor \in 0..MaxUsers /\ req[p].row \in Row
                            /\ req[p].name \in Name \cup {NoName} /\ req[p].src \in Source
                            /\ req[p].kind \in {"none", "client", "admin"}
         /\ \A u \in Uid : u \in 0..MaxUsers /\ u # 0
         /\ \A u \in 0..MaxUsers : u # 0 => u \in Uid
<1>1. nextUid \in Nat /\ nextUid > 0 /\ Uid \subseteq Nat
  BY AccountConstants DEF TypeOK, Uid
<1>2. \A u \in Uid : user[u] \in Row
  BY DEF TypeOK
<1>3. \A p \in Proc : req[p] \in Request
  BY DEF TypeOK
<1>4. \A r \in Request : /\ r.uid \in 0..MaxUsers /\ r.actor \in 0..MaxUsers /\ r.row \in Row
                         /\ r.name \in Name \cup {NoName} /\ r.src \in Source
                         /\ r.kind \in {"none", "client", "admin"}
  BY DEF Request
<1>5. /\ \A u \in Uid : u \in 0..MaxUsers /\ u # 0
      /\ \A u \in 0..MaxUsers : u # 0 => u \in Uid
  BY AccountConstants DEF Uid
<1> QED
  BY <1>1, <1>2, <1>3, <1>4, <1>5

-----------------------------------------------------------------------------
(* What a step does to the table of users.                                 *)

\* It leaves the name and the source of every row that stays, and makes new
\* ones at the end only.
RowsKept ==
  /\ user' \in [Uid -> Row] /\ nextUid' \in 1..(MaxUsers + 1) /\ nextUid' >= nextUid
  /\ \A u \in Uid : u >= nextUid' => user'[u] = NoRow
  /\ \A u \in Uid : u < nextUid /\ user'[u].name # NoName =>
       user'[u].name = user[u].name /\ user'[u].src = user[u].src

\* It leaves the old rows as they are.
OldRowsSame == \A u \in Uid : u < nextUid => user'[u] = user[u]

LEMMA InsertKeeps ==
  ASSUME TypeOK, \A u \in Uid : u >= nextUid => user[u] = NoRow,
         NEW row \in Row, nextUid \in Uid, user' = [user EXCEPT ![nextUid] = row],
         nextUid' = nextUid + 1
  PROVE  RowsKept /\ OldRowsSame /\ user'[nextUid] = row
<1>1. nextUid' \in 1..(MaxUsers + 1) /\ nextUid' >= nextUid /\ nextUid \in Nat
  BY AccountConstants DEF Uid
<1>2. user' \in [Uid -> Row] /\ user'[nextUid] = row /\ \A u \in Uid : u # nextUid => user'[u] = user[u]
  BY DEF TypeOK
<1>3. \A u \in Uid : (u >= nextUid' => u >= nextUid /\ u # nextUid) /\ (u < nextUid => u # nextUid)
  BY <1>1, AccountConstants DEF Uid
<1> QED
  BY <1>1, <1>2, <1>3 DEF RowsKept, OldRowsSame

LEMMA WriteKeeps ==
  ASSUME TypeOK, \A u \in Uid : u >= nextUid => user[u] = NoRow,
         NEW u \in Uid, u < nextUid, NEW row \in Row,
         row.name = NoName \/ (row.name = user[u].name /\ row.src = user[u].src),
         user' = [user EXCEPT ![u] = row], nextUid' = nextUid
  PROVE  RowsKept /\ user'[u] = row /\ \A x \in Uid \ {u} : user'[x] = user[x]
<1>1. user' \in [Uid -> Row] /\ user'[u] = row /\ \A x \in Uid : x # u => user'[x] = user[x]
  BY DEF TypeOK
<1>2. nextUid \in Nat /\ nextUid \in 1..(MaxUsers + 1) /\ \A x \in Uid : x >= nextUid => x # u
  BY AccountConstants DEF TypeOK, Uid
<1> QED
  BY <1>1, <1>2 DEF RowsKept

LEMMA SameKeeps ==
  ASSUME TypeOK, \A u \in Uid : u >= nextUid => user[u] = NoRow,
         UNCHANGED <<user, nextUid>>
  PROVE  RowsKept /\ OldRowsSame
BY AccountConstants DEF TypeOK, RowsKept, OldRowsSame, Uid

-----------------------------------------------------------------------------
(* What a step leaves of the requests that do not take it.                 *)
LEMMA OthersKeep ==
  ASSUME TypeOK, RowsKept, raced' \in BOOLEAN, raced => raced',
         NEW q \in Proc, pc'[q] = pc[q], req'[q] = req[q], ReqOK(q), SerialOK(q),
         raced' \/ ~Busy(q) \/ OldRowsSame
  PROVE  ReqOK(q)' /\ SerialOK(q)'
<1>1. /\ nextUid \in Nat /\ nextUid' \in Nat /\ nextUid' >= nextUid
      /\ req[q].uid \in Nat /\ req[q].actor \in Nat
  BY Types, AccountConstants DEF RowsKept
<1>2. req[q].uid < nextUid' /\ req[q].actor < nextUid'
  BY <1>1 DEF ReqOK
<1>3. PICK u \in 0..MaxUsers : u = req[q].uid
  BY Types
<1>4. u < nextUid /\ (pc[q] \in {"read", "created", "promoting", "found"} => u \in Uid)
  BY <1>3, Types DEF ReqOK
<1>5. ReqOK(q)'
  BY <1>2, <1>3, <1>4 DEF ReqOK, Present, RowsKept
<1>6. SerialOK(q)'
  <2>1. SUFFICES ASSUME ~raced', Busy(q), OldRowsSame PROVE SerialOK(q)'
    BY DEF SerialOK, Busy
  <2>2. pc[q] \in {"authed", "read"} => req[q].actor \in Uid
    BY Types DEF ReqOK
  <2> QED
    BY <1>3, <1>4, <2>1, <2>2 DEF SerialOK, OldRowsSame, ReqOK
<1> QED
  BY <1>5, <1>6

(* A step of request p keeps the invariant if it does so of the tables and *)
(* of p.                                                                   *)
LEMMA StepKeeps ==
  ASSUME IInv, NEW p \in Proc, NEW at \in Step, NEW r \in Request, Goto(p, at), Knows(p, r),
         RowsKept, OldRowsSame \/ Landed(p), raced' = raced \/ Landed(p), up' = up,
         token' \subseteq [uid : Uid, src : Source], session' \subseteq Uid,
         CredentialsHaveOwners', ExternalNeverAdoptsLocal', AnAdminWhenSerial',
         ReqOK(p)', SerialOK(p)'
  PROVE  IInv'
<1>1. /\ TypeOK /\ pc' \in [Proc -> Step] /\ req' \in [Proc -> Request]
      /\ \A q \in Proc \ {p} : pc'[q] = pc[q] /\ req'[q] = req[q]
  BY DEF IInv, TypeOK, Goto, Knows
<1>2. raced' \in BOOLEAN /\ (raced => raced')
  BY <1>1 DEF Landed, TypeOK
<1>3. TypeOK'
  BY <1>1, <1>2 DEF TypeOK, RowsKept
<1>4. ASSUME NEW q \in Proc, q # p PROVE ReqOK(q)' /\ SerialOK(q)'
  <2>1. raced' \/ ~Busy(q) \/ OldRowsSame
    BY <1>4 DEF Landed
  <2> QED
    BY <1>1, <1>2, <1>4, <2>1, OthersKeep DEF IInv
<1>5. \A u \in Uid : u >= nextUid' => user'[u] = NoRow
  BY DEF RowsKept
<1> QED
  BY <1>3, <1>4, <1>5 DEF IInv

-----------------------------------------------------------------------------
(* Credentials and administrators.                                         *)

\* A row that exists has been numbered.
LEMMA Numbered ==
  ASSUME IInv, NEW u \in Uid, Present(u) \/ user[u].admin
  PROVE  u < nextUid
<1>1. ~ (u >= nextUid)
  BY NoRowType DEF IInv, Present
<1> QED
  BY <1>1, Types DEF IInv

LEMMA CredentialsStay ==
  ASSUME IInv, RowsKept, token' \subseteq token, session' \subseteq session,
         \A t \in token' : user'[t.uid].name # NoName,
         \A u \in session' : user'[u].name # NoName
  PROVE  CredentialsHaveOwners' /\ ExternalNeverAdoptsLocal'
<1>1. ASSUME NEW t \in token', t.src = "external" PROVE user'[t.uid].src = "external"
  <2>1. t \in token /\ t.uid \in Uid
    BY DEF IInv, TypeOK
  <2>2. t.uid < nextUid /\ user[t.uid].src = "external"
    BY <1>1, <2>1, Numbered DEF IInv, CredentialsHaveOwners, ExternalNeverAdoptsLocal
  <2> QED
    BY <2>1, <2>2 DEF RowsKept
<1> QED
  BY <1>1 DEF CredentialsHaveOwners, ExternalNeverAdoptsLocal, Present

\* When the old rows are as they were nothing needs to be looked at.
LEMMA AllStay ==
  ASSUME IInv, RowsKept, OldRowsSame, raced => raced', raced' \in BOOLEAN,
         token' \subseteq token, session' \subseteq session
  PROVE  /\ CredentialsHaveOwners' /\ ExternalNeverAdoptsLocal' /\ AnAdminWhenSerial'
         /\ token' \subseteq [uid : Uid, src : Source] /\ session' \subseteq Uid
<1>1. ASSUME NEW u \in Uid, Present(u) \/ user[u].admin PROVE user'[u] = user[u]
  BY <1>1, Numbered DEF OldRowsSame
<1>2. AnAdminWhenSerial'
  BY <1>1 DEF IInv, AnAdminWhenSerial, AnAdmin
<1>3. \A t \in token' : user'[t.uid].name # NoName
  <2>1. ASSUME NEW t \in token' PROVE user'[t.uid].name # NoName
    <3>1. t.uid \in Uid /\ Present(t.uid)
      BY DEF IInv, TypeOK, CredentialsHaveOwners
    <3> QED
      BY <1>1, <3>1 DEF Present
  <2> QED
    BY <2>1
<1>4. \A u \in session' : user'[u].name # NoName
  <2>1. ASSUME NEW u \in session' PROVE user'[u].name # NoName
    <3>1. u \in Uid /\ Present(u)
      BY DEF IInv, TypeOK, CredentialsHaveOwners
    <3> QED
      BY <1>1, <3>1 DEF Present
  <2> QED
    BY <2>1
<1> QED
  BY <1>2, <1>3, <1>4, CredentialsStay DEF IInv, TypeOK

\* The step of a request that writes nothing but creates rows, if any.
LEMMA ReadKeeps ==
  ASSUME IInv, NEW p \in Proc, NEW at \in Step, NEW r \in Request, Goto(p, at), Knows(p, r),
         RowsKept, OldRowsSame, raced' = raced \/ Landed(p),
         UNCHANGED <<up, token, session>>,
         r.uid < nextUid', r.actor < nextUid',
         at \in {"verified", "absent", "refetch"} => r.name # NoName,
         at \in {"authed", "read"} => r.actor # 0,
         at \in {"read", "created", "promoting", "found"} => r.uid # 0,
         at \in {"read", "promoting", "found"} => r.row = user'[r.uid] /\ r.row.name # NoName,
         at \in {"authed", "read"} =>
           raced' \/ (user'[r.actor].admin /\ user'[r.actor].active)
  PROVE  IInv'
<1>1. pc'[p] = at /\ req'[p] = r
  BY DEF IInv, TypeOK, Goto, Knows
<1>2. raced' \in BOOLEAN /\ (raced => raced')
  BY DEF IInv, TypeOK, Landed
<1>3. ReqOK(p)' /\ SerialOK(p)'
  BY <1>1 DEF ReqOK, SerialOK, Present
<1> QED
  BY <1>2, <1>3, AllStay, StepKeeps

-----------------------------------------------------------------------------
(* The steps that read and those that create rows.                         *)
LEMMA LookingKeeps ==
  ASSUME IInv, NEW p \in Proc,
         \/ Authenticate(p) \/ UpdateRead(p) \/ CreateRead(p) \/ Return(p)
         \/ Verify(p, "client") \/ Verify(p, "admin") \/ Lookup(p) \/ Refetch(p)
         \/ Refuse(p)
  PROVE  IInv'
<1>0. /\ TypeOK /\ ReqOK(p) /\ SerialOK(p) /\ raced \in BOOLEAN
      /\ \A u \in Uid : u >= nextUid => user[u] = NoRow
  BY DEF IInv, TypeOK
<1>1. UNCHANGED <<user, nextUid, raced, up, token, session>>
  BY DEF Authenticate, UpdateRead, CreateRead, Return, Verify, Lookup, Refetch, Refuse, rows, creds
<1>2. RowsKept /\ OldRowsSame
  BY <1>0, <1>1, SameKeeps
<1>3. ASSUME NEW r \in Request, NEW at \in Step, Goto(p, at), Knows(p, r),
             r.uid < nextUid, r.actor < nextUid,
             at \in {"verified", "absent", "refetch"} => r.name # NoName,
             at \in {"authed", "read"} => r.actor # 0,
             at \in {"read", "created", "promoting", "found"} => r.uid # 0,
             at \in {"read", "promoting", "found"} => r.row = user[r.uid] /\ r.row.name # NoName,
             at \in {"authed", "read"} => raced \/ (user[r.actor].admin /\ user[r.actor].active)
      PROVE  IInv'
  BY <1>0, <1>1, <1>2, <1>3, ReadKeeps
<1>4. ASSUME Done(p) PROVE IInv'
  <2>1. Goto(p, "idle") /\ Knows(p, NoRequest) /\ "idle" \in Step
    BY <1>4 DEF Done, Step
  <2> QED
    BY <1>0, <1>3, <2>1, NoRequestType, Types
<1>5. ASSUME NEW u \in Uid, Present(u)
      PROVE  u < nextUid /\ u # 0 /\ u \in 0..MaxUsers /\ user[u] \in Row /\ user[u].name # NoName
  BY <1>0, <1>5, Numbered, Types DEF Present
<1>6. NoRow \in Row /\ 0 \in 0..MaxUsers /\ 0 < nextUid
  BY <1>0, NoRowType, Types, AccountConstants
<1>7. CASE Authenticate(p)
  <2>1. PICK a \in session : user[a].admin /\ user[a].active /\ Knows(p, Asked(a, 0, NoRow))
    BY <1>7 DEF Authenticate
  <2>2. a \in Uid /\ Present(a)
    BY <1>0 DEF IInv, TypeOK, CredentialsHaveOwners
  <2>3. /\ Asked(a, 0, NoRow) \in Request /\ Asked(a, 0, NoRow).actor = a
        /\ Asked(a, 0, NoRow).uid = 0
    BY <1>5, <1>6, <2>2, AskedType
  <2>4. Goto(p, "authed") /\ "authed" \in Step
    BY <1>7 DEF Authenticate, Step
  <2> QED
    BY <1>3, <1>5, <1>6, <2>1, <2>2, <2>3, <2>4
<1>8. CASE UpdateRead(p)
  <2>1. PICK u \in Uid : Present(u) /\ Knows(p, Asked(req[p].actor, u, user[u]))
    BY <1>8 DEF UpdateRead
  <2>2. /\ Goto(p, "read") /\ pc[p] = "authed" /\ "read" \in Step
        /\ req[p].actor \in 0..MaxUsers /\ req[p].actor < nextUid /\ req[p].actor # 0
    BY <1>0, <1>8, Types DEF UpdateRead, Step, ReqOK
  <2>3. LET r == Asked(req[p].actor, u, user[u])
        IN  r \in Request /\ r.actor = req[p].actor /\ r.uid = u /\ r.row = user[u]
    BY <1>5, <2>1, <2>2, AskedType
  <2>4. raced \/ (user[req[p].actor].admin /\ user[req[p].actor].active)
    BY <1>0, <2>2 DEF SerialOK
  <2> QED
    BY <1>3, <1>5, <2>1, <2>2, <2>3, <2>4
<1>9. CASE CreateRead(p)
  <2>1. CASE Done(p)
    BY <1>4, <2>1
  <2>2. CASE ~Done(p)
    <3>1. PICK u : u = req[p].uid
      OBVIOUS
    <3>2. /\ Present(u) /\ Knows(p, Asked(0, u, user[u])) /\ Goto(p, "promoting")
          /\ pc[p] = "created" /\ "promoting" \in Step
      BY <1>9, <2>2, <3>1 DEF CreateRead, Step
    <3>3. u \in Uid
      BY <1>0, <3>1, <3>2, Types DEF ReqOK
    <3>4. LET r == Asked(0, u, user[u])
          IN  r \in Request /\ r.actor = 0 /\ r.uid = u /\ r.row = user[u]
      BY <1>5, <1>6, <3>2, <3>3, AskedType
    <3> QED
      BY <1>3, <1>5, <1>6, <3>2, <3>3, <3>4
  <2> QED
    BY <2>1, <2>2
<1>10. CASE Return(p) \/ Refuse(p)
  BY <1>4, <1>10 DEF Return, Refuse
<1>11. ASSUME NEW k \in {"client", "admin"}, Verify(p, k) PROVE IInv'
  <2>1. PICK n \in Name, src \in Source : Knows(p, Claimed(k, n, src, 0, NoRow))
    <3>1. CASE \E u \in Uid : Present(u) /\ Knows(p, Claimed(k, user[u].name, "local", 0, NoRow))
      BY <1>5, <3>1 DEF Row, Source
    <3>2. CASE \E n \in Directory : Knows(p, Claimed(k, n, "external", 0, NoRow))
      BY <3>2, AccountConstants DEF Source
    <3> QED
      BY <1>11, <3>1, <3>2 DEF Verify
  <2>2. LET r == Claimed(k, n, src, 0, NoRow)
        IN  r \in Request /\ r.actor = 0 /\ r.uid = 0 /\ r.name = n
    BY <1>6, ClaimedType
  <2>3. Goto(p, "verified") /\ "verified" \in Step /\ n # NoName
    BY <1>11, AccountConstants DEF Verify, Step
  <2> QED
    BY <1>3, <1>6, <2>1, <2>2, <2>3
<1>12. ASSUME NEW u \in Uid, Present(u), Goto(p, "found"),
              Knows(p, Claimed(req[p].kind, NoName, req[p].src, u, user[u]))
       PROVE  IInv'
  <2>1. LET r == Claimed(req[p].kind, NoName, req[p].src, u, user[u])
        IN  r \in Request /\ r.actor = 0 /\ r.uid = u /\ r.row = user[u]
    BY <1>0, <1>5, <1>12, Types, ClaimedType
  <2> QED
    BY <1>3, <1>5, <1>6, <1>12, <2>1 DEF Step
<1>13. ASSUME NEW n, n # NoName, NEW u \in Holder(n) PROVE u \in Uid /\ Present(u)
  BY <1>13 DEF Holder, Present
<1>14. CASE Lookup(p)
  <2>1. req[p].name # NoName /\ pc[p] = "verified"
    BY <1>0, <1>14 DEF Lookup, ReqOK
  <2>2. CASE \E u \in Holder(req[p].name) :
               /\ Knows(p, Claimed(req[p].kind, NoName, req[p].src, u, user[u]))
               /\ Goto(p, "found")
    BY <1>12, <1>13, <2>1, <2>2
  <2>3. CASE Goto(p, "absent") /\ UNCHANGED req
    <3>1. Knows(p, req[p])
      BY <1>0, <2>3 DEF Knows, TypeOK
    <3> QED
      BY <1>0, <1>3, <2>1, <2>3, <3>1, Types DEF Step, ReqOK
  <2> QED
    BY <1>14, <2>2, <2>3 DEF Lookup
<1>15. CASE Refetch(p)
  <2>1. req[p].name # NoName /\ pc[p] = "refetch"
    BY <1>0, <1>15 DEF Refetch, ReqOK
  <2>2. CASE Done(p)
    BY <1>4, <2>2
  <2>3. CASE ~Done(p)
    <3>1. PICK u : /\ u \in IF req[p].uid # 0 THEN {req[p].uid} \cap {x \in Uid : Present(x)}
                             ELSE Holder(req[p].name)
                   /\ Knows(p, Claimed(req[p].kind, NoName, req[p].src, u, user[u]))
                   /\ Goto(p, "found")
      BY <1>15, <2>3 DEF Refetch
    <3>2. u \in Uid /\ Present(u)
      BY <1>13, <2>1, <3>1
    <3> QED
      BY <1>12, <3>1, <3>2
  <2> QED
    BY <2>2, <2>3
<1> QED
  BY <1>7, <1>8, <1>9, <1>10, <1>11, <1>14, <1>15

LEMMA CreatingKeeps ==
  ASSUME IInv, NEW p \in Proc, CreateInsert(p) \/ Provision(p)
  PROVE  IInv'
<1>0. /\ TypeOK /\ ReqOK(p) /\ SerialOK(p) /\ raced \in BOOLEAN
      /\ \A u \in Uid : u >= nextUid => user[u] = NoRow
  BY DEF IInv, TypeOK
<1>1. ASSUME NEW n \in Name, NEW src \in Source, NEW w \in Pw, InsertUser(n, src, w)
      PROVE  /\ RowsKept /\ OldRowsSame /\ nextUid' = nextUid + 1
             /\ nextUid \in Uid /\ nextUid < nextUid' /\ nextUid # 0 /\ nextUid \in 0..MaxUsers
  <2>1. [name |-> n, src |-> src, pw |-> w, admin |-> FALSE, active |-> TRUE] \in Row
    BY DEF Row
  <2>2. nextUid \in Uid /\ nextUid' = nextUid + 1
    BY <1>1 DEF InsertUser
  <2>3. RowsKept /\ OldRowsSame
    BY <1>0, <1>1, <2>1, <2>2, InsertKeeps DEF InsertUser
  <2>4. nextUid \in Nat /\ nextUid # 0 /\ nextUid \in 0..MaxUsers
    BY <1>0, <2>2, Types
  <2> QED
    BY <2>2, <2>3, <2>4
<1>2. NoRow \in Row /\ 0 \in 0..MaxUsers /\ 0 < nextUid /\ nextUid \in Nat
  BY <1>0, NoRowType, Types, AccountConstants
<1>3. CASE CreateInsert(p)
  <2>1. PICK n \in Name, w \in Password : InsertUser(n, "local", w)
    BY <1>3 DEF CreateInsert
  <2>2. /\ RowsKept /\ OldRowsSame /\ nextUid' = nextUid + 1
        /\ nextUid \in Uid /\ nextUid < nextUid' /\ nextUid # 0 /\ nextUid \in 0..MaxUsers
    BY <1>1, <2>1 DEF Source, Pw
  <2>3. Landed(p) /\ UNCHANGED <<up, token, session>> /\ 0 < nextUid'
    BY <1>2, <1>3, <2>2 DEF CreateInsert, creds
  <2>4. CASE Done(p)
    <3>1. Goto(p, "idle") /\ Knows(p, NoRequest) /\ "idle" \in Step
      BY <2>4 DEF Done, Step
    <3> QED
      BY <1>0, <2>2, <2>3, <3>1, NoRequestType, ReadKeeps
  <2>5. CASE Goto(p, "created") /\ Knows(p, Asked(0, nextUid, NoRow))
    <3>1. LET r == Asked(0, nextUid, NoRow)
          IN  r \in Request /\ r.actor = 0 /\ r.uid = nextUid /\ r.row = NoRow
      BY <1>2, <2>2, AskedType
    <3> QED
      BY <1>0, <2>2, <2>3, <2>5, <3>1, ReadKeeps DEF Step
  <2> QED
    BY <1>3, <2>4, <2>5 DEF CreateInsert
<1>4. CASE Provision(p)
  <2>1. /\ pc[p] = "absent" /\ req[p].name # NoName /\ Goto(p, "refetch") /\ "refetch" \in Step
        /\ UNCHANGED <<up, token, session, raced>> /\ req[p] \in Request
        /\ req[p].name \in Name /\ req[p].src \in Source /\ req[p].uid < nextUid
        /\ req[p].actor < nextUid /\ req[p].kind \in {"none", "client", "admin"}
    BY <1>0, <1>4, Types DEF Provision, ReqOK, Step, creds
  <2>2. CASE InsertUser(req[p].name, req[p].src, NoPw)
             /\ Knows(p, Claimed(req[p].kind, req[p].name, req[p].src, nextUid, NoRow))
    <3>1. /\ RowsKept /\ OldRowsSame /\ nextUid' = nextUid + 1
          /\ nextUid \in Uid /\ nextUid < nextUid' /\ nextUid # 0 /\ nextUid \in 0..MaxUsers
      BY <1>1, <2>1, <2>2 DEF Pw
    <3>2. LET r == Claimed(req[p].kind, req[p].name, req[p].src, nextUid, NoRow)
          IN  r \in Request /\ r.actor = 0 /\ r.uid = nextUid /\ r.name = req[p].name
      BY <1>2, <2>1, <3>1, ClaimedType
    <3>3. 0 < nextUid'
      BY <1>2, <3>1
    <3> QED
      BY <1>0, <2>1, <2>2, <3>1, <3>2, <3>3, ReadKeeps
  <2>3. CASE UNCHANGED <<user, nextUid, req>>
    <3>1. Knows(p, req[p])
      BY <1>0, <2>3 DEF Knows, TypeOK
    <3>2. RowsKept /\ OldRowsSame
      BY <1>0, <2>3, SameKeeps
    <3> QED
      BY <1>0, <2>1, <2>3, <3>1, <3>2, ReadKeeps
  <2> QED
    BY <1>4, <2>2, <2>3 DEF Provision
<1> QED
  BY <1>3, <1>4

-----------------------------------------------------------------------------
(* The steps that hand out a credential.                                   *)
LEMMA GrantingKeeps ==
  ASSUME IInv, NEW p \in Proc, Issue(p) \/ OpenSession(p)
  PROVE  IInv'
<1>0. /\ TypeOK /\ ReqOK(p) /\ raced \in BOOLEAN
      /\ \A u \in Uid : u >= nextUid => user[u] = NoRow
      /\ CredentialsHaveOwners /\ ExternalNeverAdoptsLocal /\ AnAdminWhenSerial
  BY DEF IInv, TypeOK
<1>1. PICK u : u = req[p].uid
  OBVIOUS
<1>2. /\ UNCHANGED <<user, nextUid, raced, up>> /\ pc[p] = "found" /\ Present(u)
      /\ (req[p].src = "external" => req[p].row.src = "external") /\ Done(p)
  BY <1>1 DEF Issue, OpenSession, rows
<1>3. RowsKept /\ OldRowsSame
  BY <1>0, <1>2, SameKeeps
<1>4. u \in Uid /\ (req[p].src = "external" => user[u].src = "external")
  BY <1>0, <1>1, <1>2, Types DEF ReqOK
<1>5. Goto(p, "idle") /\ Knows(p, NoRequest) /\ pc'[p] = "idle" /\ req'[p] = NoRequest
  BY <1>0, <1>2 DEF Done, Goto, Knows, TypeOK
<1>6. ReqOK(p)' /\ SerialOK(p)'
  BY <1>0, <1>2, <1>5, NoRequestType, Types DEF ReqOK, SerialOK
<1>7. /\ token' \subseteq [uid : Uid, src : Source] /\ session' \subseteq Uid
      /\ CredentialsHaveOwners' /\ ExternalNeverAdoptsLocal'
  <2>1. CASE Issue(p)
    <3>1. PICK t : t = [uid |-> u, src |-> req[p].src]
      OBVIOUS
    <3>2. token' = token \cup {t} /\ session' = session
      BY <1>1, <2>1, <3>1 DEF Issue
    <3>3. /\ t \in [uid : Uid, src : Source] /\ t.uid = u
          /\ (t.src = "external" => user[u].src = "external")
      BY <1>0, <1>4, <3>1, Types
    <3> HIDE <3>1
    <3> QED
      BY <1>0, <1>2, <3>2, <3>3
      DEF TypeOK, CredentialsHaveOwners, ExternalNeverAdoptsLocal, Present
  <2>2. CASE OpenSession(p)
    <3>1. session' = session \cup {u} /\ token' = token
      BY <1>1, <2>2 DEF OpenSession
    <3> QED
      BY <1>0, <1>2, <1>4, <3>1
      DEF TypeOK, CredentialsHaveOwners, ExternalNeverAdoptsLocal, Present
  <2> QED
    BY <2>1, <2>2
<1>8. AnAdminWhenSerial'
  BY <1>0, <1>2 DEF AnAdminWhenSerial, AnAdmin
<1> QED
  BY <1>0, <1>2, <1>3, <1>5, <1>6, <1>7, <1>8, NoRequestType, StepKeeps DEF Step

-----------------------------------------------------------------------------
(* The steps that write a row.                                             *)

\* An administrator whose request has not overlapped with a write.
LEMMA ActorIsAdmin ==
  ASSUME IInv, NEW p \in Proc, pc[p] \in {"authed", "read"}, ~raced
  PROVE  /\ req[p].actor \in Uid /\ user[req[p].actor].admin /\ user[req[p].actor].active
BY Types DEF IInv, ReqOK, SerialOK

LEMMA WritingKeeps ==
  ASSUME IInv, NEW p \in Proc, Done(p), Landed(p), up' = up, nextUid' = nextUid,
         NEW u \in Uid, u < nextUid, NEW row \in Row, user' = [user EXCEPT ![u] = row],
         row.name = NoName \/ (row.name = user[u].name /\ row.src = user[u].src),
         token' \subseteq token, session' \subseteq session,
         row.name = NoName => (\A t \in token' : t.uid # u) /\ u \notin session',
         ~raced => (row.admin /\ row.active)
                   \/ \E a \in Uid \ {u} : user[a].admin /\ user[a].active
  PROVE  IInv'
<1>0. /\ TypeOK /\ raced \in BOOLEAN
      /\ \A x \in Uid : x >= nextUid => user[x] = NoRow
      /\ CredentialsHaveOwners /\ ExternalNeverAdoptsLocal
  BY DEF IInv, TypeOK
<1>1. RowsKept /\ user'[u] = row /\ \A x \in Uid \ {u} : user'[x] = user[x]
  BY <1>0, WriteKeeps
<1>2. Goto(p, "idle") /\ Knows(p, NoRequest) /\ pc'[p] = "idle" /\ req'[p] = NoRequest
  BY <1>0 DEF Done, Goto, Knows, TypeOK
<1>3. ReqOK(p)' /\ SerialOK(p)'
  BY <1>0, <1>2, NoRequestType, Types DEF ReqOK, SerialOK
<1>4. \A t \in token' : user'[t.uid].name # NoName
  <2>1. ASSUME NEW t \in token' PROVE user'[t.uid].name # NoName
    <3>1. t.uid \in Uid /\ user[t.uid].name # NoName
      BY <1>0 DEF TypeOK, CredentialsHaveOwners, Present
    <3> QED
      BY <1>1, <3>1
  <2> QED
    BY <2>1
<1>5. \A x \in session' : user'[x].name # NoName
  <2>1. ASSUME NEW x \in session' PROVE user'[x].name # NoName
    <3>1. x \in Uid /\ user[x].name # NoName
      BY <1>0 DEF TypeOK, CredentialsHaveOwners, Present
    <3> QED
      BY <1>1, <3>1
  <2> QED
    BY <2>1
<1>6. CredentialsHaveOwners' /\ ExternalNeverAdoptsLocal'
  BY <1>1, <1>4, <1>5, CredentialsStay
<1>7. AnAdminWhenSerial'
  BY <1>0, <1>1 DEF AnAdminWhenSerial, AnAdmin, Landed
<1>8. token' \subseteq [uid : Uid, src : Source] /\ session' \subseteq Uid
  BY <1>0 DEF TypeOK
<1> QED
  BY <1>1, <1>2, <1>3, <1>6, <1>7, <1>8, NoRequestType, StepKeeps DEF Step

LEMMA ChangingKeeps ==
  ASSUME IInv, NEW p \in Proc, UpdateWrite(p) \/ CreatePromote(p) \/ Delete(p)
  PROVE  IInv'
<1>0. /\ TypeOK /\ ReqOK(p) /\ SerialOK(p) /\ raced \in BOOLEAN /\ AnAdminWhenSerial
      /\ \A u \in Uid : u >= nextUid => user[u] = NoRow
  BY DEF IInv, TypeOK
<1>1. ASSUME Done(p), UNCHANGED <<user, nextUid, raced, up, token, session>> PROVE IInv'
  <2>1. Goto(p, "idle") /\ Knows(p, NoRequest) /\ "idle" \in Step
    BY <1>1 DEF Done, Step
  <2>2. RowsKept /\ OldRowsSame
    BY <1>0, <1>1, SameKeeps
  <2> QED
    BY <1>0, <1>1, <2>1, <2>2, NoRequestType, Types, ReadKeeps
<1>2. CASE UpdateWrite(p)
  <2>1. PICK u, old : u = req[p].uid /\ old = req[p].row
    OBVIOUS
  <2>2. PICK new \in Changes(old) :
          /\ u = req[p].actor => Allowed(old, new)
          /\ \/ /\ Present(u)
                /\ user' = [user EXCEPT ![u] = new]
                /\ token' = IF Revokes(old, new)
                              THEN {t \in token : t.uid # u} ELSE token
                /\ Landed(p)
             \/ ~Present(u) /\ UNCHANGED <<user, token, raced>>
    BY <1>2, <2>1 DEF UpdateWrite
  <2>3. pc[p] = "read" /\ Done(p) /\ UNCHANGED <<nextUid, session, up>>
    BY <1>2 DEF UpdateWrite
  <2>4. CASE ~Present(u)
    BY <1>1, <2>2, <2>3, <2>4
  <2>5. CASE Present(u)
    <3>1. /\ u \in Uid /\ old.name = user[u].name /\ old.src = user[u].src /\ old \in Row
          /\ (~raced => user[u] = old)
      BY <1>0, <2>1, <2>3, <2>5, Types DEF ReqOK, SerialOK
    <3>2. u < nextUid
      BY <2>5, <3>1, Numbered
    <3>3. new \in Row /\ new.name = old.name /\ new.src = old.src
      BY <2>2, <3>1 DEF Changes, Row, Pw
    <3>4. new.name # NoName
      BY <2>5, <3>1, <3>3 DEF Present
    <3>5. token' \subseteq token /\ session' \subseteq session /\ user' = [user EXCEPT ![u] = new]
          /\ Landed(p)
      BY <2>2, <2>3, <2>5
    <3>6. ASSUME ~raced
          PROVE  (new.admin /\ new.active) \/ \E a \in Uid \ {u} : user[a].admin /\ user[a].active
      <4>1. /\ req[p].actor \in Uid /\ user[req[p].actor].admin /\ user[req[p].actor].active
        BY <2>3, <3>6, ActorIsAdmin
      <4> QED
        BY <2>2, <3>1, <3>6, <4>1 DEF Allowed
    <3> QED
      BY <2>3, <3>1, <3>2, <3>3, <3>4, <3>5, <3>6, WritingKeeps
  <2> QED
    BY <2>4, <2>5
<1>3. CASE CreatePromote(p)
  <2>1. PICK u, old, new : u = req[p].uid /\ old = req[p].row /\ new = Promoted(old)
    OBVIOUS
  <2>2. /\ pc[p] = "promoting" /\ Done(p) /\ UNCHANGED <<nextUid, token, session, up>>
        /\ \/ /\ Present(u)
              /\ user' = [user EXCEPT ![u] = new]
              /\ Landed(p)
           \/ ~Present(u) /\ UNCHANGED <<user, raced>>
    BY <1>3, <2>1 DEF CreatePromote, creds
  <2>3. CASE ~Present(u)
    BY <1>1, <2>2, <2>3
  <2>4. CASE Present(u)
    <3>1. u \in Uid /\ old.name = user[u].name /\ old.src = user[u].src /\ old \in Row
      BY <1>0, <2>1, <2>2, <2>4, Types DEF ReqOK
    <3>2. u < nextUid
      BY <2>4, <3>1, Numbered
    <3>3. /\ new \in Row /\ new.name = old.name /\ new.src = old.src
          /\ new.admin = TRUE /\ new.active = TRUE
      BY <2>1, <3>1 DEF Promoted, Row
    <3>4. new.name # NoName
      BY <2>4, <3>1, <3>3 DEF Present
    <3> QED
      BY <2>2, <2>4, <3>1, <3>2, <3>3, <3>4, WritingKeeps
  <2> QED
    BY <2>3, <2>4
<1>4. CASE Delete(p)
  <2>1. PICK u \in Uid \ {req[p].actor} :
          Present(u) /\ user' = [user EXCEPT ![u] = NoRow] /\ Cascade(u)
    BY <1>4 DEF Delete
  <2>2. pc[p] = "authed" /\ Done(p) /\ Landed(p) /\ UNCHANGED <<nextUid, up>>
    BY <1>4 DEF Delete
  <2>3. /\ token' \subseteq token /\ session' \subseteq session
        /\ (\A t \in token' : t.uid # u) /\ u \notin session'
    BY <2>1 DEF Cascade
  <2>4. u < nextUid
    BY <2>1, Numbered
  <2>5. ASSUME ~raced PROVE \E a \in Uid \ {u} : user[a].admin /\ user[a].active
    BY <2>1, <2>2, <2>5, ActorIsAdmin
  <2> QED
    BY <2>1, <2>2, <2>3, <2>4, <2>5, NoRowType, WritingKeeps
<1> QED
  BY <1>2, <1>3, <1>4

-----------------------------------------------------------------------------
(* The end of a credential, and a restart.                                 *)
LEMMA ExpireKeeps == ASSUME IInv, Expire PROVE IInv'
<1>0. /\ TypeOK /\ raced \in BOOLEAN
      /\ \A u \in Uid : u >= nextUid => user[u] = NoRow
  BY DEF IInv, TypeOK
<1>1. /\ UNCHANGED <<user, nextUid, up, pc, req, raced>>
      /\ token' \subseteq token /\ session' \subseteq session
  BY DEF Expire, rows
<1>2. RowsKept /\ OldRowsSame
  BY <1>0, <1>1, SameKeeps
<1>3. /\ CredentialsHaveOwners' /\ ExternalNeverAdoptsLocal' /\ AnAdminWhenSerial'
      /\ token' \subseteq [uid : Uid, src : Source] /\ session' \subseteq Uid
  BY <1>0, <1>1, <1>2, AllStay
<1>4. \A p \in Proc : ReqOK(p)' /\ SerialOK(p)'
  BY <1>1 DEF IInv, ReqOK, SerialOK, Present
<1> QED
  BY <1>0, <1>1, <1>3, <1>4 DEF IInv, TypeOK

LEMMA RestartKeeps == ASSUME IInv, Restart PROVE IInv'
<1>0. /\ TypeOK /\ raced \in BOOLEAN /\ AnAdminWhenSerial
      /\ \A u \in Uid : u >= nextUid => user[u] = NoRow
  BY DEF IInv, TypeOK
<1>1. /\ pc' = [p \in Proc |-> "idle"] /\ req' = [p \in Proc |-> NoRequest]
      /\ UNCHANGED <<token, session, raced>> /\ up' \in BOOLEAN
  BY DEF Restart, creds
<1>2. RowsKept /\ OldRowsSame
  <2>1. CASE UNCHANGED rows
    BY <1>0, <2>1, SameKeeps DEF rows
  <2>2. CASE ~UNCHANGED rows
    <3>1. PICK w \in Password : user' = [user EXCEPT ![nextUid] = BootRow(w)]
      BY <2>2 DEF Restart
    <3>2. nextUid \in Uid /\ nextUid' = nextUid + 1
      BY <2>2 DEF Restart
    <3>3. BootRow(w) \in Row
      BY AccountConstants DEF BootRow, Row, Pw, Source
    <3> QED
      BY <1>0, <3>1, <3>2, <3>3, InsertKeeps
  <2> QED
    BY <2>1, <2>2
<1>3. /\ CredentialsHaveOwners' /\ ExternalNeverAdoptsLocal' /\ AnAdminWhenSerial'
      /\ token' \subseteq [uid : Uid, src : Source] /\ session' \subseteq Uid
  BY <1>0, <1>1, <1>2, AllStay
<1>4. ASSUME NEW p \in Proc PROVE ReqOK(p)' /\ SerialOK(p)'
  <2>1. pc'[p] = "idle" /\ req'[p] = NoRequest
    BY <1>1
  <2>2. 0 < nextUid'
    BY <1>0, <1>2, Types, AccountConstants DEF RowsKept
  <2> QED
    BY <2>1, <2>2, NoRequestType DEF ReqOK, SerialOK
<1>5. TypeOK'
  <2>1. pc' \in [Proc -> Step] /\ req' \in [Proc -> Request]
    BY <1>1, NoRequestType DEF Step
  <2> QED
    BY <1>0, <1>1, <1>2, <1>3, <2>1 DEF TypeOK, RowsKept
<1>6. \A u \in Uid : u >= nextUid' => user'[u] = NoRow
  BY <1>2 DEF RowsKept
<1> QED
  BY <1>3, <1>4, <1>5, <1>6 DEF IInv

-----------------------------------------------------------------------------
(* Every reachable state satisfies IInv, in any interleaving of            *)
(* administrators, logins, logouts and restarts.                           *)
THEOREM AccountsInvariance == Spec => []IInv
<1>1. Init => IInv
  <2> SUFFICES ASSUME Init PROVE IInv
    OBVIOUS
  <2>1. PICK w \in Password : user = [u \in Uid |-> IF u = 1 THEN BootRow(w) ELSE NoRow]
    BY DEF Init
  <2>2. /\ nextUid = 2 /\ token = {} /\ session = {} /\ up = TRUE /\ raced = FALSE
        /\ pc = [p \in Proc |-> "idle"] /\ req = [p \in Proc |-> NoRequest]
    BY DEF Init
  <2>3. BootRow(w) \in Row /\ BootRow(w).admin /\ BootRow(w).active
    BY AccountConstants DEF BootRow, Row, Pw, Source
  <2>4. 1 \in Uid /\ 2 \in 1..(MaxUsers + 1) /\ \A u \in Uid : u >= 2 => u # 1
    BY AccountConstants DEF Uid
  <2>5. TypeOK
    BY <2>1, <2>2, <2>3, <2>4, NoRowType, NoRequestType DEF TypeOK, Step
  <2>6. AnAdminWhenSerial
    BY <2>1, <2>3, <2>4 DEF AnAdminWhenSerial, AnAdmin
  <2>7. \A p \in Proc : ReqOK(p) /\ SerialOK(p)
    BY <2>2, NoRequestType DEF ReqOK, SerialOK
  <2> QED
    BY <2>1, <2>2, <2>4, <2>5, <2>6, <2>7
    DEF IInv, CredentialsHaveOwners, ExternalNeverAdoptsLocal
<1>2. IInv /\ [Next]_vars => IInv'
  <2> SUFFICES ASSUME IInv, [Next]_vars PROVE IInv'
    OBVIOUS
  <2>1. ASSUME NEW p \in Proc, Admin(p) PROVE IInv'
    BY <2>1, LookingKeeps, CreatingKeeps, ChangingKeeps DEF Admin
  <2>2. ASSUME NEW p \in Proc, Login(p) PROVE IInv'
    BY <2>2, LookingKeeps, CreatingKeeps, GrantingKeeps DEF Login
  <2>3. CASE Expire
    BY <2>3, ExpireKeeps
  <2>4. CASE Restart
    BY <2>4, RestartKeeps
  <2>5. CASE UNCHANGED vars
    BY <2>5 DEF vars, IInv, TypeOK, CredentialsHaveOwners, ExternalNeverAdoptsLocal,
        AnAdminWhenSerial, AnAdmin, ReqOK, SerialOK, Present
  <2> QED
    BY <2>1, <2>2, <2>3, <2>4, <2>5 DEF Next
<1> QED
  BY <1>1, <1>2, PTL DEF Spec

(* The types of the rows, the credentials and the requests.                *)
THEOREM AccountTypes == Spec => []TypeOK
<1>1. IInv => TypeOK
  BY DEF IInv
<1> QED
  BY <1>1, AccountsInvariance, PTL

(* The foreign keys: a login in flight while its account is deleted leaves *)
(* no token and no session behind.                                         *)
THEOREM OwnersExist == Spec => []CredentialsHaveOwners
<1>1. IInv => CredentialsHaveOwners
  BY DEF IInv
<1> QED
  BY <1>1, AccountsInvariance, PTL

(* provisionUser: "an external identity must never adopt the local row".   *)
THEOREM NoAdoption == Spec => []ExternalNeverAdoptsLocal
<1>1. IInv => ExternalNeverAdoptsLocal
  BY DEF IInv
<1> QED
  BY <1>1, AccountsInvariance, PTL

(* Administrators whose requests do not overlap do not lock themselves     *)
(* out.                                                                    *)
THEOREM SerialAdministrationKeepsAnAdmin == Spec => []AnAdminWhenSerial
<1>1. IInv => AnAdminWhenSerial
  BY DEF IInv
<1> QED
  BY <1>1, AccountsInvariance, PTL

(* DeleteUser never takes the last administrator, however many deletes     *)
(* there are at once (C-17).                                               *)
THEOREM LastAdminIsNotDeleted == Spec => DeletesLeaveAnAdmin
<1> DEFINE Gone == \E u \in Uid : Present(u) /\ ~Present(u)'
<1>1. ASSUME IInv, [Next]_vars, Admins # {}, NEW u \in Uid, Present(u), ~Present(u)'
      PROVE  Admins' # {}
  <2>1. TypeOK /\ user \in [Uid -> Row] /\ u < nextUid /\ Admins \subseteq Uid
    BY <1>1, Numbered DEF IInv, TypeOK, Admins
  <2>2. ASSUME NEW p \in Proc, Delete(p) PROVE Admins' # {}
    <3>1. PICK v \in Uid : Present(v) /\ Removable(v) /\ user' = [user EXCEPT ![v] = NoRow]
      BY <2>2 DEF Delete
    <3>2. \A x \in Uid \ {v} : user'[x] = user[x]
      BY <2>1, <3>1
    <3>3. Admins \ {v} # {}
      <4>1. CASE user[v].admin
        BY <3>1, <4>1, FS_EmptySet DEF Removable
      <4>2. CASE ~user[v].admin
        BY <1>1, <4>2 DEF Admins
      <4> QED
        BY <4>1, <4>2
    <3> QED
      BY <2>1, <3>2, <3>3 DEF Admins
  <2>3. CASE OldRowsSame
    BY <1>1, <2>1, <2>3 DEF OldRowsSame, Present
  <2>4. ASSUME NEW p \in Proc, UpdateWrite(p) PROVE FALSE
    <3>1. PICK new \in Changes(req[p].row) :
            user' = [user EXCEPT ![req[p].uid] = new] \/ user' = user
      BY <2>4 DEF UpdateWrite
    <3>2. new.name = req[p].row.name /\ req[p].row.name # NoName
      BY <1>1, <2>4, <3>1 DEF UpdateWrite, Changes, IInv, ReqOK
    <3> QED
      BY <1>1, <2>1, <3>1, <3>2 DEF Present
  <2>5. ASSUME NEW p \in Proc, CreatePromote(p) PROVE FALSE
    <3>1. user' = [user EXCEPT ![req[p].uid] = Promoted(req[p].row)] \/ user' = user
      BY <2>5 DEF CreatePromote
    <3>2. Promoted(req[p].row).name # NoName
      BY <1>1, <2>5 DEF CreatePromote, Promoted, IInv, ReqOK
    <3> QED
      BY <1>1, <2>1, <3>1, <3>2 DEF Present
  <2>6. CASE user' = user
    BY <1>1, <2>6 DEF Present
  <2>7. ASSUME NEW p \in Proc, CreateInsert(p) \/ Provision(p), user' # user PROVE OldRowsSame
    <3>1. PICK row : user' = [user EXCEPT ![nextUid] = row]
      BY <2>7 DEF CreateInsert, Provision, InsertUser
    <3>2. nextUid \in Nat
      BY <2>1, Types
    <3>3. \A x \in Uid : x < nextUid => x # nextUid
      BY <2>1, <3>2, Types
    <3> QED
      BY <2>1, <3>1, <3>3 DEF OldRowsSame
  <2>8. CASE Restart
    <3>1. user' = user \/ \E row : user' = [user EXCEPT ![nextUid] = row]
      BY <2>8 DEF Restart, rows
    <3>2. \A x \in Uid : x < nextUid => x # nextUid
      BY <2>1, Types
    <3> QED
      BY <2>1, <2>3, <2>6, <3>1, <3>2 DEF OldRowsSame
  <2>9. ASSUME NEW p \in Proc, Admin(p), user' # user, ~OldRowsSame PROVE Admins' # {}
    BY <2>2, <2>4, <2>5, <2>7, <2>9
    DEF Admin, Authenticate, UpdateRead, CreateRead, Return, rows
  <2>10. ASSUME NEW p \in Proc, Login(p), user' # user PROVE OldRowsSame
    BY <2>7, <2>10 DEF Login, Verify, Lookup, Refetch, Issue, OpenSession, Refuse, rows
  <2>11. CASE Expire \/ UNCHANGED vars
    BY <2>6, <2>11 DEF Expire, rows, vars
  <2> QED
    BY <1>1, <2>3, <2>6, <2>8, <2>9, <2>10, <2>11 DEF Next
<1>2. IInv /\ [Next]_vars => [Admins # {} /\ Gone => Admins' # {}]_vars
  BY <1>1
<1> QED
  BY <1>2, AccountsInvariance, PTL DEF Spec, DeletesLeaveAnAdmin

(* A change of password, a demotion and a disabling leave no older token   *)
(* alive (UpdateUserRevokingTokens), if no other write has landed since    *)
(* the row was read.                                                       *)
THEOREM WeakeningRevokes == Spec => ChangesRevoke
<1>1. ASSUME IInv, [Next]_vars, ~raced', NEW u \in Uid, Weakened(u), NEW t \in token'
      PROVE  t.uid # u
  <2>1. TypeOK /\ user \in [Uid -> Row] /\ user[u] \in Row /\ u < nextUid
    BY <1>1, Numbered DEF IInv, TypeOK, Weakened
  <2>2. user'[u] # user[u] /\ Present(u) /\ Present(u)'
    BY <1>1 DEF Weakened
  <2>3. ASSUME NEW p \in Proc, UpdateWrite(p) PROVE t.uid # u
    <3>1. PICK old, new : /\ old = req[p].row /\ new \in Changes(old)
                          /\ \/ /\ Present(req[p].uid)
                                /\ user' = [user EXCEPT ![req[p].uid] = new]
                                /\ token' = IF Revokes(old, new)
                                              THEN {s \in token : s.uid # req[p].uid} ELSE token
                                /\ Landed(p)
                             \/ ~Present(req[p].uid) /\ UNCHANGED <<user, token, raced>>
      BY <2>3 DEF UpdateWrite
    <3>2. /\ req[p].uid = u /\ user'[u] = new /\ Landed(p)
          /\ token' = IF Revokes(old, new) THEN {s \in token : s.uid # u} ELSE token
      BY <2>1, <2>2, <3>1
    <3>3. user[u] = old
      BY <1>1, <2>3, <3>1, <3>2 DEF UpdateWrite, IInv, SerialOK, Landed
    <3>4. Revokes(old, new)
      BY <1>1, <3>2, <3>3 DEF Weakened, Revokes
    <3> QED
      BY <3>2, <3>4
  <2>4. ASSUME NEW p \in Proc, CreatePromote(p) PROVE FALSE
    <3>1. \/ user' = user
          \/ user' = [user EXCEPT ![req[p].uid] = Promoted(req[p].row)] /\ Landed(p)
      BY <2>4 DEF CreatePromote
    <3>2. /\ req[p].uid = u /\ user'[u] = Promoted(req[p].row) /\ Landed(p)
      BY <2>1, <2>2, <3>1
    <3>3. user[u] = req[p].row
      BY <1>1, <2>4, <3>2 DEF CreatePromote, IInv, SerialOK, Landed
    <3> QED
      BY <1>1, <3>2, <3>3 DEF Weakened, Promoted
  <2>5. ASSUME NEW p \in Proc, Delete(p) PROVE FALSE
    <3>1. PICK v \in Uid : user' = [user EXCEPT ![v] = NoRow]
      BY <2>5 DEF Delete
    <3> QED
      BY <2>1, <2>2, <3>1, NoRowType DEF Present
  <2>6. ASSUME NEW row, user' = [user EXCEPT ![nextUid] = row] PROVE FALSE
    <3>1. u # nextUid
      BY <2>1, Types
    <3> QED
      BY <2>1, <2>2, <2>6, <3>1
  <2>7. ASSUME NEW p \in Proc, CreateInsert(p) \/ Provision(p) PROVE FALSE
    BY <2>2, <2>6, <2>7 DEF CreateInsert, Provision, InsertUser
  <2>8. ASSUME NEW p \in Proc, Login(p) PROVE FALSE
    BY <2>2, <2>7, <2>8 DEF Login, Verify, Lookup, Refetch, Issue, OpenSession, Refuse, rows
  <2>9. ASSUME NEW p \in Proc, Admin(p) PROVE t.uid # u
    BY <2>2, <2>3, <2>4, <2>5, <2>7, <2>9
    DEF Admin, Authenticate, UpdateRead, CreateRead, Return, rows
  <2>10. CASE Restart
    BY <2>2, <2>6, <2>10 DEF Restart, rows
  <2>11. CASE Expire \/ UNCHANGED vars
    BY <2>2, <2>11 DEF Expire, rows, vars
  <2> QED
    BY <1>1, <2>8, <2>9, <2>10, <2>11 DEF Next
<1>2. IInv /\ [Next]_vars =>
        [~raced' => \A u \in Uid : Weakened(u) => \A t \in token' : t.uid # u]_vars
  BY <1>1
<1> QED
  BY <1>2, AccountsInvariance, PTL DEF Spec, ChangesRevoke
=============================================================================
