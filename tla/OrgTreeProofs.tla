---------------------------- MODULE OrgTreeProofs ----------------------------
(***************************************************************************)
(* Proofs about OrgTree, for any requests, users, names and bounds.  IInv  *)
(* and TreeInv, the inductive invariants, are defined and explained there. *)
(***************************************************************************)
EXTENDS OrgTree, FiniteSetTheorems, WellFoundedInduction, TLAPS

-----------------------------------------------------------------------------
(* What a request has read, and what others leave of it.                   *)
Others(h) == \A g \in Handler \ {h} : pc'[g] = pc[g] /\ req'[g] = req[g]

LEMMA ReadsType ==
  ASSUME TypeOK, NEW h \in Handler, NEW s \in Position, NEW r \in Request, Reads(h, s, r)
  PROVE  /\ pc' \in [Handler -> Position] /\ req' \in [Handler -> Request]
         /\ pc'[h] = s /\ req'[h] = r /\ Others(h)
BY DEF TypeOK, Reads, Others

LEMMA AskedType ==
  ASSUME NEW d \in 0..MaxDepts, NEW n \in Name \cup {NoName}, NEW p \in 0..MaxDepts,
         NEW ns \in SUBSET Name
  PROVE  /\ Asked(d, n, p, ns) \in Request
         /\ Asked(d, n, p, ns).id = d /\ Asked(d, n, p, ns).old = n
         /\ Asked(d, n, p, ns).parent = p /\ Asked(d, n, p, ns).names = ns
BY DEF Asked, Request

LEMMA NothingAsked ==
  NoRequest \in Request /\ NoRequest.parent = 0 /\ 0 \in 0..MaxDepts
<1>1. 0 \in 0..MaxDepts
  BY OrgConstants
<1> QED
  BY <1>1, AskedType DEF NoRequest

LEMMA RowTypes ==
  ASSUME TypeOK
  PROVE  /\ Row \subseteq Id /\ Id \subseteq 0..MaxDepts /\ 0 \notin Id
         /\ \A d \in Row : name[d] \in Name
BY OrgConstants DEF TypeOK, Row, Id

\* A write: no request of the others is under way, or one has been raced.
LEMMA Landing ==
  ASSUME TypeOK, NEW h \in Handler, Landed(h), Others(h), pc'[h] = "idle"
  PROVE  /\ raced' \in BOOLEAN
         /\ ~raced' => ~raced /\ \A g \in Handler : pc'[g] = "idle"
<1>1. raced' = (raced \/ \E g \in Handler \ {h} : pc[g] # "idle")
  BY DEF Landed
<1>2. raced' \in BOOLEAN
  BY <1>1, Zenon
<1>3. ASSUME ~raced' PROVE ~raced /\ \A g \in Handler : pc'[g] = "idle"
  BY <1>1, <1>3, Zenon DEF Others
<1> QED
  BY <1>2, <1>3

-----------------------------------------------------------------------------
(* Rows are added: what is known of the old ones stays.                    *)
Grows ==
  /\ name' \in [Id -> Name \cup {NoName}] /\ parent' \in [Id -> 0..MaxDepts]
  /\ leader' \in [Id -> User \cup {NoUser}] /\ nextId' \in 1..(MaxDepts + 1)
  /\ nextId <= nextId'
  /\ Row \subseteq Row' /\ \A d \in Row : name'[d] = name[d] /\ parent'[d] = parent[d]
  /\ \A d \in Row' \ Row : /\ nextId <= d /\ d < nextId' /\ parent'[d] < nextId
                           /\ ~raced => parent'[d] \in Row \cup {0}
  /\ \A d \in Id \ Row' : parent'[d] = 0
  /\ \A d, e \in Row' : name'[d] = name'[e] => d = e

LEMMA GrownRows ==
  ASSUME TypeOK, RowsOK, Grows
  PROVE  RowsOK'
<1>1. /\ nextId \in 1..(MaxDepts + 1) /\ nextId' \in 1..(MaxDepts + 1) /\ MaxDepts \in Nat
      /\ nextId <= nextId' /\ parent \in [Id -> 0..MaxDepts] /\ parent' \in [Id -> 0..MaxDepts]
      /\ Row' \subseteq Id
  BY OrgConstants DEF TypeOK, Grows, Row
<1>2. ASSUME NEW d \in Row' PROVE d < nextId' /\ parent'[d] < nextId'
  <2>1. CASE d \in Row
    <3>1. d < nextId /\ parent[d] < nextId /\ parent'[d] = parent[d] /\ d \in Id
      BY <2>1 DEF RowsOK, Grows, Row
    <3> QED
      BY <1>1, <3>1 DEF Id
  <2>2. CASE d \notin Row
    <3>1. d < nextId' /\ parent'[d] < nextId /\ parent'[d] \in 0..MaxDepts
      BY <1>1, <1>2, <2>2 DEF Grows
    <3> QED
      BY <1>1, <3>1
  <2> QED
    BY <2>1, <2>2
<1>3. \A d, e \in Row' : name'[d] = name'[e] => d = e
  BY DEF Grows
<1>4. \A d \in Id : d \notin Row' => parent'[d] = 0
  BY DEF Grows
<1> QED
  BY <1>2, <1>3, <1>4 DEF RowsOK

LEMMA GrownReferences ==
  ASSUME TypeOK, RowsOK, Grows, ParentsResolve, ~raced PROVE ParentsResolve'
BY DEF Grows, ParentsResolve

\* A name that meant a department still means it.
LEMMA GrownNames ==
  ASSUME TypeOK, RowsOK, Grows, NEW n, NEW d, Holder(n) = {d} PROVE Holder(n)' = {d}
<1>1. d \in Row /\ name[d] = n
  BY DEF Holder
<1>2. d \in Row' /\ name'[d] = n
  BY <1>1 DEF Grows
<1> QED
  BY <1>2 DEF Holder, Grows

LEMMA GrownTree ==
  ASSUME TypeOK, RowsOK, Grows, Acyclic PROVE Acyclic'
<1> SUFFICES ASSUME NEW S \in SUBSET (Row'), S # {}
             PROVE  \E d \in S : parent'[d] \notin S
  BY DEF Acyclic
<1>1. /\ \A d \in Row : parent'[d] = parent[d] /\ parent[d] < nextId
      /\ \A d \in Row' \ Row : nextId <= d /\ parent'[d] < nextId
  BY DEF Grows, RowsOK
<1>2. nextId \in Nat /\ Row' \subseteq Nat /\ parent' \in [Id -> Nat] /\ Row' \subseteq Id
  BY OrgConstants DEF TypeOK, Id, Row, Grows
<1>3. \A d \in Row' : parent'[d] \notin Row' \ Row
  <2> SUFFICES ASSUME NEW d \in Row', parent'[d] \in Row' \ Row PROVE FALSE
    OBVIOUS
  <2>1. parent'[d] < nextId /\ nextId <= parent'[d] /\ parent'[d] \in Nat
    BY <1>1, <1>2
  <2> QED
    BY <1>2, <2>1
<1>4. CASE S \cap Row = {}
  BY <1>3, <1>4
<1>5. CASE S \cap Row # {}
  <2>1. PICK d \in S \cap Row : parent[d] \notin S \cap Row
    BY <1>5 DEF Acyclic
  <2>2. parent'[d] \notin S
    BY <1>1, <1>3, <2>1
  <2> QED
    BY <2>1, <2>2
<1> QED
  BY <1>4, <1>5

\* p is not below d when a set that d's subtree lies in does not hold it.
LEMMA NotBelow ==
  ASSUME NEW d \in Id, NEW p \in 0..MaxDepts
  PROVE  /\ p \notin Subtree(d) <=> (p \notin Id \/ \E S \in SUBSET Id : d \in S /\ Closed(S) /\ p \notin S)
         /\ (p \notin Subtree(d))' <=> (p \notin Id \/ \E S \in SUBSET Id : d \in S /\ Closed(S)' /\ p \notin S)
BY DEF Subtree

LEMMA GrownBelow ==
  ASSUME TypeOK, RowsOK, Grows, NEW d \in Id, NEW p \in 0..MaxDepts, p < nextId,
         p \notin Subtree(d)
  PROVE  (p \notin Subtree(d))'
<1> SUFFICES ASSUME p \in Id
             PROVE  \E S \in SUBSET Id : d \in S /\ Closed(S)' /\ p \notin S
  BY NotBelow
<1>1. PICK S \in SUBSET Id : d \in S /\ Closed(S) /\ p \notin S
  BY NotBelow
<1>2. /\ \A x \in Row : parent'[x] = parent[x] /\ parent[x] < nextId /\ parent[x] \in Nat
      /\ \A x \in Row' \ Row : nextId <= x /\ x \in Nat
      /\ nextId \in Nat /\ Row' \subseteq Id
  BY OrgConstants DEF TypeOK, Id, Row, Grows, RowsOK
<1>3. PICK T \in SUBSET Id : T = S \cup (Row' \ Row)
  BY <1>1, <1>2
<1>4. d \in T /\ p \notin T
  <2>1. p \notin Row' \ Row
    BY <1>2 DEF Id
  <2> QED
    BY <1>1, <1>3, <2>1
<1>5. Closed(T)'
  <2> SUFFICES ASSUME NEW x \in Row', parent'[x] \in T PROVE x \in T
    BY DEF Closed
  <2>1. CASE x \in Row
    <3>1. parent[x] \notin Row' \ Row
      BY <1>2, <2>1
    <3>2. parent[x] \in S
      BY <1>2, <1>3, <2>1, <3>1
    <3>3. x \in S
      BY <1>1, <2>1, <3>2 DEF Closed
    <3> QED
      BY <1>3, <3>3
  <2> QED
    BY <1>3, <2>1
<1> QED
  BY <1>4, <1>5

\* INSERT INTO groups, below a row or at the top.
LEMMA InsertGrows ==
  ASSUME TypeOK, RowsOK, NEW n \in Name, NEW p \in 0..MaxDepts, NEW l \in User \cup {NoUser},
         Insert(n, p, l), p < nextId, ~raced => p \in Row \cup {0}
  PROVE  Grows
<1>1. /\ nextId \in Id /\ Holder(n) = {}
      /\ name' = [name EXCEPT ![nextId] = n]
      /\ parent' = [parent EXCEPT ![nextId] = p]
      /\ leader' = [leader EXCEPT ![nextId] = l]
      /\ nextId' = nextId + 1
  BY DEF Insert
<1>2. /\ nextId \notin Row /\ MaxDepts \in Nat /\ nextId \in 1..MaxDepts
      /\ nextId' \in 1..(MaxDepts + 1) /\ nextId <= nextId' /\ nextId < nextId' /\ nextId <= nextId
  <2>1. nextId \notin Row
    BY <1>1 DEF RowsOK, Id
  <2> QED
    BY <1>1, <2>1, OrgConstants DEF Id
<1>3. /\ name' \in [Id -> Name \cup {NoName}] /\ parent' \in [Id -> 0..MaxDepts]
      /\ leader' \in [Id -> User \cup {NoUser}]
  BY <1>1 DEF TypeOK
<1>4. /\ Row' = Row \cup {nextId} /\ name'[nextId] = n /\ parent'[nextId] = p
      /\ \A d \in Id \ {nextId} : name'[d] = name[d] /\ parent'[d] = parent[d]
  BY <1>1, OrgConstants DEF TypeOK, Row
<1>5. \A d, e \in Row' : name'[d] = name'[e] => d = e
  <2>1. \A d \in Row : name[d] # n
    BY <1>1 DEF Holder
  <2>2. Row \subseteq Id \ {nextId}
    BY <1>2 DEF Row
  <2> QED
    BY <1>4, <2>1, <2>2 DEF RowsOK
<1>6. \A d \in Id \ Row' : parent'[d] = 0
  BY <1>4 DEF RowsOK
<1>7. Row \subseteq Row' /\ \A d \in Row : name'[d] = name[d] /\ parent'[d] = parent[d]
  BY <1>2, <1>4 DEF Row
<1>8. \A d \in Row' \ Row : /\ nextId <= d /\ d < nextId' /\ parent'[d] < nextId
                            /\ ~raced => parent'[d] \in Row \cup {0}
  <2>1. \A d \in Row' \ Row : d = nextId
    BY <1>4
  <2> QED
    BY <1>2, <1>4, <2>1
<1> QED
  BY <1>2, <1>3, <1>5, <1>6, <1>7, <1>8 DEF Grows

\* GetOrCreateGroup for each of the names.
LEMMA CreateMissingGrows ==
  ASSUME TypeOK, RowsOK, NEW names \in SUBSET Name, CreateMissing(names)
  PROVE  Grows /\ Synced(names) \subseteq Row'
<1> DEFINE missing == {n \in names : Holder(n) = {}}
           c == Cardinality(missing)
           new == nextId..(nextId + c - 1)
<1>1. /\ new \subseteq Id /\ nextId' = nextId + c /\ UNCHANGED <<parent, leader>>
  BY DEF CreateMissing
<1>2. PICK f \in [new -> missing] :
        /\ \A d, e \in new : f[d] = f[e] => d = e
        /\ name' = [d \in Id |-> IF d \in new THEN f[d] ELSE name[d]]
  BY DEF CreateMissing
<1>3. c \in Nat
  <2>1. missing \in SUBSET Name /\ IsFiniteSet(Name)
    BY OrgConstants
  <2>2. IsFiniteSet(missing)
    BY <2>1, FS_Subset
  <2> QED
    BY <2>2, FS_CardinalityType
<1>4. nextId \in 1..(MaxDepts + 1) /\ MaxDepts \in Nat
  BY OrgConstants DEF TypeOK
<1> HIDE DEF c
<1>5. nextId' \in 1..(MaxDepts + 1) /\ nextId <= nextId'
  <2>1. CASE c = 0
    BY <1>1, <1>4, <2>1
  <2>2. CASE c # 0
    <3>1. nextId + c - 1 \in new
      BY <1>3, <1>4, <2>2
    <3>2. nextId + c - 1 \in 1..MaxDepts
      BY <1>1, <3>1 DEF Id
    <3> QED
      BY <1>1, <1>3, <1>4, <3>2
  <2> QED
    BY <2>1, <2>2
<1>6. \A d \in new : nextId <= d /\ d < nextId' /\ d \notin Row
  <2>1. \A d \in new : nextId <= d /\ d < nextId'
    BY <1>1, <1>3, <1>4
  <2>2. \A d \in Row : d < nextId /\ d \in Nat
    BY DEF RowsOK, Row, Id
  <2> QED
    BY <1>3, <1>4, <2>1, <2>2
<1> HIDE DEF new
<1>7. name' \in [Id -> Name \cup {NoName}]
  BY <1>2 DEF TypeOK
<1>8. /\ \A d \in new : name'[d] = f[d] /\ f[d] \in Name /\ f[d] \in missing
      /\ \A d \in Id \ new : name'[d] = name[d]
  BY <1>1, <1>2
<1>9. Row' = Row \cup new
  BY <1>1, <1>6, <1>8, OrgConstants DEF Row
<1>10. \A d, e \in Row' : name'[d] = name'[e] => d = e
  <2> SUFFICES ASSUME NEW d \in Row', NEW e \in Row', name'[d] = name'[e] PROVE d = e
    OBVIOUS
  <2>1. \A x \in Row, n \in missing : name[x] # n
    BY DEF Holder
  <2>2. CASE d \in new /\ e \in new
    BY <1>2, <1>8, <2>2
  <2>3. CASE d \in Row /\ e \in Row
    BY <1>6, <1>8, <2>3 DEF RowsOK, Row
  <2>4. CASE d \in Row /\ e \in new
    BY <1>6, <1>8, <2>1, <2>4 DEF Row
  <2>5. CASE d \in new /\ e \in Row
    BY <1>6, <1>8, <2>1, <2>5 DEF Row
  <2> QED
    BY <1>9, <2>2, <2>3, <2>4, <2>5
<1>11. parent' = parent /\ leader' = leader /\ 0 < nextId
  BY <1>1, <1>4
<1>12. \A d \in Row' \ Row : parent'[d] = 0
  BY <1>9, <1>11 DEF RowsOK, Row
<1>13. Grows
  <2>1. \A d \in Row' \ Row : /\ nextId <= d /\ d < nextId' /\ parent'[d] < nextId
                              /\ ~raced => parent'[d] \in Row \cup {0}
    BY <1>6, <1>9, <1>11, <1>12
  <2>2. \A d \in Row : name'[d] = name[d] /\ parent'[d] = parent[d]
    BY <1>6, <1>8, <1>11 DEF Row
  <2>3. \A d \in Id \ Row' : parent'[d] = 0
    BY <1>9, <1>11 DEF RowsOK
  <2>4. /\ parent' \in [Id -> 0..MaxDepts] /\ leader' \in [Id -> User \cup {NoUser}]
        /\ Row \subseteq Row'
    BY <1>9, <1>11 DEF TypeOK
  <2> QED
    BY <1>5, <1>7, <1>10, <2>1, <2>2, <2>3, <2>4 DEF Grows
<1>14. Synced(names) \subseteq Row'
  BY <1>7, OrgConstants DEF Synced, Row
<1> QED
  BY <1>13, <1>14

-----------------------------------------------------------------------------
(* What a step does to the tree.                                           *)
Shrinks ==
  /\ raced' \in BOOLEAN /\ nextId' = nextId
  /\ \E d \in Row : /\ Unused(d)
                    /\ name' = [name EXCEPT ![d] = NoName]
                    /\ parent' = [parent EXCEPT ![d] = 0]
                    /\ leader' = [leader EXCEPT ![d] = NoUser]
Moves(h) ==
  /\ pc[h] = "checked" /\ pc'[h] = "idle" /\ nextId' = nextId
  /\ LET d == req[h].id
     IN /\ d \in Row
        /\ parent' = [parent EXCEPT ![d] = req[h].parent]
        /\ \E n \in Name, l \in User \cup {NoUser} :
             /\ Holder(n) \subseteq {d}
             /\ name' = [name EXCEPT ![d] = n]
             /\ leader' = [leader EXCEPT ![d] = l]

LEMMA ShrunkRows ==
  ASSUME TypeOK, RowsOK, NEW d \in Row, nextId' = nextId,
         name' = [name EXCEPT ![d] = NoName],
         parent' = [parent EXCEPT ![d] = 0],
         leader' = [leader EXCEPT ![d] = NoUser]
  PROVE  /\ name' \in [Id -> Name \cup {NoName}] /\ parent' \in [Id -> 0..MaxDepts]
         /\ leader' \in [Id -> User \cup {NoUser}] /\ nextId' \in 1..(MaxDepts + 1)
         /\ Row' = Row \ {d} /\ RowsOK'
         /\ \A x \in Row' : name'[x] = name[x] /\ parent'[x] = parent[x]
<1>1. 0 \in 0..MaxDepts
  BY OrgConstants
<1>2. /\ name' \in [Id -> Name \cup {NoName}] /\ parent' \in [Id -> 0..MaxDepts]
      /\ leader' \in [Id -> User \cup {NoUser}] /\ nextId' \in 1..(MaxDepts + 1)
  BY <1>1 DEF TypeOK
<1>3. Row' = Row \ {d} /\ \A x \in Row' : name'[x] = name[x] /\ parent'[x] = parent[x]
  BY DEF TypeOK, Row
<1>4. \A x \in Id : x \notin Row' => parent'[x] = 0
  BY <1>3 DEF TypeOK, RowsOK
<1>5. RowsOK'
  BY <1>3, <1>4 DEF RowsOK
<1> QED
  BY <1>2, <1>3, <1>5

LEMMA MovedRows ==
  ASSUME TypeOK, RowsOK, NEW d \in Row, NEW p \in 0..MaxDepts, p < nextId, NEW n \in Name,
         NEW l \in User \cup {NoUser}, Holder(n) \subseteq {d}, nextId' = nextId,
         name' = [name EXCEPT ![d] = n],
         parent' = [parent EXCEPT ![d] = p],
         leader' = [leader EXCEPT ![d] = l]
  PROVE  /\ name' \in [Id -> Name \cup {NoName}] /\ parent' \in [Id -> 0..MaxDepts]
         /\ leader' \in [Id -> User \cup {NoUser}] /\ nextId' \in 1..(MaxDepts + 1)
         /\ Row' = Row /\ RowsOK' /\ name'[d] = n /\ parent'[d] = p
         /\ \A x \in Row \ {d} : name'[x] = name[x] /\ parent'[x] = parent[x]
<1>1. /\ name' \in [Id -> Name \cup {NoName}] /\ parent' \in [Id -> 0..MaxDepts]
      /\ leader' \in [Id -> User \cup {NoUser}] /\ nextId' \in 1..(MaxDepts + 1)
  BY DEF TypeOK
<1>2. /\ Row' = Row /\ name'[d] = n /\ parent'[d] = p
      /\ \A x \in Id \ {d} : name'[x] = name[x] /\ parent'[x] = parent[x]
  BY OrgConstants DEF TypeOK, Row
<1>3. \A x, y \in Row' : name'[x] = name'[y] => x = y
  <2>1. \A x \in Row : name[x] = n => x = d
    BY DEF Holder
  <2> QED
    BY <1>2, <2>1 DEF RowsOK, Row
<1>4. \A x \in Id : x \notin Row' => parent'[x] = 0
  BY <1>2 DEF RowsOK
<1>5. \A x \in Row' : x < nextId' /\ parent'[x] < nextId'
  BY <1>2 DEF RowsOK, Row
<1>6. RowsOK'
  BY <1>3, <1>4, <1>5 DEF RowsOK
<1> QED
  BY <1>1, <1>2, <1>6 DEF Row

-----------------------------------------------------------------------------
(* What is known of the requests.                                          *)
Requests == \A h \in Handler : AskedOK(h) /\ (~raced => ReadOK(h))

\* A request reads.
LEMMA ReadingKeeps ==
  ASSUME IInv, NEW h \in Handler, NEW s \in Position, NEW r \in Request, Reads(h, s, r),
         UNCHANGED <<tree, member, acl, raced>>,
         r.parent < nextId,
         s \in {"read", "checked", "granting"} => r.id \in Id /\ r.old \in Name,
         ~raced => /\ s = "creating" => r.parent \in Row \cup {0}
                   /\ s \in {"read", "checked", "granting"} => r.id \in Row /\ name[r.id] = r.old
                   /\ s = "checked" => r.parent \in Row \cup {0}
                   /\ s = "replacing" => r.names \subseteq {name[d] : d \in Row}
  PROVE  IInv' /\ UNCHANGED tree
<1>1. /\ pc' \in [Handler -> Position] /\ req' \in [Handler -> Request]
      /\ pc'[h] = s /\ req'[h] = r /\ \A g \in Handler \ {h} : pc'[g] = pc[g] /\ req'[g] = req[g]
  BY ReadsType DEF IInv, Others
<1>2. TypeOK'
  BY <1>1 DEF IInv, TypeOK, tree, acl
<1>3. Row' = Row /\ UNCHANGED <<name, parent, leader, nextId, member, grant, folder, raced>>
  BY DEF Row, tree, acl
<1>4. RowsOK'
  BY <1>3 DEF IInv, RowsOK
<1>5. ReferencesResolve'
  BY <1>3 DEF IInv, ReferencesResolve, MembersResolve, ParentsResolve, GrantsResolve, Holder
<1>6. ASSUME NEW g \in Handler PROVE AskedOK(g)' /\ (~raced' => ReadOK(g)')
  <2>1. CASE g = h
    <3>1. AskedOK(h)'
      BY <1>1, <1>3 DEF AskedOK
    <3>2. ~raced' => ReadOK(h)'
      BY <1>1, <1>3 DEF ReadOK
    <3> QED
      BY <2>1, <3>1, <3>2
  <2>2. CASE g # h
    <3>1. AskedOK(g)'
      BY <1>1, <1>3, <2>2 DEF IInv, AskedOK
    <3>2. ~raced' => ReadOK(g)'
      BY <1>1, <1>3, <2>2 DEF IInv, ReadOK
    <3> QED
      BY <3>1, <3>2
  <2> QED
    BY <2>1, <2>2
<1> QED
  BY <1>2, <1>4, <1>5, <1>6 DEF IInv, tree

\* A request writes, and is done.
LEMMA WritingKeeps ==
  ASSUME IInv, NEW h \in Handler, Landed(h), Others(h), pc'[h] = "idle",
         req'[h] \in {req[h], NoRequest}, nextId' \in 1..(MaxDepts + 1), nextId <= nextId'
  PROVE  Requests' /\ raced' \in BOOLEAN /\ (~raced' => ~raced)
<1>1. /\ raced' \in BOOLEAN
      /\ ~raced' => ~raced /\ \A g \in Handler : pc'[g] = "idle"
  BY Landing DEF IInv
<1>2. ASSUME NEW g \in Handler PROVE AskedOK(g)'
  <2>1. req[g].parent < nextId /\ req[g].parent \in Nat /\ nextId \in Nat /\ nextId' \in Nat
    BY OrgConstants DEF IInv, AskedOK, TypeOK, Request
  <2>2. req'[g] \in {req[g], NoRequest}
    BY DEF Others
  <2>3. req'[g].parent < nextId'
    <3>1. CASE req'[g] = req[g]
      BY <2>1, <3>1
    <3>2. CASE req'[g] = NoRequest
      BY <3>2, NothingAsked, OrgConstants
    <3> QED
      BY <2>2, <3>1, <3>2
  <2>4. CASE g = h
    BY <2>3, <2>4 DEF AskedOK
  <2>5. CASE g # h
    BY <2>3, <2>5 DEF IInv, AskedOK, Others
  <2> QED
    BY <2>4, <2>5
<1>3. ASSUME NEW g \in Handler, ~raced' PROVE ReadOK(g)'
  BY <1>1, <1>3 DEF ReadOK
<1> QED
  BY <1>1, <1>2, <1>3 DEF Requests

Effect == UNCHANGED tree \/ Grows \/ Shrinks \/ \E h \in Handler : Moves(h)

LEMMA ReadersKeep ==
  ASSUME IInv, NEW h \in Handler,
         \/ CreateCheck(h) \/ UpdateRead(h) \/ UpdateCheck(h) \/ GrantCheck(h)
         \/ ReplaceCheck(h) \/ AssignCheck(h) \/ Refuse(h)
  PROVE  IInv' /\ UNCHANGED tree
<1>0. /\ TypeOK /\ RowsOK /\ AskedOK(h) /\ (~raced => ReadOK(h)) /\ NoName \notin Name
      /\ 0 \in 0..MaxDepts /\ {} \in SUBSET Name /\ Row \subseteq Id /\ Id \subseteq 0..MaxDepts
      /\ \A d \in Row : name[d] \in Name /\ d < nextId
      /\ 0 < nextId
  <2>1. 0 < nextId
    BY OrgConstants DEF IInv, TypeOK
  <2> QED
    BY <2>1, NothingAsked, RowTypes, OrgConstants DEF IInv, RowsOK
<1>a. 0 \in 0..MaxDepts /\ {} \in SUBSET Name
  BY <1>0
<1>1. UNCHANGED <<tree, member, acl, raced>>
  BY DEF CreateCheck, UpdateRead, UpdateCheck, GrantCheck, ReplaceCheck, AssignCheck, Refuse
<1>2. ASSUME CreateCheck(h) PROVE IInv' /\ UNCHANGED tree
  <2>1. PICK p \in Row \cup {0} : Reads(h, "creating", Asked(0, NoName, p, {}))
    BY <1>2 DEF CreateCheck
  <2>2. /\ Asked(0, NoName, p, {}) \in Request /\ Asked(0, NoName, p, {}).parent = p
        /\ p < nextId
    <3>1. p \in 0..MaxDepts /\ p < nextId /\ NoName \in Name \cup {NoName}
      BY <1>0, <2>1
    <3> QED
      BY <1>a, <3>1, AskedType
  <2> QED
    BY <1>1, <2>1, <2>2, ReadingKeeps DEF Position
<1>3. ASSUME NEW s \in {"read", "granting"}, NEW d \in Row, Reads(h, s, Asked(d, name[d], 0, {}))
      PROVE  IInv' /\ UNCHANGED tree
  <2>1. PICK r : r = Asked(d, name[d], 0, {})
    OBVIOUS
  <2>2. r \in Request /\ r.parent = 0 /\ r.id = d /\ r.old = name[d]
    <3>1. d \in 0..MaxDepts /\ name[d] \in Name \cup {NoName}
      BY <1>0
    <3> QED
      BY <1>a, <2>1, <3>1, AskedType
  <2> QED
    BY <1>0, <1>1, <1>3, <2>1, <2>2, ReadingKeeps DEF Position
<1>4. ASSUME UpdateCheck(h) PROVE IInv' /\ UNCHANGED tree
  <2>1. PICK p \in 0..MaxDepts :
          MayMove(req[h].id, p) /\ Reads(h, "checked", Asked(req[h].id, req[h].old, p, {}))
    BY <1>4 DEF UpdateCheck
  <2>2. pc[h] = "read" /\ req[h].id \in Id /\ req[h].old \in Name
    BY <1>0, <1>4 DEF UpdateCheck, AskedOK
  <2>3. PICK r : r = Asked(req[h].id, req[h].old, p, {})
    OBVIOUS
  <2>4. r \in Request /\ r.parent = p /\ r.id = req[h].id /\ r.old = req[h].old
    <3>1. req[h].id \in 0..MaxDepts /\ req[h].old \in Name \cup {NoName}
      BY <1>0, <2>2
    <3> QED
      BY <1>a, <2>3, <3>1, AskedType
  <2>5. p \in Row \cup {0} /\ p < nextId
    BY <1>0, <2>1 DEF MayMove
  <2>6. ~raced => req[h].id \in Row /\ name[req[h].id] = req[h].old
    BY <1>0, <2>2 DEF ReadOK
  <2> QED
    BY <1>1, <2>1, <2>2, <2>3, <2>4, <2>5, <2>6, ReadingKeeps DEF Position
<1>5. ASSUME NEW s \in {"replacing", "assigning"}, NEW ns \in SUBSET {name[d] : d \in Row},
             Reads(h, s, Asked(0, NoName, 0, ns))
      PROVE  IInv' /\ UNCHANGED tree
  <2>1. PICK r : r = Asked(0, NoName, 0, ns)
    OBVIOUS
  <2>2. ns \in SUBSET Name
    BY <1>0
  <2>3. r \in Request /\ r.parent = 0 /\ r.names = ns
    BY <1>0, <2>1, <2>2, AskedType
  <2> QED
    BY <1>0, <1>1, <1>5, <2>1, <2>3, ReadingKeeps DEF Position
<1>6. ASSUME NEW s \in {"idle", "assigning"}, Reads(h, s, NoRequest)
      PROVE  IInv' /\ UNCHANGED tree
  BY <1>0, <1>1, <1>6, NothingAsked, ReadingKeeps DEF Position
<1>7. CASE UpdateRead(h) \/ GrantCheck(h)
  BY <1>3, <1>7 DEF UpdateRead, GrantCheck
<1>8. CASE ReplaceCheck(h)
  BY <1>5, <1>8 DEF ReplaceCheck
<1>9. CASE AssignCheck(h)
  <2>1. CASE \E d \in Row : Reads(h, "assigning", Asked(0, NoName, 0, {name[d]}))
    <3>1. PICK d \in Row : Reads(h, "assigning", Asked(0, NoName, 0, {name[d]}))
      BY <2>1
    <3>2. {name[d]} \in SUBSET {name[x] : x \in Row}
      OBVIOUS
    <3> QED
      BY <1>5, <3>1, <3>2
  <2> QED
    BY <1>6, <1>9, <2>1 DEF AssignCheck
<1>10. CASE Refuse(h)
  BY <1>6, <1>10 DEF Refuse, Done
<1> QED
  BY <1>2, <1>4, <1>7, <1>8, <1>9, <1>10

-----------------------------------------------------------------------------
(* The writes.                                                             *)
LEMMA CreateKeeps ==
  ASSUME IInv, NEW h \in Handler, CreateInsert(h) PROVE IInv' /\ Grows
<1>1. PICK n \in Name \ {Everyone}, l \in User \cup {NoUser} : Insert(n, req[h].parent, l)
  BY DEF CreateInsert
<1>2. /\ pc[h] = "creating" /\ Landed(h) /\ Done(h)
      /\ UNCHANGED <<member, acl>>
  BY DEF CreateInsert
<1>3. /\ pc' \in [Handler -> Position] /\ req' \in [Handler -> Request]
      /\ pc'[h] = "idle" /\ req'[h] = NoRequest /\ Others(h)
  BY <1>2, ReadsType, NothingAsked DEF IInv, Done, Position
<1>4. Grows
  <2>1. /\ req[h].parent \in 0..MaxDepts /\ req[h].parent < nextId
        /\ ~raced => req[h].parent \in Row \cup {0}
    BY <1>2 DEF IInv, TypeOK, Request, AskedOK, ReadOK
  <2> QED
    BY <1>1, <2>1, InsertGrows DEF IInv
<1>5. Requests' /\ raced' \in BOOLEAN /\ (~raced' => ~raced)
  BY <1>2, <1>3, <1>4, WritingKeeps DEF Grows
<1>6. TypeOK'
  BY <1>2, <1>3, <1>4, <1>5 DEF IInv, TypeOK, Grows, acl
<1>7. MembersResolve' /\ (~raced' => ParentsResolve' /\ GrantsResolve')
  <2>1. MembersResolve'
    BY <1>2, <1>4 DEF IInv, ReferencesResolve, MembersResolve, Grows
  <2>2. ASSUME ~raced' PROVE ParentsResolve'
    BY <1>4, <1>5, <2>2, GrownReferences DEF IInv, ReferencesResolve
  <2>3. ASSUME ~raced' PROVE GrantsResolve'
    BY <1>2, <1>4, <1>5, <2>3, GrownNames DEF IInv, ReferencesResolve, GrantsResolve, acl, Grows
  <2> QED
    BY <2>1, <2>2, <2>3
<1> QED
  BY <1>4, <1>5, <1>6, <1>7, GrownRows DEF IInv, ReferencesResolve, Requests

LEMMA DoneType ==
  ASSUME IInv, NEW h \in Handler, Done(h)
  PROVE  /\ pc' \in [Handler -> Position] /\ req' \in [Handler -> Request]
         /\ pc'[h] = "idle" /\ req'[h] = NoRequest /\ Others(h)
BY ReadsType, NothingAsked DEF IInv, Done, Position

\* A rename and a move.
LEMMA UpdateKeeps ==
  ASSUME IInv, NEW h \in Handler, UpdateWrite(h) PROVE IInv' /\ Effect
<1> DEFINE d == req[h].id
           old == req[h].old
           p == req[h].parent
<1>1. PICK n \in Name \ {Everyone}, l \in User \cup {NoUser} :
        /\ d \in Row => Holder(n) \subseteq {d}
        /\ grant' = IF n = old THEN grant ELSE Renamed(old, n)
        /\ \/ /\ d \in Row
              /\ name' = [name EXCEPT ![d] = n]
              /\ parent' = [parent EXCEPT ![d] = p]
              /\ leader' = [leader EXCEPT ![d] = l]
           \/ d \notin Row /\ UNCHANGED <<name, parent, leader>>
  BY DEF UpdateWrite
<1>2. pc[h] = "checked" /\ Landed(h) /\ Done(h) /\ UNCHANGED <<nextId, member, folder>>
  BY DEF UpdateWrite
<1>3. /\ pc' \in [Handler -> Position] /\ req' \in [Handler -> Request]
      /\ pc'[h] = "idle" /\ req'[h] = NoRequest /\ Others(h)
  BY <1>2, DoneType
<1>4. /\ d \in Id /\ old \in Name /\ p \in 0..MaxDepts /\ p < nextId
      /\ ~raced => d \in Row /\ name[d] = old /\ p \in Row \cup {0}
  BY <1>2 DEF IInv, TypeOK, Request, AskedOK, ReadOK
<1> HIDE DEF d, old, p
<1>5. /\ name' \in [Id -> Name \cup {NoName}] /\ parent' \in [Id -> 0..MaxDepts]
      /\ leader' \in [Id -> User \cup {NoUser}] /\ nextId' \in 1..(MaxDepts + 1)
      /\ Row' = Row /\ RowsOK'
      /\ d \in Row => /\ name'[d] = n /\ parent'[d] = p
                      /\ \A x \in Row \ {d} : name'[x] = name[x] /\ parent'[x] = parent[x]
  <2>1. CASE d \in Row
    BY <1>1, <1>2, <1>4, <2>1, MovedRows DEF IInv
  <2>2. CASE d \notin Row
    BY <1>1, <1>2, <2>2 DEF IInv, TypeOK, RowsOK, Row
  <2> QED
    BY <2>1, <2>2
<1>6. Requests' /\ raced' \in BOOLEAN /\ (~raced' => ~raced)
  <2>1. nextId <= nextId'
    BY <1>2, OrgConstants DEF IInv, TypeOK
  <2> QED
    BY <1>2, <1>3, <1>5, <2>1, WritingKeeps
<1>7. grant' \subseteq [name : Name, id : 0..MaxDepts]
  BY <1>1 DEF IInv, TypeOK, Renamed
<1>8. TypeOK'
  BY <1>2, <1>3, <1>5, <1>6, <1>7 DEF IInv, TypeOK
<1>9. MembersResolve'
  BY <1>2, <1>5 DEF IInv, ReferencesResolve, MembersResolve
<1>10. ASSUME ~raced' PROVE ParentsResolve' /\ GrantsResolve'
  <2>1. /\ d \in Row /\ name[d] = old /\ p \in Row \cup {0} /\ Holder(n) \subseteq {d}
        /\ ParentsResolve /\ GrantsResolve
    BY <1>1, <1>4, <1>6, <1>10 DEF IInv, ReferencesResolve
  <2>2. ParentsResolve'
    BY <1>5, <2>1 DEF ParentsResolve
  <2>3. Holder(n)' = {d} /\ \A x : x # n => Holder(x)' = Holder(x) \ {d}
    BY <1>5, <2>1 DEF Holder
  <2>4. \A x : x # n /\ x # old => Holder(x)' = Holder(x)
    BY <2>1, <2>3 DEF Holder
  <2>5. ASSUME NEW g \in grant' PROVE Holder(g.name)' = {g.id}
    <3>1. \A q \in grant : Holder(q.name) = {q.id}
      BY <2>1 DEF GrantsResolve
    <3>2. Holder(old) = {d}
      BY <2>1 DEF Holder, IInv, RowsOK
    <3>3. CASE n = old
      BY <1>1, <2>3, <2>4, <2>5, <3>1, <3>2, <3>3
    <3>4. CASE n # old
      <4>1. PICK q \in grant : g = [name |-> IF q.name = old THEN n ELSE q.name, id |-> q.id]
        BY <1>1, <2>5, <3>4 DEF Renamed
      <4>2. g.id = q.id /\ g.name = IF q.name = old THEN n ELSE q.name
        BY <4>1
      <4>3. CASE q.name = old
        <5>1. {q.id} = {d}
          BY <3>1, <3>2, <4>3
        <5> QED
          BY <2>3, <4>2, <4>3, <5>1
      <4>4. CASE q.name # old
        <5>1. Holder(q.name) = {q.id}
          BY <3>1
        <5>2. Holder(n) = {}
          BY <2>1, <3>4 DEF Holder
        <5>3. q.name # n
          BY <5>1, <5>2
        <5> QED
          BY <2>4, <4>2, <4>4, <5>1, <5>3
      <4> QED
        BY <4>3, <4>4
    <3> QED
      BY <3>3, <3>4
  <2> QED
    BY <1>2, <1>5, <2>1, <2>2, <2>5 DEF GrantsResolve
<1>11. Effect
  <2>1. CASE d \in Row
    <3>1. Moves(h)
      BY <1>1, <1>2, <1>3, <2>1 DEF Moves, d, p
    <3> QED
      BY <3>1 DEF Effect
  <2>2. CASE d \notin Row
    BY <1>1, <1>2, <2>2 DEF Effect, tree
  <2> QED
    BY <2>1, <2>2
<1> QED
  BY <1>5, <1>6, <1>8, <1>9, <1>10, <1>11 DEF IInv, ReferencesResolve, Requests

LEMMA DeleteKeeps ==
  ASSUME IInv, NEW h \in Handler, Delete(h) PROVE IInv' /\ Shrinks
<1>1. PICK d \in Row :
        /\ Unused(d)
        /\ name' = [name EXCEPT ![d] = NoName]
        /\ parent' = [parent EXCEPT ![d] = 0]
        /\ leader' = [leader EXCEPT ![d] = NoUser]
  BY DEF Delete
<1>2. pc[h] = "idle" /\ Landed(h) /\ UNCHANGED <<nextId, member, acl, pc, req>>
  BY DEF Delete
<1>3. /\ name' \in [Id -> Name \cup {NoName}] /\ parent' \in [Id -> 0..MaxDepts]
      /\ leader' \in [Id -> User \cup {NoUser}] /\ nextId' \in 1..(MaxDepts + 1)
      /\ Row' = Row \ {d} /\ RowsOK'
      /\ \A x \in Row' : name'[x] = name[x] /\ parent'[x] = parent[x]
  BY <1>1, <1>2, ShrunkRows DEF IInv
<1>4. Requests' /\ raced' \in BOOLEAN /\ (~raced' => ~raced)
  <2>1. nextId <= nextId' /\ Others(h) /\ pc'[h] = "idle" /\ req'[h] = req[h]
    BY <1>2, OrgConstants DEF IInv, TypeOK, Others
  <2> QED
    BY <1>2, <1>3, <2>1, WritingKeeps
<1>5. TypeOK'
  BY <1>2, <1>3, <1>4 DEF IInv, TypeOK, acl
<1>6. MembersResolve'
  BY <1>1, <1>2, <1>3 DEF IInv, ReferencesResolve, MembersResolve, Unused
<1>7. ASSUME ~raced' PROVE ParentsResolve' /\ GrantsResolve'
  <2>1. ParentsResolve /\ GrantsResolve
    BY <1>4, <1>7 DEF IInv, ReferencesResolve
  <2>2. ParentsResolve'
    BY <1>1, <1>3, <2>1 DEF ParentsResolve, Unused
  <2>3. ASSUME NEW g \in grant PROVE Holder(g.name)' = {g.id}
    <3>1. Holder(g.name) = {g.id} /\ name[d] # g.name
      BY <1>1, <2>1, <2>3 DEF GrantsResolve, Unused
    <3> QED
      BY <1>3, <3>1 DEF Holder
  <2>4. folder' \subseteq Row'
    BY <1>1, <1>2, <1>3, <2>1 DEF GrantsResolve, Unused, acl
  <2> QED
    BY <1>2, <2>2, <2>3, <2>4 DEF GrantsResolve, acl
<1> QED
  BY <1>1, <1>2, <1>3, <1>4, <1>5, <1>6, <1>7 DEF IInv, ReferencesResolve, Requests, Shrinks

\* A write of the grants alone.
LEMMA GrantingKeeps ==
  ASSUME IInv, NEW h \in Handler, Landed(h), Done(h), UNCHANGED <<tree, member>>,
         grant' \subseteq [name : Name, id : 0..MaxDepts], folder' \subseteq Id,
         ~raced => (\A g \in grant' : Holder(g.name) = {g.id}) /\ folder' \subseteq Row
  PROVE  IInv' /\ UNCHANGED tree
<1>1. /\ pc' \in [Handler -> Position] /\ req' \in [Handler -> Request]
      /\ pc'[h] = "idle" /\ req'[h] = NoRequest /\ Others(h)
  BY DoneType
<1>2. UNCHANGED <<name, parent, leader, nextId, member>> /\ Row' = Row
  BY DEF tree, Row
<1>3. Requests' /\ raced' \in BOOLEAN /\ (~raced' => ~raced)
  <2>1. nextId <= nextId' /\ nextId' \in 1..(MaxDepts + 1)
    BY <1>2, OrgConstants DEF IInv, TypeOK
  <2> QED
    BY <1>1, <2>1, WritingKeeps
<1>4. TypeOK'
  BY <1>1, <1>2, <1>3 DEF IInv, TypeOK
<1>5. RowsOK'
  BY <1>2 DEF IInv, RowsOK
<1>6. MembersResolve' /\ (ParentsResolve => ParentsResolve')
  BY <1>2 DEF IInv, ReferencesResolve, MembersResolve, ParentsResolve
<1>7. ASSUME ~raced' PROVE GrantsResolve'
  <2>1. \A x : Holder(x)' = Holder(x)
    BY <1>2 DEF Holder
  <2> QED
    BY <1>2, <1>3, <1>7, <2>1 DEF GrantsResolve
<1> QED
  BY <1>3, <1>4, <1>5, <1>6, <1>7 DEF IInv, ReferencesResolve, Requests, tree

LEMMA GrantersKeep ==
  ASSUME IInv, NEW h \in Handler,
         GrantByName(h) \/ GrantById(h) \/ Revoke(h) \/ ReplaceByName(h)
  PROVE  IInv' /\ UNCHANGED tree
<1>1. Landed(h) /\ Done(h) /\ UNCHANGED <<tree, member>>
  BY DEF GrantByName, GrantById, Revoke, ReplaceByName
<1>2. /\ grant \subseteq [name : Name, id : 0..MaxDepts] /\ folder \subseteq Id
      /\ ~raced => (\A g \in grant : Holder(g.name) = {g.id}) /\ folder \subseteq Row
  BY DEF IInv, TypeOK, ReferencesResolve, GrantsResolve
<1>3. Row \subseteq Id /\ Id \subseteq 0..MaxDepts /\ \A d \in Row : Holder(name[d]) = {d}
  BY RowTypes DEF IInv, RowsOK, Holder
<1>4. CASE GrantByName(h)
  <2>1. /\ pc[h] = "granting"
        /\ grant' \subseteq grant \cup {[name |-> req[h].old, id |-> req[h].id]}
        /\ folder' = folder
    BY <1>4 DEF GrantByName
  <2>2. /\ req[h].old \in Name /\ req[h].id \in 0..MaxDepts
        /\ ~raced => Holder(req[h].old) = {req[h].id}
    BY <1>3, <2>1 DEF IInv, AskedOK, ReadOK
  <2>3. [name |-> req[h].old, id |-> req[h].id] \in [name : Name, id : 0..MaxDepts]
    BY <2>2
  <2> QED
    BY <1>1, <1>2, <2>1, <2>2, <2>3, GrantingKeeps
<1>5. CASE GrantById(h)
  <2>1. pc[h] = "granting" /\ folder' = folder \cup {req[h].id} /\ grant' = grant
    BY <1>5 DEF GrantById
  <2>2. req[h].id \in Id /\ (~raced => req[h].id \in Row)
    BY <2>1 DEF IInv, AskedOK, ReadOK
  <2> QED
    BY <1>1, <1>2, <2>1, <2>2, GrantingKeeps
<1>6. CASE Revoke(h)
  <2>1. grant' \subseteq grant /\ folder' \subseteq folder
    BY <1>6 DEF Revoke
  <2> QED
    BY <1>1, <1>2, <2>1, GrantingKeeps
<1>7. CASE ReplaceByName(h)
  <2>1. /\ pc[h] = "replacing" /\ folder' = folder
        /\ grant' = {[name |-> n, id |-> Meant(n)] : n \in req[h].names}
    BY <1>7 DEF ReplaceByName
  <2>2. /\ req[h].names \subseteq Name
        /\ ~raced => req[h].names \subseteq {name[d] : d \in Row}
    BY <2>1 DEF IInv, TypeOK, Request, ReadOK
  <2>3. \A n : Meant(n) \in 0..MaxDepts /\ (\A d : Holder(n) = {d} => Meant(n) = d)
    <3> SUFFICES ASSUME NEW n
                 PROVE  Meant(n) \in 0..MaxDepts /\ (\A d : Holder(n) = {d} => Meant(n) = d)
      OBVIOUS
    <3>1. CASE Holder(n) = {}
      BY <3>1, NothingAsked DEF Meant
    <3>2. CASE Holder(n) # {}
      <4>1. Meant(n) \in Holder(n)
        BY <3>2 DEF Meant
      <4> QED
        BY <1>3, <4>1 DEF Holder
    <3> QED
      BY <3>1, <3>2
  <2>4. grant' \subseteq [name : Name, id : 0..MaxDepts]
    BY <2>1, <2>2, <2>3
  <2>5. ASSUME ~raced, NEW g \in grant' PROVE Holder(g.name) = {g.id}
    <3>1. PICK n \in req[h].names : g = [name |-> n, id |-> Meant(n)]
      BY <2>1, <2>5
    <3>2. PICK d \in Row : n = name[d]
      BY <2>2, <2>5, <3>1
    <3>3. Holder(n) = {d} /\ Meant(n) = d
      BY <1>3, <2>3, <3>2
    <3> QED
      BY <3>1, <3>3
  <2> QED
    BY <1>1, <1>2, <2>1, <2>4, <2>5, GrantingKeeps
<1> QED
  BY <1>4, <1>5, <1>6, <1>7

\* Rows are added, with members or grants of them.
LEMMA GrowingKeeps ==
  ASSUME IInv, Grows, NEW names \in SUBSET Name, Synced(names) \subseteq Row',
         pc' \in [Handler -> Position], req' \in [Handler -> Request],
         Requests', raced' \in BOOLEAN, ~raced' => ~raced, grant' = grant,
         \/ folder' = folder /\ \E u \in User : member' = [member EXCEPT ![u] = Synced(names)]
         \/ member' = member /\ folder' = Synced(names)
  PROVE  IInv'
<1>1. Synced(names) \subseteq Id /\ Row \subseteq Row' /\ Row' \subseteq Id
  BY DEF Synced, Grows, Row
<1>2. /\ member' \in [User -> SUBSET Id] /\ folder' \subseteq Id
      /\ MembersResolve'
  BY <1>1 DEF IInv, TypeOK, ReferencesResolve, MembersResolve
<1>3. TypeOK'
  BY <1>2 DEF IInv, TypeOK, Grows
<1>4. ASSUME ~raced' PROVE ParentsResolve' /\ GrantsResolve'
  <2>1. ~raced /\ ParentsResolve /\ GrantsResolve
    BY <1>4 DEF IInv, ReferencesResolve
  <2>2. ParentsResolve'
    BY <2>1, GrownReferences DEF IInv
  <2>3. \A g \in grant : Holder(g.name)' = {g.id}
    BY <2>1, GrownNames DEF IInv, GrantsResolve
  <2>4. folder' \subseteq Row'
    BY <1>1, <2>1 DEF GrantsResolve
  <2> QED
    BY <2>2, <2>3, <2>4 DEF GrantsResolve
<1> QED
  BY <1>2, <1>3, <1>4, GrownRows DEF IInv, ReferencesResolve, Requests

LEMMA AssignersKeep ==
  ASSUME IInv, NEW h \in Handler, Assign(h) \/ ReplaceById(h) PROVE IInv' /\ Grows
<1>1. /\ Landed(h) /\ Done(h) /\ CreateMissing(req[h].names) /\ grant' = grant
      /\ \/ folder' = folder /\ \E u \in User : member' = [member EXCEPT ![u] = Synced(req[h].names)]
         \/ member' = member /\ folder' = Synced(req[h].names)
  BY DEF Assign, ReplaceById, acl
<1>2. req[h].names \in SUBSET Name
  BY DEF IInv, TypeOK, Request
<1>3. Grows /\ Synced(req[h].names) \subseteq Row'
  BY <1>1, <1>2, CreateMissingGrows DEF IInv
<1>4. /\ pc' \in [Handler -> Position] /\ req' \in [Handler -> Request]
      /\ pc'[h] = "idle" /\ req'[h] = NoRequest /\ Others(h)
  BY <1>1, DoneType
<1>5. Requests' /\ raced' \in BOOLEAN /\ (~raced' => ~raced)
  BY <1>1, <1>3, <1>4, WritingKeeps DEF Grows
<1> QED
  BY <1>1, <1>2, <1>3, <1>4, <1>5, GrowingKeeps

LEMMA LoginKeeps ==
  ASSUME IInv, NEW u \in User, SyncLogin(u) PROVE IInv' /\ Grows
<1>1. PICK ns \in SUBSET Name : /\ CreateMissing(ns)
                                /\ member' = [member EXCEPT ![u] = Synced(ns)]
                                /\ UNCHANGED <<acl, pc, req, raced>>
  BY DEF SyncLogin
<1>2. Grows /\ Synced(ns) \subseteq Row'
  BY <1>1, CreateMissingGrows DEF IInv
<1>3. ASSUME NEW h \in Handler PROVE AskedOK(h)' /\ (~raced' => ReadOK(h)')
  <2>1. AskedOK(h)'
    <3>1. req[h].parent < nextId /\ req[h].parent \in Nat /\ nextId \in Nat /\ nextId' \in Nat
          /\ nextId <= nextId'
      BY <1>2, OrgConstants DEF IInv, AskedOK, TypeOK, Request, Grows
    <3>2. req[h].parent < nextId'
      BY <3>1
    <3> QED
      BY <1>1, <3>2 DEF IInv, AskedOK
  <2>2. ~raced' => ReadOK(h)'
    BY <1>1, <1>2 DEF IInv, ReadOK, Grows
  <2> QED
    BY <2>1, <2>2
<1>4. pc' \in [Handler -> Position] /\ req' \in [Handler -> Request] /\ raced' \in BOOLEAN
  BY <1>1 DEF IInv, TypeOK
<1>5. Requests' /\ grant' = grant /\ folder' = folder /\ (~raced' => ~raced)
  BY <1>1, <1>3 DEF Requests, acl
<1> QED
  BY <1>1, <1>2, <1>4, <1>5, GrowingKeeps

-----------------------------------------------------------------------------
LEMMA NextKeeps ==
  ASSUME IInv, Next PROVE IInv' /\ Effect
<1>1. ASSUME NEW h \in Handler, Step(h) PROVE IInv' /\ Effect
  BY <1>1, ReadersKeep, CreateKeeps, UpdateKeeps, DeleteKeeps, GrantersKeep, AssignersKeep
  DEF Step, Effect
<1>2. ASSUME NEW u \in User, SyncLogin(u) PROVE IInv' /\ Effect
  BY <1>2, LoginKeeps DEF Effect
<1> QED
  BY <1>1, <1>2 DEF Next

LEMMA StutterKeeps ==
  ASSUME IInv, UNCHANGED vars PROVE IInv'
BY DEF IInv, TypeOK, RowsOK, ReferencesResolve, MembersResolve, ParentsResolve, GrantsResolve,
   Holder, AskedOK, ReadOK, Row, vars, tree, acl

LEMMA Start ==
  ASSUME Init PROVE IInv /\ Acyclic /\ \A h \in Handler : MoveOK(h)
<1>1. /\ 1 \in Id /\ 0 \in 0..MaxDepts /\ 2 \in 1..(MaxDepts + 1) /\ nextId = 2
      /\ NoName \notin Name /\ Everyone \in Name
  BY OrgConstants DEF Init, Id
<1>2. TypeOK
  BY <1>1, NothingAsked DEF Init, TypeOK, Position
<1>3. Row = {1}
  BY <1>1 DEF Init, Row
<1>4. \A d \in Id : parent[d] = 0
  BY DEF Init
<1>5. RowsOK
  BY <1>1, <1>3, <1>4 DEF RowsOK
<1>6. ReferencesResolve
  BY <1>1, <1>3, <1>4
  DEF Init, ReferencesResolve, MembersResolve, ParentsResolve, GrantsResolve
<1>7. \A h \in Handler : AskedOK(h) /\ ReadOK(h) /\ MoveOK(h)
  <2> SUFFICES ASSUME NEW h \in Handler PROVE AskedOK(h) /\ ReadOK(h) /\ MoveOK(h)
    OBVIOUS
  <2>1. pc[h] = "idle" /\ req[h] = NoRequest
    BY DEF Init
  <2>2. req[h].parent < nextId
    BY <1>1, <2>1, NothingAsked
  <2> QED
    BY <2>1, <2>2 DEF AskedOK, ReadOK, MoveOK
<1>8. Acyclic
  <2> SUFFICES ASSUME NEW S \in SUBSET Row, S # {} PROVE \E d \in S : parent[d] \notin S
    BY DEF Acyclic
  <2>1. S = {1} /\ parent[1] = 0
    BY <1>1, <1>3, <1>4
  <2> QED
    BY <2>1
<1> QED
  BY <1>2, <1>5, <1>6, <1>7, <1>8 DEF IInv

\* Every reachable state satisfies the inductive invariant.
THEOREM OrgInvariance == Spec => []IInv
<1>1. Init => IInv
  BY Start
<1>2. IInv /\ [Next]_vars => IInv'
  BY NextKeeps, StutterKeeps
<1> QED
  BY <1>1, <1>2, PTL DEF Spec

\* Every variable has its type.
THEOREM OrgTypes == Spec => []TypeOK
<1>1. IInv => TypeOK
  BY DEF IInv
<1> QED
  BY <1>1, OrgInvariance, PTL

\* Members have a department whatever races; parents and grants resolve
\* while requests do not overlap.
THEOREM NothingDangles == Spec => []ReferencesResolve
<1>1. IInv => ReferencesResolve
  BY DEF IInv
<1> QED
  BY <1>1, OrgInvariance, PTL

-----------------------------------------------------------------------------
(* The tree, when one PUT of a department is served at a time.             *)

\* A request is about to move a department only after it has read and checked.
LEMMA Movers ==
  ASSUME IInv, Next, \A g \in Handler : MoveOK(g), NEW h \in Handler
  PROVE  /\ pc'[h] \in {"read", "checked"} => h \in Updater
         /\ pc'[h] = "checked" =>
              \/ UpdateCheck(h)
              \/ pc[h] = "checked" /\ req'[h] = req[h]
<1>1. CASE \E u \in User : SyncLogin(u)
  BY <1>1 DEF SyncLogin, MoveOK
<1>2. ASSUME NEW g \in Handler, Step(g), g # h
      PROVE  pc'[h] = pc[h] /\ req'[h] = req[h]
  BY <1>2 DEF IInv, TypeOK, Step, CreateCheck, CreateInsert, UpdateRead, UpdateCheck, UpdateWrite,
     Delete, GrantCheck, GrantByName, GrantById, Revoke, ReplaceCheck, ReplaceByName, ReplaceById,
     AssignCheck, Assign, Refuse, Done, Reads
<1>3. ASSUME Step(h), ~UpdateRead(h), ~UpdateCheck(h)
      PROVE  pc'[h] \notin {"read", "checked"}
  <2>1. Delete(h) \/ \E s \in Position \ {"read", "checked"} : pc' = [pc EXCEPT ![h] = s]
    BY <1>3 DEF Position, Step, CreateCheck, CreateInsert, UpdateWrite,
       GrantCheck, GrantByName, GrantById, Revoke, ReplaceCheck, ReplaceByName, ReplaceById,
       AssignCheck, Assign, Refuse, Done, Reads
  <2> QED
    BY <2>1 DEF IInv, TypeOK, Delete
<1>4. CASE UpdateRead(h)
  BY <1>4 DEF UpdateRead, Reads, IInv, TypeOK
<1>5. CASE UpdateCheck(h)
  <2>1. h \in Updater
    BY <1>5 DEF UpdateCheck, MoveOK
  <2> QED
    BY <1>5, <2>1
<1> QED
  BY <1>1, <1>2, <1>3, <1>4, <1>5 DEF Next, MoveOK

\* What was not below d is not below it after a row has gone.
LEMMA ShrunkBelow ==
  ASSUME TypeOK, RowsOK, Shrinks, NEW d \in Id, NEW p \in 0..MaxDepts, p \notin Subtree(d)
  PROVE  (p \notin Subtree(d))'
<1>1. /\ Row' \subseteq Row
      /\ \A x \in Row' : parent'[x] = parent[x]
  BY ShrunkRows DEF Shrinks
<1> QED
  BY <1>1, NotBelow DEF Closed

LEMMA ShrunkTree ==
  ASSUME TypeOK, RowsOK, Shrinks, Acyclic PROVE Acyclic'
<1>1. /\ Row' \subseteq Row
      /\ \A x \in Row' : parent'[x] = parent[x]
  BY ShrunkRows DEF Shrinks
<1> QED
  BY <1>1 DEF Acyclic

\* A set whose members all have their parent in it would, without what is
\* below d, have been such a set before.
LEMMA MovedTree ==
  ASSUME TypeOK, RowsOK, Acyclic, NEW h \in Handler, AskedOK(h), MoveOK(h), Moves(h)
  PROVE  Acyclic'
<1> DEFINE d == req[h].id
           p == req[h].parent
<1>1. /\ d \in Row /\ Row' = Row /\ parent'[d] = p /\ p \notin Subtree(d)
      /\ \A x \in Row \ {d} : parent'[x] = parent[x]
  <2>1. /\ p \in 0..MaxDepts /\ p < nextId /\ p \notin Subtree(d) /\ d \in Row /\ nextId' = nextId
        /\ parent' = [parent EXCEPT ![d] = p]
    BY DEF Moves, AskedOK, MoveOK, TypeOK, Request
  <2>2. PICK n \in Name, l \in User \cup {NoUser} :
          /\ Holder(n) \subseteq {d}
          /\ name' = [name EXCEPT ![d] = n]
          /\ leader' = [leader EXCEPT ![d] = l]
    BY DEF Moves
  <2> HIDE DEF d, p
  <2> QED
    BY <2>1, <2>2, MovedRows
<1> HIDE DEF d, p
<1> SUFFICES ASSUME NEW S \in SUBSET (Row'), S # {}, \A x \in S : parent'[x] \in S
             PROVE  FALSE
  BY DEF Acyclic
<1>2. S \subseteq Row /\ Row \subseteq Id
  BY <1>1 DEF Row
<1>3. d \in S
  BY <1>1, <1>2 DEF Acyclic
<1>4. p \in S
  BY <1>1, <1>3
<1>5. d \in Subtree(d)
  BY <1>1, <1>2 DEF Subtree
<1>6. PICK x \in S \ Subtree(d) : parent[x] \notin S \ Subtree(d)
  BY <1>1, <1>2, <1>4 DEF Acyclic
<1>7. parent[x] \in S
  BY <1>1, <1>2, <1>5, <1>6
<1>8. parent[x] \in Subtree(d) /\ x \in Row
  BY <1>2, <1>6, <1>7
<1>9. x \in Subtree(d)
  BY <1>2, <1>8 DEF Subtree, Closed
<1> QED
  BY <1>6, <1>9

\* With one PUT of a department at a time no department is its own ancestor,
\* whatever else the requests and the logins do.
THEOREM OneMoverKeepsATree ==
  ASSUME \A g, h \in Updater : g = h
  PROVE  Spec => []Acyclic
<1>1. Init => TreeInv
  BY Start DEF TreeInv
<1>2. TreeInv /\ [Next]_vars => TreeInv'
  <2> SUFFICES ASSUME TreeInv, [Next]_vars PROVE TreeInv'
    OBVIOUS
  <2>0. TypeOK /\ RowsOK /\ Acyclic /\ \A h \in Handler : MoveOK(h) /\ AskedOK(h)
    BY DEF TreeInv, IInv
  <2>1. CASE UNCHANGED vars
    BY <2>1, StutterKeeps DEF TreeInv, Acyclic, MoveOK, Subtree, Closed, Row, vars, tree
  <2>2. CASE Next
    <3>1. IInv' /\ Effect
      BY <2>2, NextKeeps DEF TreeInv
    <3>2. Acyclic'
      <4>1. CASE UNCHANGED tree
        BY <2>0, <4>1 DEF Acyclic, Row, tree
      <4> QED
        BY <2>0, <3>1, <4>1, GrownTree, ShrunkTree, MovedTree DEF Effect
    <3>3. ASSUME NEW h \in Handler PROVE MoveOK(h)'
      <4>1. /\ pc'[h] \in {"read", "checked"} => h \in Updater
            /\ pc'[h] = "checked" => UpdateCheck(h) \/ (pc[h] = "checked" /\ req'[h] = req[h])
        BY <2>0, <2>2, Movers DEF TreeInv
      <4>2. ASSUME UpdateCheck(h) PROVE (req[h].parent \notin Subtree(req[h].id))'
        <5>1. PICK p \in 0..MaxDepts :
                MayMove(req[h].id, p) /\ Reads(h, "checked", Asked(req[h].id, req[h].old, p, {}))
          BY <4>2 DEF UpdateCheck
        <5>2. req'[h] = Asked(req[h].id, req[h].old, p, {}) /\ UNCHANGED tree
          BY <2>0, <4>2, <5>1 DEF TypeOK, Reads, UpdateCheck
        <5>3. req'[h].parent = p /\ req'[h].id = req[h].id
          BY <5>2 DEF Asked
        <5>4. p \notin Subtree(req[h].id)
          BY <5>1, OrgConstants DEF MayMove, Subtree, Id
        <5> QED
          BY <5>2, <5>3, <5>4 DEF Subtree, Closed, Row, tree
      <4>3. ASSUME pc[h] = "checked", req'[h] = req[h], pc'[h] = "checked"
            PROVE  (req[h].parent \notin Subtree(req[h].id))'
        <5>1. PICK d, p : d = req[h].id /\ p = req[h].parent
          OBVIOUS
        <5>2. d \in Id /\ p \in 0..MaxDepts /\ p < nextId /\ p \notin Subtree(d) /\ h \in Updater
          BY <2>0, <4>3, <5>1 DEF AskedOK, MoveOK, TypeOK, Request
        <5>3. (p \notin Subtree(d))'
          <6>1. CASE UNCHANGED tree
            BY <5>2, <6>1 DEF Subtree, Closed, Row, tree
          <6>2. CASE Grows
            BY <2>0, <5>2, <6>2, GrownBelow
          <6>3. CASE Shrinks
            BY <2>0, <5>2, <6>3, ShrunkBelow
          <6>4. CASE \E g \in Handler : Moves(g)
            <7>1. PICK g \in Handler : pc[g] = "checked" /\ pc'[g] = "idle"
              BY <6>4 DEF Moves
            <7>2. g \in Updater /\ g # h
              BY <2>0, <4>3, <7>1 DEF MoveOK
            <7> QED
              BY <5>2, <7>2
          <6> QED
            BY <3>1, <6>1, <6>2, <6>3, <6>4 DEF Effect
        <5> QED
          BY <4>3, <5>1, <5>3 DEF Subtree
      <4> QED
        BY <4>1, <4>2, <4>3 DEF MoveOK
    <3> QED
      BY <3>1, <3>2, <3>3 DEF TreeInv
  <2> QED
    BY <2>1, <2>2
<1>3. TreeInv => Acyclic
  BY DEF TreeInv
<1> QED
  BY <1>1, <1>2, <1>3, PTL DEF Spec

-----------------------------------------------------------------------------
(* What is inherited.  The walk up is a recursive function: that it has    *)
(* the values its definition gives, and that MaxDepts rounds are enough,   *)
(* is shown by induction on the rounds.                                    *)

\* Every set of numbers has a least element.
LEMMA LeastNumber ==
  ASSUME NEW T \in SUBSET Nat, T # {}
  PROVE  \E n \in T : \A m \in T : n <= m
<1> DEFINE R == {ss \in Nat \X Nat : ss[1] < ss[2]}
<1>1. IsWellFoundedOn(R, Nat)
  BY NatLessThanWellFounded, Zenon DEF OpToRel
<1> HIDE DEF R
<1>2. PICK n \in T : \A m \in T : <<m, n>> \notin R
  BY <1>1, WFMin, Zenon
<1>3. \A m \in T : ~(m < n)
  BY <1>2 DEF R
<1> QED
  BY <1>3

\* Induction: a set that holds 0 and the successor of what it holds is complete.
LEMMA BoundedInduction ==
  ASSUME NEW N \in Nat, NEW T, 0 \in T, \A n \in 0..N : n \in T /\ n < N => n + 1 \in T
  PROVE  0..N \subseteq T
<1> SUFFICES ASSUME (0..N) \ T # {} PROVE FALSE
  OBVIOUS
<1> DEFINE U == (0..N) \ T
<1>0. U \in SUBSET Nat /\ U # {}
  OBVIOUS
<1>1. PICK n \in U : \A m \in U : n <= m
  BY <1>0, LeastNumber
<1>2. n - 1 \in 0..N /\ n - 1 < N /\ (n - 1) + 1 = n
  BY <1>1
<1>3. n - 1 \in T
  BY <1>1, <1>2
<1> QED
  BY <1>1, <1>2, <1>3

\* The rounds of ancestorsOf, as a function that starts with d.
Rounds(f, n, d) ==
  /\ f \in [0..n -> SUBSET (0..MaxDepts)]
  /\ f[0] = {d}
  /\ \A i \in 0..n : i < n => f[i + 1] = Upward(f[i])

\* A round only adds to what was found.
LEMMA UpwardType ==
  ASSUME TypeOK, NEW S \in SUBSET (0..MaxDepts)
  PROVE  Upward(S) \in SUBSET (0..MaxDepts) /\ S \subseteq Upward(S)
BY DEF TypeOK, Upward, Row

\* There are as many rounds as one likes.
LEMMA RoundsExist ==
  ASSUME TypeOK, NEW d \in Id
  PROVE  \E f : Rounds(f, MaxDepts, d)
<1> DEFINE T == {n \in 0..MaxDepts : \E f : Rounds(f, n, d)}
<1>0. MaxDepts \in Nat /\ d \in 0..MaxDepts
  BY OrgConstants DEF Id
<1>1. 0 \in T
  <2>1. Rounds([i \in 0..0 |-> {d}], 0, d)
    BY <1>0 DEF Rounds
  <2> QED
    BY <1>0, <2>1
<1>2. ASSUME NEW n \in 0..MaxDepts, n \in T, n < MaxDepts PROVE n + 1 \in T
  <2>1. PICK f : Rounds(f, n, d)
    BY <1>2
  <2> DEFINE g == [i \in 0..(n + 1) |-> IF i = n + 1 THEN Upward(f[n]) ELSE f[i]]
  <2>2. n \in Nat /\ n + 1 \in 0..MaxDepts /\ f[n] \in SUBSET (0..MaxDepts)
    BY <1>0, <1>2, <2>1 DEF Rounds
  <2>3. Upward(f[n]) \in SUBSET (0..MaxDepts)
    BY <2>2, UpwardType
  <2>4. g \in [0..(n + 1) -> SUBSET (0..MaxDepts)]
    BY <2>1, <2>2, <2>3 DEF Rounds
  <2>5. g[0] = {d} /\ \A i \in 0..n : g[i] = f[i] /\ g[n + 1] = Upward(f[n])
    BY <2>1, <2>2 DEF Rounds
  <2>6. ASSUME NEW i \in 0..(n + 1), i < n + 1 PROVE g[i + 1] = Upward(g[i])
    <3>1. CASE i = n
      BY <2>2, <2>5, <3>1
    <3>2. CASE i # n
      <4>1. i \in 0..n /\ i < n /\ i + 1 \in 0..n
        BY <2>2, <2>6, <3>2
      <4> HIDE DEF g
      <4> QED
        BY <2>1, <2>5, <4>1 DEF Rounds
    <3> QED
      BY <3>1, <3>2
  <2> HIDE DEF g
  <2>7. Rounds(g, n + 1, d)
    BY <2>4, <2>5, <2>6 DEF Rounds
  <2> QED
    BY <2>2, <2>7
<1>3. 0..MaxDepts \subseteq T
  <2> HIDE DEF T
  <2> QED
    BY <1>0, <1>1, <1>2, BoundedInduction
<1> QED
  BY <1>0, <1>3

\* The recursive definition of Ancestors has these values.
LEMMA AncestorsAreRounds ==
  ASSUME TypeOK, NEW d \in Id
  PROVE  \E f : Rounds(f, MaxDepts, d) /\ Ancestors(d) = f[MaxDepts] \ {0}
<1> DEFINE Is(f) == f = [n \in 0..MaxDepts |-> IF n = 0 THEN {d} ELSE Upward(f[n - 1])]
           up == CHOOSE f : Is(f)
<1>0. MaxDepts \in Nat
  BY OrgConstants
<1>1. PICK f : Rounds(f, MaxDepts, d)
  BY RoundsExist
<1>2. Is(f)
  <2>1. ASSUME NEW n \in 0..MaxDepts PROVE f[n] = IF n = 0 THEN {d} ELSE Upward(f[n - 1])
    <3>1. CASE n = 0
      BY <1>1, <3>1 DEF Rounds
    <3>2. CASE n # 0
      <4>1. n - 1 \in 0..MaxDepts /\ n - 1 < MaxDepts /\ (n - 1) + 1 = n
        BY <1>0, <3>2
      <4> QED
        BY <1>1, <3>2, <4>1 DEF Rounds
    <3> QED
      BY <3>1, <3>2
  <2> QED
    BY <1>1, <2>1 DEF Rounds
<1>3. Is(up)
  <2> HIDE DEF Is
  <2> QED
    BY <1>2, Zenon
<1>4. Ancestors(d) = up[MaxDepts] \ {0}
  BY Zenon DEF Ancestors
<1> DEFINE T == {n \in 0..MaxDepts : up[n] = f[n]}
<1>5. 0 \in T
  <2> HIDE DEF up
  <2> QED
    BY <1>0, <1>2, <1>3
<1>6. ASSUME NEW n \in 0..MaxDepts, n \in T, n < MaxDepts PROVE n + 1 \in T
  <2>1. n + 1 \in 0..MaxDepts /\ n + 1 # 0 /\ (n + 1) - 1 = n
    BY <1>0, <1>6
  <2>2. up[n + 1] = Upward(up[n]) /\ f[n + 1] = Upward(f[n])
    <3> HIDE DEF up
    <3> QED
      BY <1>2, <1>3, <2>1
  <2> QED
    BY <1>6, <2>1, <2>2
<1>7. MaxDepts \in T
  <2> HIDE DEF T
  <2> QED
    BY <1>0, <1>5, <1>6, BoundedInduction
<1> QED
  BY <1>1, <1>4, <1>7

\* ancestorsOf finds the department and the parents of all it finds: a round
\* that is not the last adds one, and there are only MaxDepts to add.
LEMMA AncestorsHold ==
  ASSUME TypeOK, NEW d \in Id
  PROVE  /\ d \in Ancestors(d) /\ Ancestors(d) \subseteq Id
         /\ \A x \in Ancestors(d) \cap Row : parent[x] \in Ancestors(d) \cup {0}
<1>0. MaxDepts \in Nat /\ d \in 0..MaxDepts /\ d # 0
  BY OrgConstants DEF Id
<1>1. PICK f : Rounds(f, MaxDepts, d) /\ Ancestors(d) = f[MaxDepts] \ {0}
  BY AncestorsAreRounds
<1>2. IsFiniteSet(0..MaxDepts) /\ Cardinality(0..MaxDepts) = MaxDepts + 1
  BY <1>0, FS_Interval
<1>3. ASSUME NEW n \in 0..MaxDepts
      PROVE  f[n] \in SUBSET (0..MaxDepts) /\ IsFiniteSet(f[n]) /\ Cardinality(f[n]) \in Nat
  <2>1. f[n] \in SUBSET (0..MaxDepts)
    BY <1>1 DEF Rounds
  <2> QED
    BY <1>2, <2>1, FS_Subset, FS_CardinalityType
<1> DEFINE Stable(n) == Upward(f[n]) = f[n]
           T == {n \in 0..MaxDepts : d \in f[n] /\ (Stable(n) \/ Cardinality(f[n]) > n)}
<1>4. 0 \in T
  <2>1. f[0] = {d}
    BY <1>1 DEF Rounds
  <2> QED
    BY <1>0, <2>1, FS_Singleton
<1>5. ASSUME NEW n \in 0..MaxDepts, n \in T, n < MaxDepts PROVE n + 1 \in T
  <2>1. n + 1 \in 0..MaxDepts /\ f[n + 1] = Upward(f[n])
    BY <1>0, <1>1, <1>5 DEF Rounds
  <2>2. f[n] \subseteq f[n + 1] /\ d \in f[n + 1]
    BY <1>3, <1>5, <2>1, UpwardType
  <2>3. CASE Stable(n)
    <3>1. Stable(n + 1)
      BY <2>1, <2>3
    <3> QED
      BY <2>1, <2>2, <3>1
  <2>4. CASE ~Stable(n)
    <3>1. Cardinality(f[n]) > n /\ f[n] # f[n + 1]
      BY <1>5, <2>1, <2>4
    <3>2. Cardinality(f[n]) < Cardinality(f[n + 1])
      <4>1. /\ Cardinality(f[n]) <= Cardinality(f[n + 1])
            /\ Cardinality(f[n + 1]) = Cardinality(f[n]) => f[n + 1] = f[n]
        BY <1>3, <2>1, <2>2, FS_Subset
      <4> QED
        BY <1>3, <2>1, <3>1, <4>1
    <3>3. Cardinality(f[n + 1]) > n + 1
      BY <1>0, <1>3, <2>1, <3>1, <3>2
    <3> QED
      BY <2>1, <2>2, <3>3
  <2> QED
    BY <2>3, <2>4
<1>6. MaxDepts \in T
  <2> HIDE DEF T
  <2> QED
    BY <1>0, <1>4, <1>5, BoundedInduction
<1>7. d \in f[MaxDepts] /\ f[MaxDepts] \in SUBSET (0..MaxDepts)
  BY <1>0, <1>3, <1>6
<1>8. Upward(f[MaxDepts]) = f[MaxDepts]
  <2>1. CASE Cardinality(f[MaxDepts]) > MaxDepts
    <3>1. /\ Cardinality(f[MaxDepts]) <= MaxDepts + 1 /\ Cardinality(f[MaxDepts]) \in Nat
          /\ MaxDepts + 1 = Cardinality(f[MaxDepts]) => 0..MaxDepts = f[MaxDepts]
      BY <1>0, <1>2, <1>3, <1>7, FS_Subset
    <3>2. 0..MaxDepts = f[MaxDepts]
      BY <1>0, <2>1, <3>1
    <3> QED
      BY <1>7, <3>2, UpwardType
  <2> QED
    BY <1>6, <2>1
<1>9. \A x \in f[MaxDepts] \cap Row : parent[x] \in f[MaxDepts]
  BY <1>8 DEF Upward
<1> QED
  BY <1>0, <1>1, <1>7, <1>9 DEF Id

\* It finds nothing that another set with these two properties does not hold.
LEMMA AncestorsAreLeast ==
  ASSUME TypeOK, NEW d \in Id, NEW S, d \in S, \A x \in S \cap Row : parent[x] \in S
  PROVE  Ancestors(d) \subseteq S
<1>0. MaxDepts \in Nat
  BY OrgConstants
<1>1. PICK f : Rounds(f, MaxDepts, d) /\ Ancestors(d) = f[MaxDepts] \ {0}
  BY AncestorsAreRounds
<1> DEFINE T == {n \in 0..MaxDepts : f[n] \subseteq S}
<1>2. 0 \in T
  BY <1>0, <1>1 DEF Rounds
<1>3. ASSUME NEW n \in 0..MaxDepts, n \in T, n < MaxDepts PROVE n + 1 \in T
  <2>1. n + 1 \in 0..MaxDepts /\ f[n + 1] = Upward(f[n])
    BY <1>0, <1>1, <1>3 DEF Rounds
  <2> QED
    BY <1>3, <2>1 DEF Upward
<1>4. MaxDepts \in T
  <2> HIDE DEF T
  <2> QED
    BY <1>0, <1>2, <1>3, BoundedInduction
<1> QED
  BY <1>1, <1>4

\* The two walks are each other's inverse, on a tree and on a cycle alike.
LEMMA AncestorsAndSubtrees ==
  ASSUME TypeOK, NEW d \in Id, NEW x \in Id
  PROVE  x \in Ancestors(d) <=> d \in Subtree(x)
<1>0. Row \subseteq Id /\ Id \subseteq 0..MaxDepts /\ 0 \notin Id /\ 0..MaxDepts = Id \cup {0}
  BY OrgConstants DEF Row, Id
<1>1. \A r \in Row : parent[r] \in Id \cup {0}
  BY <1>0 DEF TypeOK
<1>2. ASSUME d \in Subtree(x) PROVE x \in Ancestors(d)
  <2> DEFINE S == {e \in Id : x \in Ancestors(e)}
  <2>1. x \in S
    BY AncestorsHold
  <2>2. ASSUME NEW r \in Row, parent[r] \in S PROVE r \in S
    <3>1. r \in Id /\ parent[r] \in Id /\ x \in Ancestors(parent[r])
      BY <1>0, <2>2
    <3>2. parent[r] \in Ancestors(r)
      BY <1>0, <3>1, AncestorsHold
    <3> DEFINE A == Ancestors(r) \cup {0}
    <3>3. \A y \in A \cap Row : parent[y] \in A
      BY <1>0, <3>1, AncestorsHold
    <3>4. Ancestors(parent[r]) \subseteq A
      <4> HIDE DEF A
      <4>1. parent[r] \in A
        BY <3>2 DEF A
      <4> QED
        BY <3>1, <3>3, <4>1, AncestorsAreLeast
    <3> QED
      BY <1>0, <3>1, <3>4
  <2>3. S \in SUBSET Id /\ Closed(S)
    BY <2>2 DEF Closed
  <2>4. d \in S
    <3> HIDE DEF S
    <3> QED
      BY <1>2, <2>1, <2>3 DEF Subtree
  <2> QED
    BY <2>4
<1>3. ASSUME x \in Ancestors(d) PROVE d \in Subtree(x)
  <2> DEFINE S == {y \in Id : d \in Subtree(y)} \cup {0}
  <2>1. d \in S
    BY DEF Subtree
  <2>2. ASSUME NEW y \in S \cap Row PROVE parent[y] \in S
    <3>1. y \in Row /\ d \in Subtree(y)
      BY <1>0, <2>2
    <3>2. CASE parent[y] # 0
      <4>1. parent[y] \in Id
        BY <1>1, <3>1, <3>2
      <4>2. d \in Subtree(parent[y])
        BY <3>1 DEF Subtree, Closed
      <4> QED
        BY <4>1, <4>2
    <3> QED
      BY <3>2
  <2>3. Ancestors(d) \subseteq S
    <3> HIDE DEF S
    <3> QED
      BY <2>1, <2>2, AncestorsAreLeast
  <2> QED
    BY <1>0, <1>3, <2>3
<1> QED
  BY <1>2, <1>3

\* A grant to x reaches whom it should.
LEMMA Inherits ==
  ASSUME TypeOK, NEW u \in User, NEW x \in Row
  PROVE  x \in Effective(u) <=> Reaches(x, u)
<1>0. Row \subseteq Id /\ member[u] \subseteq Id /\ x \in Id
  BY DEF TypeOK, Row
<1> DEFINE Above == UNION {Ancestors(d) : d \in member[u]}
           Led == UNION {Subtree(d) : d \in {y \in Row : leader[y] = u}}
<1>1. x \in Above <=> member[u] \cap Subtree(x) # {}
  BY <1>0, AncestorsAndSubtrees
<1>2. x \in Led <=> \E l \in Row : leader[l] = u /\ l \in Ancestors(x)
  BY <1>0, AncestorsAndSubtrees
<1>3. x \in Holder(Everyone) <=> name[x] = Everyone
  BY DEF Holder
<1>4. Effective(u) = Row \cap (Above \cup Led \cup Holder(Everyone))
  BY Zenon DEF Effective
<1> HIDE DEF Above, Led
<1>5. x \in Effective(u) <=> x \in Above \/ x \in Led \/ x \in Holder(Everyone)
  BY <1>4
<1> QED
  BY <1>1, <1>2, <1>3, <1>5, Zenon DEF Reaches

\* What a user is granted through departments is what the comment of
\* UserEffectiveGroups describes, in every state that requests and logins
\* reach, raced or not.
THEOREM GrantsAreInherited == Spec => []EffectiveIsInheritance
<1>1. IInv => EffectiveIsInheritance
  BY Inherits DEF IInv, EffectiveIsInheritance
<1> QED
  BY <1>1, OrgInvariance, PTL
=============================================================================
