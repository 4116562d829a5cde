------------------------------- MODULE OrgTree -------------------------------
(***************************************************************************)
(* The organisation and what it is granted: departments with a parent and  *)
(* a leader (the groups table), the members of a department, the grants of *)
(* a skill or plugin, which name a department, and those of a knowledge    *)
(* folder, which refer to its id.  Administrators change all of these from *)
(* several browsers while users of an external directory log in and have   *)
(* their groups synchronised.  One resource of each kind is enough: grants *)
(* of different resources never meet.                                      *)
(***************************************************************************)
EXTENDS Naturals, FiniteSets

CONSTANTS Handler,    \* administration requests served at the same time
          Updater,    \* those that may be a PUT of a department
          User,
          NoUser,     \* leader_id = 0
          Name,       \* department names
          Everyone,   \* the reserved name of the implicit department
          NoName,     \* the name of a row that does not exist
          MaxDepts,   \* bound: groups.id
          MaxLed,     \* bound: departments that have a leader
          MaxGrants   \* bound: grants of the resource, both kinds together

ASSUME OrgConstants ==
  /\ Updater \subseteq Handler
  /\ Everyone \in Name /\ NoName \notin Name /\ NoUser \notin User
  /\ IsFiniteSet(Name)
  /\ MaxDepts \in Nat \ {0} /\ MaxGrants \in Nat /\ MaxLed \in Nat

VARIABLES name, parent, leader,   \* the groups table, parent 0 is the top
          nextId,                 \* its AUTOINCREMENT sequence
          member,                 \* user_groups
          grant,                  \* skill_grants, mcp_grants: the names, with
                                  \* the department that was meant
          folder,                 \* kb_folder_groups
          pc, req,                \* each request, what it has read so far
          raced                   \* a write landed inside another request

tree == <<name, parent, leader, nextId>>
acl  == <<grant, folder>>
vars == <<tree, member, acl, pc, req, raced>>

Id == 1..MaxDepts
Row == {d \in Id : name[d] # NoName}
Holder(n) == {d \in Row : name[d] = n}        \* name is UNIQUE, NOCASE
Request == [id : 0..MaxDepts, old : Name \cup {NoName}, parent : 0..MaxDepts,
            names : SUBSET Name]
Asked(d, n, p, ns) == [id |-> d, old |-> n, parent |-> p, names |-> ns]
NoRequest == Asked(0, NoName, 0, {})

Position == {"idle", "creating", "read", "checked", "granting", "replacing",
             "assigning"}

\* Migration 0018 seeds the implicit department.
Init == /\ name = [d \in Id |-> IF d = 1 THEN Everyone ELSE NoName]
        /\ parent = [d \in Id |-> 0]
        /\ leader = [d \in Id |-> NoUser]
        /\ nextId = 2
        /\ member = [u \in User |-> {}]
        /\ grant = {} /\ folder = {}
        /\ pc = [h \in Handler |-> "idle"]
        /\ req = [h \in Handler |-> NoRequest]
        /\ raced = FALSE

-----------------------------------------------------------------------------
(* Walks of the tree.                                                      *)

\* subtreeGroupIDs and subtreeOf: the smallest set that contains the root and
\* the children of its members.
Closed(S) == \A d \in Row : parent[d] \in S => d \in S
Subtree(r) == {d \in Id : \A S \in SUBSET Id : r \in S /\ Closed(S) => d \in S}

\* One round of ancestorsOf: the parents of what it has found so far.
Upward(S) == S \cup {parent[x] : x \in S \cap Row}

\* These walks do not remember where they were and never leave a cycle.
OnCycle(d) == d \in Row /\ parent[d] \in Subtree(d)

-----------------------------------------------------------------------------
(* Plausible bugs, each the twin of a definition below; see UploadQueue.   *)

\* Only the department itself is excluded as its parent.
MayMoveAnywhereElse(d, p) == p # 0 => p # d /\ p \in Row

\* A rename forgets the grants.
RenamedNot(old, new) == grant

\* The walk upwards stops below the root.
AncestorsBelow(d) ==
  LET up[n \in 0..MaxDepts] == IF n = 0 THEN {d} ELSE Upward(up[n - 1])
  IN {x \in up[MaxDepts] \ {0} : x = d \/ parent[x] # 0}

-----------------------------------------------------------------------------
\* The request goes on with what it has read so far.
Reads(h, s, r) == pc' = [pc EXCEPT ![h] = s] /\ req' = [req EXCEPT ![h] = r]
Done(h) == Reads(h, "idle", NoRequest)
Landed(h) == raced' = (raced \/ \E g \in Handler \ {h} : pc[g] # "idle")

FewLed == Cardinality({d \in Id : leader'[d] # NoUser}) <= MaxLed

\* INSERT INTO groups
Insert(n, p, l) ==
  /\ nextId \in Id /\ Holder(n) = {}
  /\ name' = [name EXCEPT ![nextId] = n]
  /\ parent' = [parent EXCEPT ![nextId] = p]
  /\ leader' = [leader EXCEPT ![nextId] = l]
  /\ nextId' = nextId + 1

\* CreateDepartment: the parent is looked up, then the row is inserted.
CreateCheck(h) ==
  /\ pc[h] = "idle"
  /\ \E p \in Row \cup {0} : Reads(h, "creating", Asked(0, NoName, p, {}))
  /\ UNCHANGED <<tree, member, acl, raced>>

CreateInsert(h) ==
  /\ pc[h] = "creating"
  /\ \E n \in Name \ {Everyone}, l \in User \cup {NoUser} :
       Insert(n, req[h].parent, l)
  /\ FewLed
  /\ Landed(h)
  /\ Done(h)
  /\ UNCHANGED <<member, acl>>

\* UpdateDepartment: GroupByID, then the guards on the parent, then one
\* transaction, which takes for granted what was read before it began.
UpdateRead(h) ==
  /\ h \in Updater /\ pc[h] = "idle"
  /\ \E d \in Row : Reads(h, "read", Asked(d, name[d], 0, {}))
  /\ UNCHANGED <<tree, member, acl, raced>>

MayMove(d, p) ==
  p # 0 => /\ p # d /\ ~ \E x \in Subtree(d) : OnCycle(x)
           /\ p \notin Subtree(d) /\ p \in Row

UpdateCheck(h) ==
  /\ pc[h] = "read"
  /\ \E p \in 0..MaxDepts :
       /\ MayMove(req[h].id, p)
       /\ Reads(h, "checked", Asked(req[h].id, req[h].old, p, {}))
  /\ UNCHANGED <<tree, member, acl, raced>>

\* Grants are by name: a rename takes those of the old name along.
Renamed(old, new) ==
  {[name |-> IF g.name = old THEN new ELSE g.name, id |-> g.id] : g \in grant}

UpdateWrite(h) ==
  /\ pc[h] = "checked"
  /\ LET d == req[h].id  old == req[h].old IN
     \E n \in Name \ {Everyone}, l \in User \cup {NoUser} :
       /\ d \in Row => Holder(n) \subseteq {d}
       /\ n # old => ~ (/\ \E g \in grant : g.name = old
                        /\ \E g \in grant : g.name = n)     \* PRIMARY KEY
       /\ grant' = IF n = old THEN grant ELSE Renamed(old, n)
       /\ \/ /\ d \in Row
             /\ name' = [name EXCEPT ![d] = n]
             /\ parent' = [parent EXCEPT ![d] = req[h].parent]
             /\ leader' = [leader EXCEPT ![d] = l]
          \/ d \notin Row /\ UNCHANGED <<name, parent, leader>>
       /\ FewLed
  /\ Landed(h)
  /\ Done(h)
  /\ UNCHANGED <<nextId, member, folder>>

\* DeleteDepartment: guards and DELETE in one transaction.
Unused(d) ==
  /\ \A u \in User : d \notin member[u]
  /\ \A c \in Row : parent[c] # d
  /\ d \notin folder /\ \A g \in grant : g.name # name[d]

Delete(h) ==
  /\ pc[h] = "idle"
  /\ \E d \in Row :
       /\ name[d] # Everyone /\ Unused(d)
       /\ name' = [name EXCEPT ![d] = NoName]
       /\ parent' = [parent EXCEPT ![d] = 0]
       /\ leader' = [leader EXCEPT ![d] = NoUser]
  /\ Landed(h)
  /\ UNCHANGED <<nextId, member, acl, pc, req>>

-----------------------------------------------------------------------------
(* Grants.  The department is looked up by name, the row written after.    *)

GrantCheck(h) ==
  /\ pc[h] = "idle"
  /\ \E d \in Row : Reads(h, "granting", Asked(d, name[d], 0, {}))
  /\ UNCHANGED <<tree, member, acl, raced>>

Bounded == Cardinality(grant') + Cardinality(folder') <= MaxGrants

\* GrantSkill, GrantMCP: by name.  INSERT OR IGNORE.
GrantByName(h) ==
  /\ pc[h] = "granting"
  /\ grant' = IF \E g \in grant : g.name = req[h].old THEN grant
              ELSE grant \cup {[name |-> req[h].old, id |-> req[h].id]}
  /\ Landed(h)
  /\ Done(h)
  /\ UNCHANGED <<tree, member, folder>>
  /\ Bounded

\* GrantFolderGroup: by id.
GrantById(h) ==
  /\ pc[h] = "granting"
  /\ folder' = folder \cup {req[h].id}
  /\ Landed(h)
  /\ Done(h)
  /\ UNCHANGED <<tree, member, grant>>
  /\ Bounded

\* RevokeSkill, RevokeMCP and RevokeFolderGroup, of a department found before.
Revoke(h) ==
  /\ pc[h] = "granting"
  /\ \/ /\ grant' = {g \in grant : g.name # req[h].old}
        /\ UNCHANGED folder
     \/ folder' = folder \ Holder(req[h].old) /\ UNCHANGED grant
  /\ Landed(h)
  /\ Done(h)
  /\ UNCHANGED <<tree, member>>

\* replaceGroupGrants: every name is looked up, then the set is replaced.
ReplaceCheck(h) ==
  /\ pc[h] = "idle"
  /\ \E ns \in SUBSET {name[d] : d \in Row} :
       Reads(h, "replacing", Asked(0, NoName, 0, ns))
  /\ UNCHANGED <<tree, member, acl, raced>>

\* The department a name means now; 0 when there is none.
Meant(n) == IF Holder(n) = {} THEN 0 ELSE CHOOSE d \in Holder(n) : TRUE

ReplaceByName(h) ==
  /\ pc[h] = "replacing"
  /\ grant' = {[name |-> n, id |-> Meant(n)] : n \in req[h].names}
  /\ Landed(h)
  /\ Done(h)
  /\ UNCHANGED <<tree, member, folder>>
  /\ Bounded

-----------------------------------------------------------------------------
(* SyncUserGroups, one transaction: GetOrCreateGroup for each name.        *)

\* The ids that the names have afterwards.
Synced(names) == {d \in Id : name'[d] \in names}

\* Names that are new get a row at the top, in some order.
CreateMissing(names) ==
  LET missing == {n \in names : Holder(n) = {}}
      new == nextId..(nextId + Cardinality(missing) - 1)
  IN /\ Everyone \notin names
     /\ new \subseteq Id
     /\ \E f \in [new -> missing] :
          /\ \A d, e \in new : f[d] = f[e] => d = e
          /\ name' = [d \in Id |-> IF d \in new THEN f[d] ELSE name[d]]
     /\ nextId' = nextId + Cardinality(missing)
     /\ UNCHANGED <<parent, leader>>

\* The groups of an external user, at each login.
SyncLogin(u) ==
  \E ns \in SUBSET Name :
    /\ CreateMissing(ns)
    /\ member' = [member EXCEPT ![u] = Synced(ns)]
    /\ UNCHANGED <<acl, pc, req, raced>>

\* setUserDepartment: the id becomes a name, the name an id again.
AssignCheck(h) ==
  /\ pc[h] = "idle"
  /\ \/ \E d \in Row : Reads(h, "assigning", Asked(0, NoName, 0, {name[d]}))
     \/ Reads(h, "assigning", NoRequest)
  /\ UNCHANGED <<tree, member, acl, raced>>

Assign(h) ==
  /\ pc[h] = "assigning"
  /\ CreateMissing(req[h].names)
  /\ \E u \in User : member' = [member EXCEPT ![u] = Synced(req[h].names)]
  /\ Landed(h)
  /\ Done(h)
  /\ UNCHANGED acl

\* ReplaceFolderGroupGrants takes the ids from GetOrCreateGroup too.
ReplaceById(h) ==
  /\ pc[h] = "replacing"
  /\ CreateMissing(req[h].names)
  /\ folder' = Synced(req[h].names)
  /\ Landed(h)
  /\ Done(h)
  /\ UNCHANGED <<member, grant>>
  /\ Bounded

\* A guard of the request fails, or its statement does.
Refuse(h) ==
  /\ pc[h] # "idle"
  /\ Done(h)
  /\ UNCHANGED <<tree, member, acl, raced>>

-----------------------------------------------------------------------------
Step(h) == \/ CreateCheck(h) \/ CreateInsert(h)
           \/ UpdateRead(h) \/ UpdateCheck(h) \/ UpdateWrite(h)
           \/ Delete(h)
           \/ GrantCheck(h) \/ GrantByName(h) \/ GrantById(h) \/ Revoke(h)
           \/ ReplaceCheck(h) \/ ReplaceByName(h) \/ ReplaceById(h)
           \/ AssignCheck(h) \/ Assign(h)
           \/ Refuse(h)

Next == \/ \E h \in Handler : Step(h)
        \/ \E u \in User : SyncLogin(u)

Spec == Init /\ [][Next]_vars

-----------------------------------------------------------------------------
(* UserEffectiveGroups: what a user is granted through departments.        *)

\* ancestorsOf, the department included.
Ancestors(d) ==
  LET up[n \in 0..MaxDepts] == IF n = 0 THEN {d} ELSE Upward(up[n - 1])
  IN up[MaxDepts] \ {0}

Effective(u) ==
  Row \cap ((UNION {Ancestors(d) : d \in member[u]})
            \cup (UNION {Subtree(d) : d \in {x \in Row : leader[x] = u}})
            \cup Holder(Everyone))

-----------------------------------------------------------------------------
(* Every variable has its type.                                            *)
TypeOK ==
  /\ name \in [Id -> Name \cup {NoName}]
  /\ parent \in [Id -> 0..MaxDepts]
  /\ leader \in [Id -> User \cup {NoUser}]
  /\ nextId \in 1..(MaxDepts + 1)
  /\ member \in [User -> SUBSET Id]
  /\ grant \subseteq [name : Name, id : 0..MaxDepts]
  /\ folder \subseteq Id
  /\ pc \in [Handler -> Position]
  /\ req \in [Handler -> Request]
  /\ raced \in BOOLEAN

(* No department is its own ancestor ("parent must ... not be the          *)
(* department itself or a descendant (cycle)", UpdateDepartment): every    *)
(* set of departments has one whose parent is not in it.  subtreeOf loops  *)
(* for ever on a cycle.                                                    *)
Acyclic == \A S \in SUBSET Row : S # {} => \E d \in S : parent[d] \notin S

(* A member's department exists, whatever races: it is found or created in *)
(* the transaction that writes the membership, and members are counted in  *)
(* the one that deletes.  As long as requests do not overlap, so does a    *)
(* parent; a grant by name means the department it was given to, over      *)
(* renames ("existing grants keep resolving", UpdateDepartment), and a     *)
(* folder's grant one that exists.                                         *)
MembersResolve == \A u \in User : member[u] \subseteq Row
ParentsResolve == \A d \in Row : parent[d] \in Row \cup {0}
GrantsResolve  == /\ \A g \in grant : Holder(g.name) = {g.id}
                  /\ folder \subseteq Row
ReferencesResolve ==
  MembersResolve /\ (~raced => ParentsResolve /\ GrantsResolve)

(* What Effective walks up and down for is the inheritance that the comment*)
(* of UserEffectiveGroups describes: a grant to x reaches u iff u is a     *)
(* member somewhere below x, or leads a department above x, or x is the    *)
(* implicit department.                                                    *)
Reaches(x, u) ==
  \/ member[u] \cap Subtree(x) # {}
  \/ \E l \in Row : leader[l] = u /\ l \in Ancestors(x)
  \/ name[x] = Everyone
EffectiveIsInheritance ==
  Acyclic => \A u \in User, x \in Row : x \in Effective(u) <=> Reaches(x, u)

(* What the proofs show to hold always: a name is held by one row, a free  *)
(* id has no parent, and rows refer to ids that have been given out; at    *)
(* most one department is moved at a time, to a place that is not below    *)
(* it; and as long as requests do not overlap, what a request has read is  *)
(* still so.                                                               *)
RowsOK ==
  /\ \A d, e \in Row : name[d] = name[e] => d = e
  /\ \A d \in Id : d \notin Row => parent[d] = 0
  /\ \A d \in Row : d < nextId /\ parent[d] < nextId
MoveOK(h) ==
  /\ pc[h] \in {"read", "checked"} => h \in Updater
  /\ pc[h] = "checked" => req[h].parent \notin Subtree(req[h].id)
AskedOK(h) ==
  /\ req[h].parent < nextId
  /\ pc[h] \in {"read", "checked", "granting"} => req[h].id \in Id /\ req[h].old \in Name
ReadOK(h) ==
  /\ pc[h] = "creating" => req[h].parent \in Row \cup {0}
  /\ pc[h] \in {"read", "checked", "granting"} =>
       req[h].id \in Row /\ name[req[h].id] = req[h].old
  /\ pc[h] = "checked" => req[h].parent \in Row \cup {0}
  /\ pc[h] = "replacing" => req[h].names \subseteq {name[d] : d \in Row}
IInv ==
  /\ TypeOK /\ RowsOK /\ ReferencesResolve
  /\ \A h \in Handler : AskedOK(h) /\ (~raced => ReadOK(h))
TreeInv ==
  IInv /\ Acyclic /\ \A h \in Handler : MoveOK(h)
=============================================================================
