------------------------------ MODULE Accounts ------------------------------
(***************************************************************************)
(* User accounts and their credentials: the users table, the API tokens of *)
(* the clients and the sessions of the administration site.                *)
(* Administrators create, update and delete users, clients and             *)
(* administrators log in (with a local password or through an identity     *)
(* provider), all at once: one action is one statement or one transaction, *)
(* and a handler keeps what it read in between.  What departments are      *)
(* granted is the subject of OrgTree.                                      *)
(***************************************************************************)
EXTENDS Naturals, FiniteSets

CONSTANTS Proc,        \* requests served at the same time
          Name,        \* user names
          NoName,      \* the name of a row that does not exist
          Boot,        \* --bootstrap-admin
          Directory,   \* the names an identity provider knows
          Password,    \* password hashes; a new one differs from the old
          NoPw,        \* an external user's
          MaxUsers     \* bound: users.id

ASSUME AccountConstants ==
  /\ Boot \in Name /\ NoName \notin Name /\ Directory \subseteq Name
  /\ Password # {} /\ NoPw \notin Password
  /\ MaxUsers \in Nat \ {0}

VARIABLES user,      \* the users table
          nextUid,   \* its AUTOINCREMENT sequence
          token,     \* api_tokens that are neither revoked nor expired, with
                     \* the provider that accepted the login
          session,   \* users with an admin session
          up,        \* the server runs
          pc, req,   \* each request: its position, what it has read so far
          raced      \* an admin's write landed inside another admin request

vars == <<user, nextUid, token, session, up, pc, req, raced>>
rows == <<user, nextUid>>
creds == <<token, session>>

Uid == 1..MaxUsers
Pw == Password \cup {NoPw}
Source == {"local", "external"}
Row == [name : Name \cup {NoName}, src : Source, pw : Pw, admin : BOOLEAN,
        active : BOOLEAN]
NoRow == [name |-> NoName, src |-> "local", pw |-> NoPw, admin |-> FALSE,
          active |-> FALSE]
Request == [kind : {"none", "client", "admin"}, actor : 0..MaxUsers,
            uid : 0..MaxUsers, row : Row, name : Name \cup {NoName},
            src : Source]
\* What a request of an administrator knows, and what a login does.
Asked(actor, uid, row) ==
  [kind |-> "none", actor |-> actor, uid |-> uid, row |-> row, name |-> NoName,
   src |-> "local"]
Claimed(kind, name, src, uid, row) ==
  [kind |-> kind, actor |-> 0, uid |-> uid, row |-> row, name |-> name, src |-> src]
NoRequest == Asked(0, 0, NoRow)

Present(u) == user[u].name # NoName
Holder(n) == {u \in Uid : user[u].name = n}        \* username is UNIQUE
Admins == {u \in Uid : user[u].admin}
Busy(p) == pc[p] \in {"authed", "read", "created", "promoting"}

\* The first start with --bootstrap-admin has made the administrator.
BootRow(w) == [name |-> Boot, src |-> "local", pw |-> w, admin |-> TRUE,
               active |-> TRUE]

Init == /\ \E w \in Password :
             user = [u \in Uid |-> IF u = 1 THEN BootRow(w) ELSE NoRow]
        /\ nextUid = 2
        /\ token = {} /\ session = {}
        /\ up = TRUE /\ raced = FALSE
        /\ pc = [p \in Proc |-> "idle"]
        /\ req = [p \in Proc |-> NoRequest]

Goto(p, s) == pc' = [pc EXCEPT ![p] = s]
Knows(p, r) == req' = [req EXCEPT ![p] = r]
Done(p) == Goto(p, "idle") /\ Knows(p, NoRequest)
\* A write of an admin request; history for the properties.
Landed(p) == raced' = (raced \/ \E q \in Proc \ {p} : Busy(q))

InsertUser(n, s, w) ==
  /\ nextUid \in Uid /\ Holder(n) = {}
  /\ user' = [user EXCEPT ![nextUid] = [name |-> n, src |-> s, pw |-> w,
                                        admin |-> FALSE, active |-> TRUE]]
  /\ nextUid' = nextUid + 1

-----------------------------------------------------------------------------
(* Plausible bugs, each the twin of a definition below; see UploadQueue.   *)

\* The source check comes before the second look at the row (C-13).
IssueUnchecked(p) ==
  /\ pc[p] = "found" /\ req[p].kind = "client" /\ req[p].row.active
  /\ Present(req[p].uid)
  /\ token' = token \cup {[uid |-> req[p].uid, src |-> req[p].src]}
  /\ Done(p)
  /\ UNCHANGED <<rows, session, up, raced>>

\* A connection of the pool without PRAGMA foreign_keys.
IssueWithoutForeignKey(p) ==
  /\ pc[p] = "found" /\ req[p].kind = "client" /\ req[p].row.active
  /\ req[p].src = "external" => req[p].row.src = "external"
  /\ token' = token \cup {[uid |-> req[p].uid, src |-> req[p].src]}
  /\ Done(p)
  /\ UNCHANGED <<rows, session, up, raced>>

\* The administrators are counted before the row is gone.
RemovableCountingFirst(u) == user[u].admin => Cardinality(Admins) >= 1

\* A row that stays active keeps its tokens, whatever else has changed.
RevokesOnlyWhenDisabled(old, new) == old.active /\ ~new.active

\* Nobody keeps an administrator from disabling himself.
AllowedOnSelf(old, new) == old.admin => new.admin

-----------------------------------------------------------------------------
(* The administration API.                                                 *)

\* adminAuth: a session of an active administrator.
Authenticate(p) ==
  /\ up /\ pc[p] = "idle"
  /\ \E a \in session : /\ user[a].admin /\ user[a].active
                        /\ Knows(p, Asked(a, 0, NoRow))
  /\ Goto(p, "authed")
  /\ UNCHANGED <<rows, creds, up, raced>>

\* updateUser, GetUserByID.
UpdateRead(p) ==
  /\ pc[p] = "authed"
  /\ \E u \in Uid : /\ Present(u)
                    /\ Knows(p, Asked(req[p].actor, u, user[u]))
  /\ Goto(p, "read")
  /\ UNCHANGED <<rows, creds, up, raced>>

\* What a request may make of the row it has read: any of the fields.
Changes(old) ==
  {new \in [name : {old.name}, src : {old.src}, pw : Password \cup {old.pw},
            admin : BOOLEAN, active : BOOLEAN] :
     old.src = "external" => new.pw = old.pw}

\* "cannot disable/remove admin rights of yourself"
Allowed(old, new) == old.admin => new.admin /\ new.active

\* demote: the change revokes all tokens.
Revokes(old, new) == \/ new.pw # old.pw
                     \/ old.admin /\ ~new.admin
                     \/ old.active /\ ~new.active

\* UpdateUser and UpdateUserRevokingTokens write the whole row as it was read.
UpdateWrite(p) ==
  /\ pc[p] = "read"
  /\ LET u == req[p].uid  old == req[p].row IN
     \E new \in Changes(old) :
       /\ u = req[p].actor => Allowed(old, new)
       /\ \/ /\ Present(u)
             /\ user' = [user EXCEPT ![u] = new]
             /\ token' = IF Revokes(old, new)
                           THEN {t \in token : t.uid # u} ELSE token
             /\ Landed(p)
          \/ ~Present(u) /\ UNCHANGED <<user, token, raced>>
  /\ Done(p)
  /\ UNCHANGED <<nextUid, session, up>>

\* createUser: INSERT, and a second write of the row for an administrator.
CreateInsert(p) ==
  /\ pc[p] = "authed"
  /\ \E n \in Name, w \in Password : InsertUser(n, "local", w)
  /\ Landed(p)
  /\ \/ Done(p)
     \/ Goto(p, "created") /\ Knows(p, Asked(0, nextUid, NoRow))
  /\ UNCHANGED <<creds, up>>

CreateRead(p) ==
  /\ pc[p] = "created"
  /\ LET u == req[p].uid IN
       \/ /\ Present(u)
          /\ Knows(p, Asked(0, u, user[u]))
          /\ Goto(p, "promoting")
       \/ ~Present(u) /\ Done(p)
  /\ UNCHANGED <<rows, creds, up, raced>>

Promoted(row) == [name |-> row.name, src |-> row.src, pw |-> row.pw, admin |-> TRUE,
                  active |-> TRUE]
CreatePromote(p) ==
  /\ pc[p] = "promoting"
  /\ LET u == req[p].uid IN
       \/ /\ Present(u)
          /\ user' = [user EXCEPT ![u] = Promoted(req[p].row)]
          /\ Landed(p)
       \/ ~Present(u) /\ UNCHANGED <<user, raced>>
  /\ Done(p)
  /\ UNCHANGED <<nextUid, creds, up>>

\* DeleteUser: the guard and the cascade are in one transaction.
Removable(u) == user[u].admin => Cardinality(Admins \ {u}) > 0

Cascade(u) ==
  /\ token' = {t \in token : t.uid # u}
  /\ session' = session \ {u}

Delete(p) ==
  /\ pc[p] = "authed"
  /\ \E u \in Uid \ {req[p].actor} :
       /\ Present(u) /\ Removable(u)
       /\ user' = [user EXCEPT ![u] = NoRow]
       /\ Cascade(u)
  /\ Landed(p)
  /\ Done(p)
  /\ UNCHANGED <<nextUid, up>>

\* Every other handler, and a request that is refused.
Return(p) ==
  /\ pc[p] \in {"authed", "read"}
  /\ Done(p)
  /\ UNCHANGED <<rows, creds, up, raced>>

-----------------------------------------------------------------------------
(* Logging in: /api/auth/login and /api/admin/login.                       *)

\* A provider accepts the password: AuthenticateLocal, or the directory.
Verify(p, k) ==
  /\ up /\ pc[p] = "idle"
  /\ \/ \E u \in Uid :
          /\ Present(u)
          /\ user[u].src = "local" /\ user[u].pw # NoPw /\ user[u].active
          /\ Knows(p, Claimed(k, user[u].name, "local", 0, NoRow))
     \/ \E n \in Directory : Knows(p, Claimed(k, n, "external", 0, NoRow))
  /\ Goto(p, "verified")
  /\ UNCHANGED <<rows, creds, up, raced>>

\* provisionUser: GetUserByUsername.
Lookup(p) ==
  /\ pc[p] = "verified"
  /\ \/ \E u \in Holder(req[p].name) :
          /\ Knows(p, Claimed(req[p].kind, NoName, req[p].src, u, user[u]))
          /\ Goto(p, "found")
     \/ Holder(req[p].name) = {} /\ Goto(p, "absent") /\ UNCHANGED req
  /\ UNCHANGED <<rows, creds, up, raced>>

\* CreateUser, or a concurrent first login was faster (C-13).
Provision(p) ==
  /\ pc[p] = "absent"
  /\ \/ /\ InsertUser(req[p].name, req[p].src, NoPw)
        /\ Knows(p, Claimed(req[p].kind, req[p].name, req[p].src, nextUid, NoRow))
     \/ Holder(req[p].name) # {} /\ UNCHANGED <<user, nextUid, req>>
  /\ Goto(p, "refetch")
  /\ UNCHANGED <<creds, up, raced>>

\* GetUserByID of the new row, GetUserByUsername of the other's.
Refetch(p) ==
  /\ pc[p] = "refetch"
  /\ LET found == IF req[p].uid # 0 THEN {req[p].uid} \cap {u \in Uid : Present(u)}
                  ELSE Holder(req[p].name)
     IN \/ \E u \in found :
             /\ Knows(p, Claimed(req[p].kind, NoName, req[p].src, u, user[u]))
             /\ Goto(p, "found")
        \/ found = {} /\ Done(p)
  /\ UNCHANGED <<rows, creds, up, raced>>

\* The checks on the row that was read, IssueToken; user_id REFERENCES users.
Issue(p) ==
  /\ pc[p] = "found" /\ req[p].kind = "client" /\ req[p].row.active
  /\ req[p].src = "external" => req[p].row.src = "external"
  /\ Present(req[p].uid)
  /\ token' = token \cup {[uid |-> req[p].uid, src |-> req[p].src]}
  /\ Done(p)
  /\ UNCHANGED <<rows, session, up, raced>>

\* CreateAdminSession.
OpenSession(p) ==
  /\ pc[p] = "found" /\ req[p].kind = "admin" /\ req[p].row.admin
  /\ req[p].src = "external" => req[p].row.src = "external"
  /\ Present(req[p].uid)
  /\ session' = session \cup {req[p].uid}
  /\ Done(p)
  /\ UNCHANGED <<rows, token, up, raced>>

\* One of the checks fails, or the foreign key does.
Refuse(p) ==
  /\ pc[p] = "found"
  /\ \/ req[p].src = "external" /\ req[p].row.src # "external"
     \/ req[p].kind = "client" /\ ~req[p].row.active
     \/ req[p].kind = "admin" /\ ~req[p].row.admin
     \/ ~Present(req[p].uid)
  /\ Done(p)
  /\ UNCHANGED <<rows, creds, up, raced>>

\* Logout, an administrator's revocation, the end of the lifetime.
Expire ==
  /\ \/ \E t \in token : token' = token \ {t} /\ UNCHANGED session
     \/ \E u \in session : session' = session \ {u} /\ UNCHANGED token
  /\ UNCHANGED <<rows, up, pc, req, raced>>

\* The server restarts with --bootstrap-admin (EnsureBootstrapAdmin).
Restart ==
  /\ \/ Admins # {} /\ up' = TRUE /\ UNCHANGED rows
     \/ /\ Admins = {} /\ Holder(Boot) = {}
        /\ nextUid \in Uid
        /\ \E w \in Password : user' = [user EXCEPT ![nextUid] = BootRow(w)]
        /\ nextUid' = nextUid + 1
        /\ up' = TRUE
     \/ Admins = {} /\ Holder(Boot) # {} /\ up' = FALSE /\ UNCHANGED rows
  /\ pc' = [p \in Proc |-> "idle"]
  /\ req' = [p \in Proc |-> NoRequest]
  /\ UNCHANGED <<creds, raced>>

-----------------------------------------------------------------------------
Admin(p) == \/ Authenticate(p) \/ UpdateRead(p) \/ UpdateWrite(p)
            \/ CreateInsert(p) \/ CreateRead(p) \/ CreatePromote(p)
            \/ Delete(p) \/ Return(p)
Login(p) == \/ Verify(p, "client") \/ Verify(p, "admin")
            \/ Lookup(p) \/ Provision(p) \/ Refetch(p)
            \/ Issue(p) \/ OpenSession(p) \/ Refuse(p)

Next == \/ \E p \in Proc : Admin(p) \/ Login(p)
        \/ Expire \/ Restart

Spec == Init /\ [][Next]_vars

-----------------------------------------------------------------------------
Step == {"idle", "authed", "read", "created", "promoting",
         "verified", "absent", "refetch", "found"}

(* Every variable has its type.                                            *)
TypeOK ==
  /\ user \in [Uid -> Row]
  /\ nextUid \in 1..(MaxUsers + 1)
  /\ token \subseteq [uid : Uid, src : Source]
  /\ session \subseteq Uid
  /\ up \in BOOLEAN /\ raced \in BOOLEAN
  /\ pc \in [Proc -> Step]
  /\ req \in [Proc -> Request]

(* A token and a session belong to a row that exists: a login in flight    *)
(* while its account is deleted leaves no credential behind.               *)
CredentialsHaveOwners ==
  /\ \A t \in token : Present(t.uid)
  /\ \A u \in session : Present(u)

(* "An external identity ... must never adopt the local row" (provision-   *)
(* User): a token an external login was given belongs to an external row,  *)
(* also when the row appears, or is replaced, in the middle of the login.  *)
ExternalNeverAdoptsLocal ==
  \A t \in token : t.src = "external" => user[t.uid].src = "external"

(* No delete leaves the table without an administrator, two administrators *)
(* who delete each other at the same moment included (C-17).               *)
DeletesLeaveAnAdmin ==
  [][Admins # {} /\ (\E u \in Uid : Present(u) /\ ~Present(u)') => Admins' # {}]_vars

(* The site always has an administrator who can log in, as long as the     *)
(* administrators' requests do not overlap.  When they do, two who demote  *)
(* or disable each other leave none: updateUser's guard "cannot disable/   *)
(* remove admin rights of yourself or the last admin" looks at the actor   *)
(* only.                                                                   *)
AnAdmin == \E u \in Uid : user[u].admin /\ user[u].active
AnAdminWhenSerial == ~raced => AnAdmin

(* A change of password, a demotion and a disabling leave no older token   *)
(* alive, as long as the administrators' requests do not overlap.          *)
Weakened(u) == /\ Present(u) /\ Present(u)'
               /\ \/ user'[u].pw # user[u].pw
                  \/ user[u].admin /\ ~user'[u].admin
                  \/ user[u].active /\ ~user'[u].active
ChangesRevoke ==
  [][~raced' => \A u \in Uid : Weakened(u) => \A t \in token' : t.uid # u]_vars

(* What the proofs show to hold always.  A request has read a row of which *)
(* the name and the source are still as they were, unless it is gone, and  *)
(* all of it and its actor's rights when no write has landed meanwhile.    *)
ReqOK(p) ==
  /\ req[p].uid < nextUid /\ req[p].actor < nextUid
  /\ pc[p] \in {"verified", "absent", "refetch"} => req[p].name # NoName
  /\ pc[p] \in {"authed", "read"} => req[p].actor # 0
  /\ pc[p] \in {"read", "created", "promoting", "found"} => req[p].uid # 0
  /\ pc[p] \in {"read", "promoting", "found"} =>
       LET u == req[p].uid  row == req[p].row IN
         /\ row.name # NoName
         /\ Present(u) => user[u].name = row.name /\ user[u].src = row.src
SerialOK(p) ==
  ~raced => /\ pc[p] \in {"read", "promoting"} => user[req[p].uid] = req[p].row
            /\ pc[p] \in {"authed", "read"} => /\ user[req[p].actor].admin
                                             /\ user[req[p].actor].active
IInv ==
  /\ TypeOK /\ CredentialsHaveOwners /\ ExternalNeverAdoptsLocal /\ AnAdminWhenSerial
  /\ \A u \in Uid : u >= nextUid => user[u] = NoRow
  /\ \A p \in Proc : ReqOK(p) /\ SerialOK(p)
=============================================================================
