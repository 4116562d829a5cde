------------------------------- MODULE Plugins -------------------------------
(***************************************************************************)
(* MCP plugins and the master key.  A plugin is a row of mcp_servers whose *)
(* environment and headers hold credentials; these are stored encrypted    *)
(* with the master key, a file that the first server to start writes, and  *)
(* are decrypted for the client that is given the configuration, which is  *)
(* recorded for as long as his account exists.  Administrators edit the    *)
(* rows and take plugins down.  Who may see a plugin is the subject of     *)
(* OrgTree, how often of Limiters.                                         *)
(***************************************************************************)
EXTENDS Naturals, FiniteSets

CONSTANTS Server,     \* processes that start on the same data directory
          Request,    \* requests that are served at the same time
          User,       \* users.id; an id is never used again
          Plain,      \* credentials as they are entered
          Prefixed,   \* entered texts that begin like an encrypted value
          Empty,      \* a key file that was created and not written
          None,
          MaxPlugins, \* bound: mcp_servers.id
          MaxConfigs, \* bound: configurations that are asked for
          MaxEvents   \* bound: edits, takedowns, crashes and losses of power

ASSUME PluginConstants ==
  /\ MaxPlugins \in Nat /\ MaxConfigs \in Nat /\ MaxEvents \in Nat
  /\ None \notin Nat /\ None \notin Plain \cup Prefixed
  /\ Empty \notin Nat /\ Empty # None /\ Plain \cap Prefixed = {}
  /\ IsFiniteSet(Request)

Id == 1..MaxPlugins
Entry == Plain \cup Prefixed

\* An encrypted credential.  The random keys are numbered as they are made.
MasterKey == Nat \ {0}
Sealed == [key : MasterKey, text : Plain]
ASSUME SealedIsNotPlain == \A v \in Entry \cup {None} : v \notin Sealed

\* One credential in the environment and one in the headers; the other fields
\* of a plugin are written like them.
Row == [env : Sealed \cup Prefixed, headers : Sealed \cup Prefixed, enabled : BOOLEAN]
ASSUME NoneIsNoPlugin == None \notin Row

VARIABLES keyFile,  \* master.key: None when there is none, Empty, or the key
          synced,   \* it has reached the disk
          made,     \* history: how many keys have been made
          lost,     \* history: a key that was in use has gone with the power
          server,   \* where each process is in EnsureMasterKey
          plugin,   \* mcp_servers: Id -> Row or None
          req,      \* each request: where it is, its copy of the row, and
                    \* whether the row was written since the copy was made
          users,    \* the accounts that exist
          audit,    \* mcp_config_downloads: rows for each user and plugin
          configs,  \* history: configurations sent to each user
          asked,    \* bound
          events    \* bound

keyState == <<keyFile, synced, made, lost>>
records == <<users, audit, configs>>
vars == <<keyState, server, plugin, req, records, asked, events>>

Task(at, id, row, user) ==
  [at |-> at, id |-> id, row |-> row, user |-> user, stale |-> FALSE]
Idle == Task("idle", 0, None, None)

Init == /\ keyFile = None /\ synced = FALSE /\ made = 0 /\ lost = FALSE
        /\ server = [s \in Server |-> "down"]
        /\ plugin = [p \in Id |-> None]
        /\ req = [r \in Request |-> Idle]
        /\ users = User
        /\ audit = [d \in User \X Id |-> 0]
        /\ configs = [d \in User \X Id |-> 0]
        /\ asked = 0
        /\ events = 0

-----------------------------------------------------------------------------
(* Plausible bugs, each the twin of a definition below; see UploadQueue.   *)

\* The file is created whether or not there is one by now.
CreateKeyAnyway(s) ==
  /\ server[s] = "create"
  /\ keyFile' = Empty /\ synced' = FALSE /\ server' = [server EXCEPT ![s] = "write"]
  /\ UNCHANGED <<made, lost, plugin, req, records, asked, events>>

\* A PUT writes a row of its own making, enabled like a new one.
RenewedAnew(row, env, headers) ==
  [env |-> IF env = None THEN row.env ELSE env,
   headers |-> IF headers = None THEN row.headers ELSE headers,
   enabled |-> TRUE]

\* A record that could not be written does not hold up the client.
RecordOrNot(r) ==
  /\ req[r].at = "record"
  /\ req' = [req EXCEPT ![r].at = "serve"]
  /\ \/ audit' = [audit EXCEPT ![<<req[r].user, req[r].id>>] = @ + 1]
     \/ UNCHANGED audit
  /\ UNCHANGED <<keyState, server, plugin, users, configs, asked, events>>

\* A server that has found no key file gives up when another was first.
GivesUp(s) ==
  /\ server[s] = "create" /\ keyFile # None
  /\ UNCHANGED vars

-----------------------------------------------------------------------------
(* EnsureMasterKey.  A process that fails is started again.                *)

Becomes(s, at) == server' = [server EXCEPT ![s] = at]

\* The key is read, or the file is to be created; one that holds no key ends
\* the process.
ReadKey(s) ==
  /\ server[s] = "down" /\ keyFile # Empty
  /\ Becomes(s, IF keyFile = None THEN "create" ELSE "up")
  /\ UNCHANGED <<keyState, plugin, req, records, asked, events>>

\* O_EXCL: only one of them creates it.
CreateKey(s) ==
  /\ server[s] = "create" /\ keyFile = None
  /\ keyFile' = Empty /\ synced' = FALSE /\ Becomes(s, "write")
  /\ UNCHANGED <<made, lost, plugin, req, records, asked, events>>

\* The others read it again, and end when nothing has been written to it yet.
Reread(s) ==
  /\ server[s] = "create" /\ keyFile # None
  /\ Becomes(s, IF keyFile = Empty THEN "down" ELSE "up")
  /\ UNCHANGED <<keyState, plugin, req, records, asked, events>>

\* Write and Close; nobody waits for the disk.
WriteKey(s) ==
  /\ server[s] = "write"
  /\ made' = made + 1 /\ keyFile' = made' /\ Becomes(s, "up")
  /\ UNCHANGED <<synced, lost, plugin, req, records, asked, events>>

\* The operating system writes the file back at a time of its own.
Flush ==
  /\ keyFile \in MasterKey /\ ~synced /\ synced' = TRUE
  /\ UNCHANGED <<keyFile, made, lost, server, plugin, req, records, asked, events>>

Serving == \E s \in Server : server[s] = "up"

-----------------------------------------------------------------------------
(* EncryptEnv and DecryptEnv, for one value.  GetMasterKey reads the file. *)

\* What already begins like an encrypted value is stored as it is.
Seal(v) == IF v \in Plain THEN [key |-> keyFile, text |-> v] ELSE v

\* None: a value that begins like one and is none, or is of another key.
Open(v) == IF v \in Sealed /\ v.key = keyFile THEN v.text ELSE None

-----------------------------------------------------------------------------
(* Administration.                                                         *)

Counts == events < MaxEvents /\ events' = events + 1

\* The requests that hold a copy of p are told that it is no longer the row.
Outdated(p) ==
  [r \in Request |-> IF req[r].id = p THEN [req[r] EXCEPT !.stale = TRUE] ELSE req[r]]

Create(p, env, headers) ==
  /\ Serving /\ plugin[p] = None /\ \A q \in 1..p - 1 : plugin[q] # None
  /\ plugin' = [plugin EXCEPT ![p] =
                  [env |-> Seal(env), headers |-> Seal(headers), enabled |-> TRUE]]
  /\ UNCHANGED <<keyState, server, req, records, asked, events>>

PutReads(r, p) ==
  /\ Serving /\ req[r] = Idle /\ plugin[p] # None /\ Counts
  /\ req' = [req EXCEPT ![r] = Task("put", p, plugin[p], None)]
  /\ UNCHANGED <<keyState, server, plugin, records, asked>>

\* The copy with the fields of the request; None stands for one it leaves out.
Renewed(row, env, headers) ==
  [row EXCEPT !.env = IF env = None THEN @ ELSE env,
              !.headers = IF headers = None THEN @ ELSE headers]

\* encryptMCPValues encrypts both maps, and is called for each of the two.
SealTwice(v, other) == IF v = None THEN None
                       ELSE IF other = None THEN Seal(v) ELSE Seal(Seal(v))

PutWrites(r, env, headers) ==
  /\ req[r].at = "put"
  /\ LET p == req[r].id
         new == Renewed(req[r].row, SealTwice(env, headers), SealTwice(headers, env))
     IN /\ plugin' = [plugin EXCEPT ![p] = new]
        /\ req' = [Outdated(p) EXCEPT ![r] = Idle]
  /\ UNCHANGED <<keyState, server, records, asked, events>>

\* The row stays.
Delist(p) ==
  /\ Serving /\ plugin[p] # None /\ Counts
  /\ plugin' = [plugin EXCEPT ![p].enabled = FALSE]
  /\ req' = Outdated(p)
  /\ UNCHANGED <<keyState, server, records, asked>>

-----------------------------------------------------------------------------
(* getMCPConfig.                                                           *)

Lookup(r, u, p) ==
  /\ Serving /\ req[r] = Idle /\ u \in users /\ plugin[p] # None /\ plugin[p].enabled
  /\ asked < MaxConfigs /\ asked' = asked + 1
  /\ req' = [req EXCEPT ![r] = Task("open", p, plugin[p], u)]
  /\ UNCHANGED <<keyState, server, plugin, records, events>>

\* The credentials are decrypted, all of them or there is no answer.
Decrypt(r) ==
  /\ req[r].at = "open"
  /\ req' = IF None \in {Open(req[r].row.env), Open(req[r].row.headers)}
            THEN [req EXCEPT ![r] = Idle] ELSE [req EXCEPT ![r].at = "record"]
  /\ UNCHANGED <<keyState, server, plugin, records, asked, events>>

\* The foreign key refuses a user whose account is gone.
RecordDownload(r) ==
  /\ req[r].at = "record" /\ req[r].user \in users
  /\ req' = [req EXCEPT ![r].at = "serve"]
  /\ audit' = [audit EXCEPT ![<<req[r].user, req[r].id>>] = @ + 1]
  /\ UNCHANGED <<keyState, server, plugin, users, configs, asked, events>>

Serve(r) ==
  /\ req[r].at = "serve"
  /\ req' = [req EXCEPT ![r] = Idle]
  /\ configs' = [configs EXCEPT ![<<req[r].user, req[r].id>>] = @ + 1]
  /\ UNCHANGED <<keyState, server, plugin, users, audit, asked, events>>

\* The user has no grant or has asked too often, the request is not valid, or
\* a statement fails.
Refuse(r) ==
  /\ req[r].at \in {"open", "record", "put"}
  /\ req' = [req EXCEPT ![r] = Idle]
  /\ UNCHANGED <<keyState, server, plugin, records, asked, events>>

\* DeleteUser takes the user's records along, in one transaction.
DeleteUser(u) ==
  /\ Serving /\ u \in users /\ users' = users \ {u}
  /\ audit' = [d \in User \X Id |-> IF d[1] = u THEN 0 ELSE audit[d]]
  /\ UNCHANGED <<keyState, server, plugin, req, configs, asked, events>>

Down == /\ server' = [s \in Server |-> "down"]
        /\ req' = [r \in Request |-> Idle]
        /\ UNCHANGED <<plugin, records, asked>>

\* The processes are killed; the key file and the database stay.
Crash == Down /\ Counts /\ UNCHANGED keyState

\* The power fails: what the database has committed stays, a key file that has
\* not reached the disk may come back empty or not at all.
PowerFails ==
  /\ Down /\ Counts
  /\ ~synced /\ keyFile # None /\ keyFile' \in {Empty, None}
  /\ IF keyFile \in MasterKey THEN lost' = TRUE ELSE UNCHANGED lost
  /\ UNCHANGED <<synced, made>>

Starts(s) == ReadKey(s) \/ CreateKey(s) \/ Reread(s) \/ WriteKey(s)

Next ==
  \/ \E s \in Server : Starts(s)
  \/ \E p \in Id, env, headers \in Entry : Create(p, env, headers)
  \/ \E r \in Request :
       \/ \E p \in Id : PutReads(r, p)
       \/ \E env, headers \in Entry \cup {None} : PutWrites(r, env, headers)
       \/ \E u \in User, p \in Id : Lookup(r, u, p)
       \/ Decrypt(r) \/ RecordDownload(r) \/ Serve(r) \/ Refuse(r)
  \/ \E p \in Id : Delist(p)
  \/ \E u \in User : DeleteUser(u)
  \/ Flush \/ Crash \/ PowerFails

Spec == Init /\ [][Next]_vars

\* A process that has been started goes on, and one that has ended is started
\* again (docker-compose.yml: restart: unless-stopped).
FairSpec == Spec /\ \A s \in Server : WF_vars(Starts(s))

-----------------------------------------------------------------------------
(* Properties.                                                             *)

Tasks == {t \in [at : {"idle", "put", "open", "record", "serve"}, id : 0..MaxPlugins,
                row : Row \cup {None}, user : User \cup {None}, stale : BOOLEAN] :
           /\ t.at # "idle" => t.id \in Id /\ t.row \in Row
           /\ t.at \in {"open", "record", "serve"} => t.user \in User}

TypeOK ==
  /\ keyFile \in {None, Empty} \cup MasterKey
  /\ synced \in BOOLEAN /\ made \in Nat /\ lost \in BOOLEAN
  /\ server \in [Server -> {"down", "create", "write", "up"}]
  /\ plugin \in [Id -> Row \cup {None}]
  /\ req \in [Request -> Tasks]
  /\ users \subseteq User
  /\ audit \in [User \X Id -> Nat] /\ configs \in [User \X Id -> Nat]
  /\ asked \in 0..MaxConfigs /\ events \in 0..MaxEvents

\* Why one key is left (the part of the inductive invariant that is about
\* keys): a process that is about to write its key has created the file, alone,
\* and nobody serves until one is written; the key of the file is the last that
\* was made, and the only one unless one was lost; what is stored, and what a
\* request is about to store, was sealed with a key that was made.
KeysOf(row) == {v.key : v \in {row.env, row.headers} \cap Sealed}
KeyIsKept ==
  /\ \A s \in Server : server[s] = "write" => keyFile = Empty
  /\ \A s, t \in Server : server[s] = "write" /\ server[t] = "write" => s = t
  /\ \A s \in Server : server[s] = "up" => keyFile \in MasterKey
  /\ keyFile \in MasterKey => keyFile = made
  /\ ~lost => made = 0 \/ (made = 1 /\ keyFile = 1)
  /\ \A r \in Request :
       req[r].at # "idle" => keyFile \in MasterKey /\ KeysOf(req[r].row) \subseteq 1..made
  /\ \A p \in Id : plugin[p] # None => KeysOf(plugin[p]) \subseteq 1..made

\* A copy of a row that nobody was told is stale is the row.
FreshCopies ==
  \A r \in Request : /\ req[r].at = "idle" => req[r] = Idle
                     /\ req[r].at # "idle" => plugin[req[r].id] # None
                     /\ req[r].at # "idle" /\ ~req[r].stale => req[r].row = plugin[req[r].id]

\* The first starts of several processes and crashes anywhere in them leave one
\* key: whoever has started works with the key of the file, the last that was
\* made; and as long as no power failure has taken a key that was in use, only
\* one was ever made, and every credential that is stored can be opened with it.
OneKey ==
  /\ Cardinality({s \in Server : server[s] = "write"}) <= 1
  /\ Serving => keyFile \in MasterKey /\ keyFile = made
  /\ ~lost => /\ made <= 1
              /\ \A p \in Id : plugin[p] # None => KeysOf(plugin[p]) \subseteq {keyFile}

\* skill_api.go:362: who was sent the credentials of a plugin, and has his
\* account, is on record, once for each time, whatever fails or crashes; and
\* nobody is on record who has none (users.go:221: the records go with the
\* account, and one that comes late finds no account to belong to).
AboutToServe(d) == {r \in Request : req[r].at = "serve" /\ <<req[r].user, req[r].id>> = d}
ConfigsAreAudited ==
  \A d \in User \X Id :
    IF d[1] \in users THEN configs[d] + Cardinality(AboutToServe(d)) <= audit[d]
                      ELSE audit[d] = 0

IInv == TypeOK /\ KeyIsKept /\ FreshCopies /\ ConfigsAreAudited

\* What happens to a row is what one administrator has asked for: nothing comes
\* back that was replaced and no plugin that was taken down, with the one
\* exception of a PUT whose copy of the row is not the row any more.
AsAsked(row, env, headers) ==
  [env |-> IF env = None THEN row.env ELSE Seal(env),
   headers |-> IF headers = None THEN row.headers ELSE Seal(headers),
   enabled |-> row.enabled]
OnlyStaleCopiesUndo ==
  [][\A p \in Id : plugin[p] # None /\ plugin'[p] # plugin[p] =>
       \/ plugin'[p] = [plugin[p] EXCEPT !.enabled = FALSE]
       \/ \E r \in Request, env, headers \in Entry \cup {None} :
            /\ req[r].id = p /\ PutWrites(r, env, headers)
            /\ \/ req[r].stale
               \/ plugin'[p] = AsAsked(plugin[p], env, headers)]_vars

\* Every process comes up, however the others start and whenever they crash,
\* unless a crash or a loss of power has left an empty key file, which nothing
\* repairs.
StartsUnlessCut == <>[](keyFile = Empty) \/ \A s \in Server : []<>(server[s] = "up")
=============================================================================
