# Verification of PicoAide

TLA+ models of the PicoAide server (Go, SQLite, one process), the TLC runs that
check them on small instances, and TLAPS proofs of their central properties.
Every definition is translated from the Go source; `PROJECT.json` maps each one
to the lines it stands for.

To repeat a result:

    tlc -workers 2 -config MCUploadQueue.cfg MCUploadQueue
    tlapm UploadQueueProofs.tla

## 1. The system

PicoAide is a server for the desktop agents of an organisation: it authenticates
users against a local table, LDAP or OIDC, gives them skills and MCP plugins by
department, answers questions from a knowledge base, and proxies their model
calls to several upstream providers. One Go process serves HTTP and runs the
background goroutines; all durable state is in one SQLite database (WAL, one
writer at a time) and a few directories beside it.

What makes it hard is the same in every part: *a handler is a sequence of short
transactions, system calls and remote calls, and keeps in local variables what it
read before*. Handlers, workers and the start-up steps run in parallel, a crash
may fall between any two steps, and hardly anything is locked for longer than
one statement.

| Component | State | Operations | Talks to | Hard behaviours |
|---|---|---|---|---|
| **Upload queue** (`knowledge/queue.go`, `admin.go`, `import.go`, `serverstore/knowledge.go`) | `kb_documents` rows with a status, raw files named by row id, temp files, `claimMu` | upload (temp file, INSERT, rename), ZIP import, claim, extract, complete / mark / release, retry, edit, delete, reset at start | the chunk index (same transaction), the file system | claims, row and file in two places, crash between them, retries against late results |
| **Chunk and vector index** (`chunk_index.go`, `embedding.go`, `knowledge_chunks.go`) | `kb_chunks`, `kb_chunk_embeddings`, `kb.embedding_model` | replace the chunks of a document, backfill at start, embed missing vectors, change of model, reindex | the queue and the editors above it, the embeddings gateway | text read long before it is written, vectors computed outside of any transaction |
| **Accounts** (`serverauth`, `serverstore/users.go`, `tokens.go`) | `users`, `api_tokens`, `admin_sessions` | client and admin login, provisioning, create / update / delete user, bootstrap | LDAP, OIDC | whole-row writes of stale reads, last administrator, credentials of deleted or changed users |
| **Departments and grants** (`serverstore/departments.go`, `groups.go`, `grants.go`, `effective.go`) | `groups` (a tree), `user_groups`, grants by name and by id | create / move / rename / delete, assign, synchronise at login, grant / revoke / replace, effective groups | accounts (login), skills, plugins, folders | names as foreign keys, guards outside of the transaction, recursion over a tree that can change |
| **Chat gateway** (`llmgateway/handler.go`, `upstream.go`, `serverstore/usage.go`) | `usage_logs`, in-flight streams | route, fail over, relay, meter, hourly cleanup | the catalogue, providers | disconnects, idle timeouts, late token counts |
| **Embeddings gateway** (`llmgateway/embedding.go`) | none | fail over over providers | the chunk index | errors of the upstream |
| **Model catalogue** (`serverstore/gateway.go`, `llmgateway/admin.go`, `sync.go`) | providers, models, `gateway.default_model` | create / update / delete, hourly and manual sync | gateway, upstreams | read-modify-write, fetches written row by row, a default that dangles |
| **Skill packages** (`marketplace/skill_api.go`, `skill_pack.go`, `serverstore/skills.go`) | `skills` rows, clone directories, archive cache | download (clone, build, checksum), update, delete | git, file system | shared directories without a lock, stale rows written back |
| **MCP plugins** (`marketplace/admin.go`, `skill_api.go`, `serverstore/mcp_servers.go`, `credentials.go`) | `mcp_servers`, `mcp_config_downloads` | create, update, delete, give a configuration out | master key, limiter, grants | stale rows written back, an audit record before every answer |
| **Master key** (`util/crypto.go`) | the key file | create or read at start | plugins, providers | several processes start at once, a crash between creation and write |
| **Rate limiters** (`ratelimit.go`, `handler.go`, `skill_api.go`) | maps under a mutex | admit, evict | | full tables, boundaries of windows |
| **Chunking and lexical search** (`chunk.go`, `lexical.go`, `search.go`) | none | split, score, fuse, page | the index | off-by-one at boundaries |
| **Folders** | `kb_folders` | create, delete, grants | uploads | guards before the delete |
| **Knowledge MCP endpoint**, **client bootstrap**, **administration site** | none | reads | | |
| **Identity providers** (`ldap.go`, `oidc.go`) | pending OIDC flows | accept a name, deliver groups | accounts, departments | |
| **Database, settings, migrations**, **extraction**, **channels**, **server process** | | | | |

What makes each of them correct:

- *Queue*: a row has one owner; a raw file is not thrown away before its text is
  stored; a verdict is given once and not overwritten by a late one; what was
  accepted is settled, over crashes too.
- *Index*: what a search reads is the current text of the document, in one
  version, with vectors of that text, and every chunk gets a vector.
- *Accounts*: somebody can always administrate; a credential belongs to an
  account that exists and is of the kind that logged in; weakening an account
  ends its tokens.
- *Departments*: the tree is a tree; names and ids that are stored mean something;
  what a user inherits is what the comments say.
- *Gateway*: a request that came to its end is metered with what the provider
  reported, an unanswered one not at all; no request is sent again after an answer
  has begun; rows that will never get tokens go.
- *Catalogue*: the models clients see are those that were entered or fetched;
  the hourly loop repairs what failures and overlaps have left; the default model
  is one that can be routed.
- *Skills*: what is served under a version was built from that version of that
  source and is what the checksum says; a skill that was taken down stays down.
- *Plugins and key*: one master key, with which all stored credentials can be
  opened; nobody gets a configuration without a record while he has an account; no
  edit is undone.
- *Limiters*: the budget per window holds for every order of calls; who has not
  used it is not refused.
- *Chunks and search*: no line is lost or cut apart from its section; the ranking
  follows both routes and its pages fit together.

`PROJECT.json` lists the hazards one by one, at the line where each bites.

## 2. The modules

    DocLifecycle                      what one document's administrator is promised
        ^  refines
    UploadQueue  <- UploadQueueProofs    MCUploadQueue: .cfg, ...Live.cfg, ...Lost.cfg
    ChunkIndex   <- ChunkIndexProofs     MCChunkIndex
    Accounts     <- AccountsProofs       MCAccounts
    OrgTree      <- OrgTreeProofs        MCOrgTree: .cfg, ...Cycle.cfg
    ChatGateway  <- ChatGatewayProofs    MCChatGateway
    SkillCache   <- SkillCacheProofs     MCSkillCache
    ModelCatalog <- ModelCatalogProofs   MCModelCatalog
    Plugins      <- PluginsProofs        MCPlugins
    Limiters     <- PluginsProofs        MCAlgorithms
    Chunking     <- UploadQueueProofs    MCAlgorithms
    Search       <- ChunkIndexProofs     MCAlgorithms

Each module has the same order: constants and their assumption, variables,
`Init`, a section of *plausible bugs* (an action with one mistake; no
specification uses it, and putting it in the place of the real one breaks a
property), the actions, `Next` and the specifications, the properties.

Common abstractions: one action is one SQL statement, one transaction, one system
call or one remote call, since those are what the process interleaves on and
crashes between. SQLite serialises writers, so a transaction is atomic. A text is
a version number or an origin, a password hash a model value, a name a model
value. A request is a slot with a position (`pc`) and what it has read (`req`).

### UploadQueue, refining DocLifecycle

`status`, `content`, `nextId` are the rows of `kb_documents`, `raw` and `tmp` the
files, `claimMu` the mutex. A worker walks through `processNextPending`:
`ClaimSelect`, `ClaimUpdate` (two statements under the mutex, the second naming
the row by id alone), `Stat`, `Extract`, then `Complete` (a compare-and-set on
`processing`), `MarkError` or `ReleaseClaim`, and `RemoveRaw`. An upload request
saves a temporary file, inserts the row, renames the file to the row's id
(`UploadSave`, `UploadInsert`, `UploadRename`), and undoes the insertion when the
rename fails. `Retry`, `Edit`, `DeleteRow`/`DeleteRaw` and `CreateText` are the
other handlers. `Crash` loses all positions and the mutex; `Boot` resets claims,
`Serve` sweeps temporary files and opens the API. The constant `Faults` names the
calls that may fail; `ProcessingIsOwned` and the liveness properties hold for
some of them only and say for which.

`DocLifecycle` is the promise without queue, worker and file: a submitted
document is queued, gets one verdict, and only a retry queues it again.
`Lifecycle` is the refinement under the mapping `fateBar`: *pending* and
*processing* are both queued, and an id that was handed out and has no row is
deleted.

### ChunkIndex

`text[d]` is the version of a ready document, `chunk[c]` the document and
version a chunk row was cut from, `vector[c]` the model and version a vector was
computed from. `Publish`, `Edit` and `Delete` are one transaction each;
`BackfillScan` then `BackfillReplace` for each document are `BackfillChunks`;
the two embedders (the loop and the start-up pass) read the model, choose a
document, read its chunks without vectors, call the upstream, and write the
answer under the ids they read, whatever became of them. A text in `Blank` is
empty and is cut into no chunks. `scanned` remembers which documents a backfill
has read and `reindexed` whether a reindex followed the last change of model;
they are history, the code has no such state.

A document that a backfill is scanning may be edited before its chunks are
written; `NewDocsNeverDiverge` therefore speaks of the documents no backfill has
scanned, and that exception is real (section 5).

### Accounts

`user` is the table; `token` and `session` hold the live credentials only, so
`Expire` may end any of them at any time. An administrator's request is
`Authenticate` (the middleware) followed by its steps: `UpdateRead`, `UpdateWrite`
(the row is written back as it was read, with some fields changed),
`CreateInsert`, `CreateRead`, `CreatePromote`, `Delete`. A login is `Verify`,
`Lookup`, `Provision`, `Refetch`, and `Issue` or `OpenSession`. `Restart` ends
all requests and runs `EnsureBootstrapAdmin`. `raced` is history: a write of one
administrator's request has landed inside another's.

### OrgTree

`name`, `parent`, `leader` are the `groups` rows, `grant` the grants by name (of
skills and plugins) with the department that was meant, `folder` the grants by
id. `CreateCheck`/`CreateInsert`, `UpdateRead`/`UpdateCheck`/`UpdateWrite`,
`GrantCheck`/`GrantByName`/`GrantById`/`Revoke`, `ReplaceCheck`/`ReplaceByName`/
`ReplaceById`, `AssignCheck`/`Assign` and `Delete` are the handlers, `SyncLogin`
the transaction of a directory login. `Effective` is `UserEffectiveGroups`,
computed the way the code does it: up from the memberships, down from the
departments that are led.

### ChatGateway

`row` is the `usage` table, one row per request at most, holding the tokens; `pc`,
`cand` and `usageID` are a handler's position and local variables. A request is
of one of three kinds. A stream records its row with no tokens
(`RecordPending`), tries its candidates in order (`Fails`, `Answered`), and then
works through one line after another: `CheckClient`, `ReadLine`, `Backfill`,
`WriteLine`, until the upstream ends it (`StreamEnds`), is idle (`IdleTimeout`) or
the client has left (`DropAbandoned`). The other two read the answer as a whole
and record a row afterwards (`RelayJSON`, `RecordEmbedding`). `Cleanup` is the
DELETE of `SyncIteration`; `Age` makes a row an hour old, which happens to rows of
finished handlers only: 120 seconds for the headers of each candidate, five
minutes of `WriteTimeout` and 90 of idleness are less. `DeleteUser` takes all rows of
an account (`Owner[r]`) along, finished ones included, and the foreign key refuses a
row that comes later (`InsertFails`); what is said of rows is said of those whose
account exists. Events, crashes and deletions of users together, have one bound. A
token count is the number
of usage reports it includes. `sent`, `answer`, `reported`, `ended` and `lost`
are history.

A client that leaves while the handler waits for a line ends the read with an
error that is neither of the two cases in which the handler drops the row, so the
row waits for the cleanup; `StreamEnds` has this, and `PendingRowsGo` covers it.

### SkillCache

`rows` are the skills, `clone[n]` the directory and `archive[f]` the archives of
the cache, `upstream` what the git sources offer. What a directory holds is a
`Content`: the source, its version at the moment of the clone, and whether it is
whole. A download is `Lookup`, `Stat`, `CloneBegins`/`CloneEnds`/`CloneFails`,
then `CacheHit` or `Pack`, `Install`, `Sweep`, and `Hash`, `Sync`, `Serve`: the
archive is opened by name twice, and the row is written back whole, as it was read
at the beginning. A PUT is `PutReads`, `PutWrites`, `PurgeClone`,
`PurgeArchives`. `cloner` says whose files are the only ones in a directory: a
clone into which somebody else has written may end in a mixture. `raced[n]` is
history: two operations on a skill have overlapped since its cache was purged;
the guarantees are those of a skill whose operations do not overlap, and nothing
in the code makes them wait for one another. A crash in the middle of an operation
sets it too, and so does another skill that stores an archive under a name this one
uses: archives are called `name-version.tar.gz`, dashes are allowed in both parts, and
an archive that is there is served without a look at what it was built from. "a" in
version "b-1" and "a-b" in version "1" therefore share a file, in `Path` as in the
code; `Alien` is what such a skill may have stored. `Glob[n]` is what the sweep of a
skill removes; a skill "a" also matches archives of a skill "a-b" (`Elsewhere`,
`Foreign`). That
`Pack` sees the directory at one moment is an abstraction: the walk reads file
after file, and `PackFails` covers what it notices.

### ModelCatalog

`provider` and `models` are the two tables, `default` the setting, `offer` what
the channel's upstream serves. Saving a provider is `Post`, or `PutReads` and
`PutWrites`, followed by `Mirror` (a manual provider: all rows replaced in one
transaction) or by `Fetch`, `Upsert` for each model and `Remove` (a channel
provider). `SyncOne` and `SyncOnce` are the manual sync and the round of the loop,
which works through the providers of the list it has read. Rows can be edited one
by one (`PostModel`, `PutModel`, `DeleteModel`), the default is checked and then
stored (`ConfigChecks`, `ConfigWrites`). A process knows whether it has been
`alone` on its provider, a provider whether its rows have `drifted` from its list
for a reason the code cannot see; both are history. Every channel provider is
assumed to have a key, and there is one channel, so that there is one `offer`.

### Plugins

`keyFile` and `server` are `EnsureMasterKey`: `ReadKey`, `CreateKey` (O_EXCL),
`Reread` when another process was first, `WriteKey`. A credential is `Sealed`
under the key of a server or an entered text that begins like an encrypted one,
which the code stores as it is. The key is written without an fsync: `Flush` is the
moment it reaches the disk, `Crash` ends the processes and leaves the file,
`PowerFails` before `Flush` leaves an empty file or none, also of a key that was in
use (`lost`). `Create`, `PutReads`/`PutWrites` and `Delist` are
the administration, `Lookup`, `Decrypt`, `RecordDownload`, `Serve` the
configuration a client asks for. `DeleteUser` deletes the account (`users`) and its
records in one transaction; a record that is inserted afterwards fails on the foreign
key. `configs` counts the configurations sent, and
`stale` marks a request whose copy is no longer the row; both are history. The key
given by an environment variable is not modelled: nothing is created then.

### Limiters, Chunking, Search

Three machines that share nothing; `MCAlgorithms` runs one of them per behaviour.

`Limiters` holds the three limiters, each one critical section over a table:
`LoginAllow` (sliding window), `ReadClock` and `BucketAllow` (token bucket; the
clock is read before the lock, so calls come with readings out of order),
`ConfigTake` (fixed window). `log` is the reference: the calls let through. Who is
evicted from a full table is forgotten by `log` as well, since he begins anew; of the
login limiter only if he was the oldest by `log` itself (`OldestInLog`), so that an
eviction of anybody else shows as a budget that is exceeded. The bucket evicts by its
last use, refused calls included, which `log` does not keep; its choice is not judged. The
slice of times the login limiter keeps for a key is a set of these calls, which
have numbers. That a bucket may be thrown away after an idle hour is harmless only
if an hour is longer than a bucket takes to fill and two callers may wait for the
lock; `LimitersAssumption` has the bound (`Hour + 1 >= Minute + 2 * Delay`), and TLC
breaks the budget one tick below it.

`Chunking` is the loop of `ChunkText` over the lines of a document: `BlankLine`,
`FenceLine`, `TextLine`, `HeadingLine` take a line, `AddUnit` puts a line or a
sentence into the buffer and flushes it when it is full. A line is known by its
length, by the lengths of its sentences (which leave out the blanks between them) and
by what the parser sees in it. The buffer and a chunk are the runes they
carry over from the chunk before (`carry`) and their units (`parts`). The properties
compare the chunks with what the text says without the loop (`Content`, `Heads`,
`Open`). `ChunkingAssumption` has one condition the code only meets by its values
(100 and 2000): the overlap is not above the length from which a line is cut into
sentences. Otherwise the sentences of a short first line can carry more than the text
before them, and the next chunk begins at a negative position; TLC shows it with an
overlap of 7 over lines cut at 2.

`Search` is a query: `ReadLexical`, `ReadVector` or `LexicalOnly`, `Fuse` (reciprocal
ranks), `AnswerPage`, with edits and deletions between the reads. Scores are any. A
ranking is defined by who is ahead of whom (`Better`, `Ahead`), the sum of reciprocal
ranks over a common denominator (`Product`), so that all of it is arithmetic of
integers.

## 3. The runs

| Run | Bounds | Shows |
|---|---|---|
| `queue_safety` | 2 workers, 2 uploads, 3 documents, 1 retry, 1 crash, all faults | `IInv` is an invariant (its parts are the exclusive claim, errors keep their file, what each position knows), files are removed only when safe, refinement of `DocLifecycle` |
| `queue_liveness` | 2 workers, 2 uploads, 2 documents, 1 retry, 1 crash; insert, rename and extraction fail | processing rows have an owner; landed uploads are settled unless an older row waits for its file for ever |
| `queue_crash_starves` | the same without retry and faults | *violated*: without that exception they are not |
| `chunk_index` | 2 documents (1 older than the chunk table), 3 texts (one empty), 2 chunks, 2 changes of model or reindexes, 1 failure, 1 restart | `IndexInv` is an invariant, vectors belong to the text of their chunk, one version per document, chunks follow the text of documents no backfill has read; every chunk is embedded |
| `accounts` | 2 requests at a time, 2 names, 3 rows, 2 passwords | credentials have owners of the right kind, deletes leave an administrator; serial requests leave an active one and revoke tokens |
| `org_tree` | 2 requests at a time, one of them may be a PUT, 3 departments, 1 user, 1 grant, 1 leader | a tree; memberships resolve always, parents and grants while requests do not overlap; effective groups are the inheritance |
| `org_cycle` | both may be PUTs | *violated*: a cycle |
| `chat_gateway` | 2 requests of one user, 2 providers, 2 usage reports, 1 crash or deletion of the user, 1 failing statement | one attempt per provider, nothing unserved is metered, what was served is while the account exists, finished rows are final until it goes, pending rows go |
| `skill_cache` | 2 requests, 2 versions, 2 sources, 2 events (edits, pushes, takedowns, faults, crashes) | without overlap, with itself or with another skill of that archive, the cache and what is served are current; nothing but a stale copy lists a skill again |
| `model_catalog` | 2 requests and the loop, 2 providers, 2 models, 3 events | lists and rows agree, a fetch leaves what it fetched, two operations may orphan the default, the loop repairs |
| `plugins` | 2 processes, 2 requests, 1 user, 1 plugin, 2 configurations, 3 events | one key unless a loss of power takes it, every configuration on record while the account exists and no record without one, only a stale copy undoes; every process comes up unless the key file is left empty |
| `algorithms` | 3 keys for 2 entries, 5 ticks, 5 calls; every text of up to 5 of 8 kinds of line; 4 rows, 1 edit, pages -1 to 7 | the budgets of the limiters; no line lost, bounded chunks, sections; the ranking and its pages |

Why the bounds are enough. A hazard here is a pair of actors, one of which acts
between two steps of the other, sometimes with a crash or a retry: two workers,
two requests, one crash and one retry give every such pair, and each of them
meets every step of the other. Three documents let two be claimed while a third
is the oldest; two names let a name be freed and taken again; three departments
(the implicit one and two more) make the smallest cycle and the smallest rename
into a name that was in use. One more key than a limiter's table holds makes it
full; five lines hold a heading, a section before and behind it, a code block and
an oversized line; ints of four bits overflow like those of 64. `AUTOINCREMENT`
sequences, retries, crashes, restarts, changes of setting, failed calls and
administration requests are the only unbounded counters; each has a constant of
its own. `SkillCache`, `ModelCatalog` and `Plugins` share one budget of *events*
among the actors that could go on for ever; two or three of them are a change, a
fault and one more change. Symmetry is used for workers, uploads, requests,
passwords, names, keys and callers, in runs without liveness. Where the bounds
leave a doubt, the theorems of section 4 do not have them.

Deadlock is checked in the queue runs: an idle worker polls, so the system never
stops. The others use `CHECK_DEADLOCK FALSE`, since their bounds on ids, events
and calls end a behaviour.

Fairness. `UploadQueue!Fairness` is weak fairness of each worker goroutine and of
each upload handler that has begun, and of the start of the process: the Go
scheduler runs what can run, and a supervisor restarts the server. Nothing is
assumed of administrators; `Retry`, `Edit` and deletion never have to happen.
`ChunkIndex!FairSpec` is weak fairness of the three background goroutines; the
bound `MaxFails` is the assumption that an upstream does not fail for ever.
`ChatGateway!FairSpec` is weak fairness of the passing of time, of the hourly
cleanup and of the restart; handlers, clients and providers may stop anywhere.
`ModelCatalog!FairSpec` is weak fairness of the steps of what has been begun and
of the hourly loop. `Plugins!FairSpec` is weak fairness of the start of each
process. That what has ended is started again, here and in `ChatGateway`, is
`restart: unless-stopped` in docker-compose.yml.

Type invariants: `TypeOK` is a conjunct of every inductive invariant (`IInv`,
in `ChunkIndex` `IndexInv`). In the two runs that check one, TLC sees it; elsewhere it was checked with TLC while the proofs were
made and is now a theorem, for every value of the constants; `ChunkingInv` and
`SearchInv` likewise, over the instance of `algorithms`.

Findings. Two runs refute what a comment of the source says of the program; they
are in `PROJECT.json` with the quoted lines:

1. an upload whose process died between INSERT and rename blocks the queue (the
   oldest pending row is claimed and released for ever);
2. two moves of departments, each below the other, close a cycle.

## 4. The proofs

Eight modules hold proofs, each from the named assumptions on the constants of
its component and for every value of them: any number of workers, requests,
providers, documents, names, and any bound. Each proves `Spec => []IInv` for an
inductive `IInv` (`IndexInv`, `LimitersInv`, `ChunkingInv`, `SearchInv`), action by action, and from it what is listed in
`PROJECT.json`.

**UploadQueue.** `Invariance`, `TypeCorrect`, `ClaimsAreExclusive`,
`ErrorsKeepTheirFile`, the action property `RawFilesAreSafe`,
`ProcessingRowsAreOwned` (whose premise names the faults that break it) and
`QueueImplementsLifecycle`, the refinement. Why `IInv` is needed: the exclusive
claim is not inductive. `ClaimUpdate` names its row by id only, so one has to know
that the row read under the mutex is still pending or gone (`WorkerKnows`), which
needs that only the holder of the mutex is between SELECT and UPDATE
(`MutexHeld`), that a retry touches rows in error only, that rows in error have no
owner, and that ids are not handed out twice (`IdsInUse`). `ErrorKeepsRaw` needs
that a worker which is extracting knows the file is there or the row is gone, and
that only rows that are gone are unlinked (`GoneIsGone`).

**ChunkIndex.** `Invariance`, `TypeCorrect`, `VectorsBelongToTheirChunks`,
`DocumentsHaveOneVersion`, `UnscannedDocumentsNeverDiverge`. An embedder writes
under ids it read long before; that this is harmless rests on ids being handed out
once: every id in a row, in a vector that was left behind or in an embedder's
hands is below the sequence (`IdsInUse`), and a row that still has such an id
still has the text the embedder noted (`EmbeddersKnow`), which needs that the
chunks of a document are of one version.

**Accounts.** `OwnersExist`, `NoAdoption`, `SerialAdministrationKeepsAnAdmin`,
`LastAdminIsNotDeleted`, `WeakeningRevokes`. Whole rows are written back, so the
argument is about what a request has read: name and source of a row never change,
so a stale copy still tells them (`ReqOK`); and while nothing has overlapped, the
copy *is* the row and the actor is still an active administrator (`SerialOK`),
which is what remains when the write weakens somebody else.

**OrgTree.** `OrgInvariance`, `NothingDangles`, `OneMoverKeepsATree`,
`GrantsAreInherited`. `ReadOK` says
that what a request has looked up stays true while requests do not overlap. For
the tree, `MoveOK` carries the check of a move over to its write: the new parent
is not below the department, for any number of other requests that create, delete
and assign, as long as no other PUT moves something. A subtree is the smallest set
with its root that is closed under children, and a tree is stated as "every set of
departments that is not empty has one whose parent is outside of it", so that no
step needs a walk: a set that violates this after the move would, without the
moved subtree, have violated it before. `GrantsAreInherited` is about the walk upwards,
which `ancestorsOf` does in rounds until nothing is added and `Ancestors` is a
recursive function for. The library's induction theorems cannot be used (they take an
operator as a parameter); that a set of numbers has a least element can
(`WellFoundedInduction`), and gives induction over the rounds (`BoundedInduction`),
that the recursive definition has a solution (`RoundsExist`), and that its last round
is the least set closed upwards (`AncestorsAreLeast`). It needs no tree: it holds in
a cycle as well.

**ChatGateway.** `NoProviderIsAskedTwice`, `UnservedIsFree`, `ServedIsPaid`,
`RowsAreFinal`. Requests share nothing but the budget of failures, the clock and
the cleanup and their user, so the invariant is one condition per request (`PositionOK`: what its
position says of its answer and its row; `Ascending`: the candidates left are
behind the ones asked), and the cleanup is shown to reach no row with tokens. The owners are any function of the
requests; a deletion takes rows of its user only, and only from requests whose owner
it was (`RowsAreFinal` has the exception).

**SkillCache.** `QuietCachesAreCurrent`, `DownloadsAreCurrent`,
`NothingElseRelists`. The invariant is per skill (`SkillOK`): a skill nobody races
on has at most one operation at work, and `Undisturbed` says at each of its steps
what the cache holds. A step on one skill may remove another's archives, which its
guarantees allow for, and may store one under a name the other uses, which ends them
(`raced`): nothing is assumed of the names but that one skill's versions have
different ones.

**ModelCatalog.** `ListsAgree`, `FetchesAreExact`, `OthersClearTheDefault`. An
undisturbed save has the row of its provider, an undisturbed fetch finds what it
has written, and a list that its rows do not match is about to be mirrored
(`ListKept`).

**Plugins.** `OneMasterKey`, `EveryConfigIsAudited`, `NothingElseUndoes`. One
process at most is about to write a key, to a file that is empty; a key that is
there stays unless the power fails before it is on the disk; what is stored was sealed
with it (`KeyIsKept`). The audit counts the requests that have recorded and not
answered, for the accounts that exist; for the others it is empty, and stays so since
no record is inserted without an account.

**Limiters** (in `PluginsProofs`, whose second half they are). `BudgetsHold`,
`RefusalsAreFair`, from `LimitersInvariance`. A table forgets: the login limiter
sweeps, the bucket and the fixed window prune, and all but the last evict. So
`LimitersInv` says of each table what it still means of the history. Login: an entry
cut to the window *is* the set of calls in the window (`AttemptsAreKept`), which a
sweep, a refusal and a call leave true; an evicted key takes its history with it,
which it may since it is the oldest by the history as well (`OldestIsOldest`).
Bucket: what `n` calls of a stretch of time took and what is left in the bucket is
no more than what dripped in since the beginning of the stretch and a full bucket
(`BucketsArePaid`); a key without a bucket has made its last call so long ago that a
new, full one would have been full anyway, which is where callers that read the clock
long before they get the lock come in, twice. Fixed window: an entry counts the calls
of its window, the window before held no more than the limit, and nobody was let
through between the two (`WindowsAreCounted`), from which twice the limit follows.

**Search** (in `ChunkIndexProofs`, whose tables it reads). `SearchInvariance`,
`SearchesHold`, for any rows, scores and finite set of ids, any page and size and any
width of an int. `SearchInv` says that each route is a ranking of what it found
(`RoutesAreRankings`) and that a row which is given an id meanwhile is one no route
has seen (`NewIdsAreUnseen`): that is why loading the rows after the routes were read
can lose rows and never confuse them. A ranking is a bijection because of n rows the
number that are ahead of one is below n and different for each (`RankedIsRanking`).
The denominator is divided by every `K + r` (`ProductDivides`), so that a better
place is a larger part, and two places among the first `K + 1` give more than any
single place can, since `2 (K + 1) > 2 K + 1` (`TwoGiveMore`); hence what both routes
agree on ranks first. A page is the part of the ranking between two products that
wrap: each is itself as long as the first one is an int (`Clamped`, `Fits`).

**Chunking** (in `UploadQueueProofs`: a worker cuts what it has extracted).
`ChunkingInvariance`, `NoLineIsLost`, `ChunksFitTheText`, for any text and any limits
that satisfy the assumption. `NothingIsLost` is about places: the chunks, the buffer
behind them, and what is still to be added (`Laid`). A flush opens a place
(`PlaceOpened`), a unit moves from the waiting ones into the last (`UnitPlaced`), a
line comes behind all there were (`LineLaid`); these three are all a step does. For
`Chunked` one has to know what the loop's variables mean: `inFence` is the parity of
the fences above (`LineIsRead`), the breadcrumb is what is open in the last section
(`PathIsOpen`; where no level is skipped its length is the level of its last heading,
which is what cutting it at `lvl - 1` relies on), the buffer is of that section and
its overlap is that of the chunk before (`BufferIsOpen`), and it begins at a position
of the text (`BufferIsInText`): once more text than an overlap is read there is
nothing to show, and before that no line was long enough to be cut. Sums of lengths
are a recursive function, whose solution `TotalsExist` provides.

TLC's part only. Liveness (`UploadsSelfHeal`, `EveryChunkEmbedded`,
`PendingRowsGo`, `SyncHeals`, `StartsUnlessCut`): reasoning about fairness and
ENABLED is out of the prover's reach. Every safety invariant and action property of
the passing runs is a theorem.

## 5. What the models say beyond the properties

Each of these is a behaviour of a model, met while its properties were written,
which no text of the repository rules out, or which a property names as its
exception. None of them has a run.

- *Accounts*: two administrators who demote or disable each other at the same
  moment leave none: the guard looks at the acting account only
  (`AnAdminWhenSerial` has the exception). The guard of a deletion counts disabled
  administrators as well. A login that has verified the old password gets its
  token after a change of password has revoked the others.
- *Chunk index*: `BackfillChunks` puts the chunks of the text it has scanned back
  over an edit made meanwhile. An embedder that has read the old model may write
  its vectors after a reindex; they stay until the next. A document the upstream
  rejects for ever is the first at every round, and no later one is embedded.
- *Upload queue*: an edit of a document that is still pending is replaced by the
  extraction.
- *Departments*: a PUT can rename the reserved department "everyone", which nobody
  can create again. Effective groups are computed from two queries.
- *Chat gateway*: the row of a stream whose client hangs up after the last line is
  deleted with its tokens. The rows of a user go with his account, and so does what he
  has used.
- *Skills*: a skill that was taken down is listed again by a download or PUT that
  had read it before. A download of "a" in version "b-1" is sent the archive of "a-b"
  in version "1" when that is in the cache. Two overlapping downloads can package a clone that is half
  written. A clone made before the upstream published the version of the row stays,
  and later downloads fail until a PUT changes the source or version.
- *Model catalogue*: the rename of a model and the saving of a list leave
  `gateway.default_model` on a name nobody serves; the bootstrap then offers
  another model.
- *Plugins*: a crash between the creation of the key file and the write leaves an
  empty file, with which no process starts again (`StartsUnlessCut` has the
  exception). A loss of power soon after the first start can do the same to a key that
  is already in use, or take the file away, after which a new key is made that opens
  none of the stored credentials (`OneKey` has the exception). An entered credential that begins with the marker of an encrypted one is
  stored as it is and can never be opened.
- *Chunking*: `CharStart` and `CharEnd` (`chunk.go:112`) are not the ends of the
  chunk's own text; breadcrumbs are right where no heading level is skipped.
- *Search*: a page number whose product with the size overflows makes a negative
  start; "chunks both routes agree on rank first" holds for the first `K + 1` ranks
  of each; the total is that of the candidates in one mode and of all matches in
  the other.
- *Limiters*: a clock reading that comes late to the bucket's lock may be refused
  although tokens have dripped in since.

## 6. Not modelled

- *Administration site, client bootstrap, knowledge MCP endpoint*: reads and
  presentation over the tables of the other components; `kb_upload` has the effect of
  `ChunkIndex.Publish`.
- *Folders* beyond their grants: creation and deletion are checks and a statement
  each; the race of a deletion with an upload is a listed hazard without a
  property.
- *Database and migrations*: SQLite is what makes a statement or transaction one
  action; the migrations are read for the schema and the first rows.
- *Identity providers*: an environment that accepts a name and delivers groups.
  The exchanges with LDAP and OIDC servers and the table of pending flows are not
  modelled.
- *Extraction*: a call that succeeds or fails. *Channels*: a list of models or a
  failure; the rewriting of requests is data.
- *Cryptographic primitives, CSRF, cookies, HTTP routing, pagination of lists,
  wording, logging*: data or libraries.
- *Grants to single users* and the SQL that joins effective groups with resources.
