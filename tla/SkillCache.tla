------------------------------ MODULE SkillCache ------------------------------
(***************************************************************************)
(* Skill packages.  A skill is a row of the skills table that names a git  *)
(* source and a version; what clients download is an archive that is made  *)
(* on demand: the source is cloned into a directory of the cache, the      *)
(* clone is packed into an archive beside it, the checksum of the archive  *)
(* is written back into the row.  Directory and archives are kept between  *)
(* downloads and thrown away when an administrator changes the source.     *)
(* Nothing but the row is under the control of the database, and no step   *)
(* takes a lock.  Two skills may share an archive's name, as "a-b" in      *)
(* version "1" and "a" in version "b-1" do: what one of them has stored    *)
(* the other takes for its own.  No skill is named like an archive, so that*)
(* directories and archives are apart.                                     *)
(***************************************************************************)
EXTENDS Naturals, FiniteSets

CONSTANTS Request,   \* downloads and PUTs that are served at the same time
          Updater,   \* those that may be a PUT
          Skill,
          Version,
          Source,    \* a git url with a ref
          Offers,    \* the sources whose metadata.yaml names a skill
          Fallback,  \* the default branch of a source's url
          File,      \* file names in the cache
          Path,      \* the archive of a skill and a version: name-version.tar.gz
          Glob,      \* what the pattern name-*.tar.gz of a skill matches
          Covered,   \* what it matches for the skills that are not in Skill,
                     \* their own archives among them
          Alien,     \* what the builds of those skills store
          MaxEvents, \* bound: changes of rows, pushes, faults
          None

ASSUME CacheConstants ==
  /\ MaxEvents \in Nat
  /\ Updater \subseteq Request
  /\ Offers \in [Skill -> SUBSET Source]
  /\ Fallback \in [Source -> Source]
  /\ Path \in [Skill \X Version -> File]
  /\ Glob \in [Skill -> SUBSET File]
  /\ \A n \in Skill, v \in Version : Path[<<n, v>>] \in Glob[n]
  /\ \A n \in Skill, v, w \in Version : Path[<<n, v>>] = Path[<<n, w>>] => v = w
  /\ Covered \subseteq File

\* What a directory or an archive holds: the state of a source at a version,
\* all of its files or only some.
Content == [source : Source, version : Version, whole : BOOLEAN]
ASSUME NoneIsNoContent == None \notin Content /\ Alien \subseteq Content

Row == [version : Version, source : Source, checksum : Content \cup {None},
        enabled : BOOLEAN]
ASSUME NoneIsNoRow == None \notin Row /\ None \notin Skill /\ None \notin Request

VARIABLES rows,      \* skills: Skill -> Row or None
          upstream,  \* the version in the metadata.yaml of each source
          clone,     \* the directory of each skill
          cloner,    \* the request whose files are the only ones in it, while
                     \* it clones
          archive,   \* File -> Content or None
          req,       \* each request: where it is, and its copy of the row
          events,    \* bound: how many of them there have been
          raced      \* history: two operations on a skill have overlapped, a
                     \* crash cut one short, or another skill has stored its
                     \* package under the name of an archive of this one, since
                     \* its cache was last purged

vars == <<rows, upstream, clone, cloner, archive, req, events, raced>>

Step == {"idle", "stat", "clone", "cloning", "build", "install", "sweep",
         "hash", "sync", "serve", "put", "purge", "purgeArchives"}
Task(at, skill, row, data) == [at |-> at, skill |-> skill, row |-> row, data |-> data]
Idle == Task("idle", None, None, None)

Init == /\ rows = [n \in Skill |-> None]
        /\ upstream \in [Source -> Version]
        /\ clone = [n \in Skill |-> None]
        /\ cloner = [n \in Skill |-> None]
        /\ archive = [f \in File |-> None]
        /\ req = [r \in Request |-> Idle]
        /\ events = 0
        /\ raced = [n \in Skill |-> FALSE]

-----------------------------------------------------------------------------
(* A request: its skill, its archive, its steps.                           *)

Own(r) == req[r].skill
Target(r) == Path[<<Own(r), req[r].row.version>>]
Working(n) == {r \in Request : req[r].skill = n}

\* r leaves step a for step b.
Goes(r, a, b) == req[r].at = a /\ req' = [req EXCEPT ![r].at = b]
Becomes(r, at, row, data) == req' = [req EXCEPT ![r] = Task(at, req[r].skill, row, data)]
Ends(r) == req' = [req EXCEPT ![r] = Idle]

Counts == events < MaxEvents /\ events' = events + 1

\* r begins with the row of n; it races with whoever is at work on n.
Begins(r, n, at) ==
  /\ req[r] = Idle /\ rows[n] # None
  /\ req' = [req EXCEPT ![r] = Task(at, n, rows[n], None)]
  /\ raced' = [raced EXCEPT ![n] = @ \/ Working(n) # {}]

-----------------------------------------------------------------------------
(* Plausible bugs, each the twin of a definition below; see UploadQueue.   *)

\* A failed clone leaves what it has written.
CloneFailsUntidy(r) ==
  /\ req[r].at = "cloning" /\ Ends(r)
  /\ cloner' = [cloner EXCEPT ![Own(r)] = None]
  /\ UNCHANGED <<rows, upstream, clone, archive, raced, events>>

\* The archive of the directory is taken whatever its version is.
AcceptsAnyVersion(n, v, c) == c # None /\ c.source \in Offers[n]

\* A PUT writes a row of its own making, enabled like a new one.
EditedAnew(row, v, s) ==
  [version |-> v, source |-> s, checksum |-> row.checksum, enabled |-> TRUE]

-----------------------------------------------------------------------------
(* A download.                                                             *)

\* GetSkill; a skill that was taken down is not found.  Who may download it is
\* the subject of OrgTree.
Lookup(r, n) ==
  /\ Begins(r, n, "stat") /\ rows[n].enabled
  /\ UNCHANGED <<rows, upstream, clone, cloner, archive, events>>

Stat(r) ==
  /\ Goes(r, "stat", IF clone[Own(r)] = None THEN "clone" ELSE "build")
  /\ UNCHANGED <<rows, upstream, clone, cloner, archive, raced, events>>

\* RemoveAll, then PlainClone creates the directory and fills it file by file.
CloneBegins(r) ==
  /\ Goes(r, "clone", "cloning")
  /\ LET s == req[r].row.source
     IN clone' = [clone EXCEPT ![Own(r)] =
                    [source |-> s, version |-> upstream[s], whole |-> FALSE]]
  /\ cloner' = [cloner EXCEPT ![Own(r)] = r]
  /\ UNCHANGED <<rows, upstream, archive, raced, events>>

\* The ref is tried as a branch and as a tag, then the default branch is
\* taken.  If somebody else has removed or rewritten the directory meanwhile,
\* what is there afterwards may be a mixture.
CloneEnds(r) ==
  /\ Goes(r, "cloning", "build")
  /\ \E s \in {req[r].row.source, Fallback[req[r].row.source]}, whole \in BOOLEAN :
       /\ cloner[Own(r)] = r => whole
       /\ IF s = req[r].row.source THEN UNCHANGED events ELSE Counts
       /\ clone' = [clone EXCEPT ![Own(r)] =
                      [source |-> s, version |-> upstream[s], whole |-> whole]]
  /\ cloner' = [cloner EXCEPT ![Own(r)] = None]
  /\ UNCHANGED <<rows, upstream, archive, raced>>

\* All attempts fail, or the repository is too large: the directory goes.
CloneFails(r) ==
  /\ req[r].at = "cloning" /\ Ends(r)
  /\ clone' = [clone EXCEPT ![Own(r)] = None]
  /\ cloner' = [cloner EXCEPT ![Own(r)] = None]
  /\ UNCHANGED <<rows, upstream, archive, raced, events>>

\* BuildPackage: an archive of that name is taken as it is.
CacheHit(r) ==
  /\ Goes(r, "build", "hash") /\ archive[Target(r)] # None
  /\ UNCHANGED <<rows, upstream, clone, cloner, archive, raced, events>>

\* Otherwise metadata.yaml has to name the skill and the version of the row,
\* and the files are packed into a temporary file.
Accepts(n, v, c) == c # None /\ c.source \in Offers[n] /\ c.version = v
Pack(r) ==
  /\ req[r].at = "build" /\ archive[Target(r)] = None
  /\ Accepts(Own(r), req[r].row.version, clone[Own(r)])
  /\ Becomes(r, "install", req[r].row, clone[Own(r)])
  /\ UNCHANGED <<rows, upstream, clone, cloner, archive, raced, events>>

\* The metadata is refused, SKILL.md is missing, a link is found, the package
\* is too large, or the directory changes under the walk.
PackFails(r) ==
  /\ \/ req[r].at = "build" /\ archive[Target(r)] = None
     \/ req[r].at = "install"
  /\ Ends(r)
  /\ UNCHANGED <<rows, upstream, clone, cloner, archive, raced, events>>

\* The name may be that of an archive of another skill too.
Archives(n) == {Path[<<n, v>>] : v \in Version}
Install(r) ==
  /\ Goes(r, "install", "sweep")
  /\ archive' = [archive EXCEPT ![Target(r)] = req[r].data]
  /\ raced' = [n \in Skill |-> raced[n] \/ (n # Own(r) /\ Target(r) \in Archives(n))]
  /\ UNCHANGED <<rows, upstream, clone, cloner, events>>

\* The archives of other versions are removed.
Sweep(r) ==
  /\ Goes(r, "sweep", "hash")
  /\ archive' = [f \in File |-> IF f \in Glob[Own(r)] \ {Target(r)} THEN None ELSE archive[f]]
  /\ UNCHANGED <<rows, upstream, clone, cloner, raced, events>>

\* fileSHA256 opens the archive by name; equal contents have equal checksums.
Hash(r) ==
  /\ req[r].at = "hash"
  /\ LET sum == archive[Target(r)]
     IN IF sum = None
        THEN Ends(r)
        ELSE Becomes(r, IF req[r].row.checksum = sum THEN "serve" ELSE "sync", req[r].row, sum)
  /\ UNCHANGED <<rows, upstream, clone, cloner, archive, raced, events>>

\* UpdateSkill writes every field of the copy, with the new checksum.
Sync(r) ==
  /\ Goes(r, "sync", "serve")
  /\ rows' = [rows EXCEPT ![Own(r)] = [req[r].row EXCEPT !.checksum = req[r].data]]
  /\ UNCHANGED <<upstream, clone, cloner, archive, raced, events>>

\* Its error is dropped.
SyncFails(r) ==
  /\ Goes(r, "sync", "serve") /\ Counts
  /\ UNCHANGED <<rows, upstream, clone, cloner, archive, raced>>

\* c.File opens the archive by name once more: the body may be another
\* archive than the one that was hashed, or a 404.
Body(r) == archive[Target(r)]
Serve(r) ==
  /\ req[r].at = "serve" /\ Ends(r)
  /\ UNCHANGED <<rows, upstream, clone, cloner, archive, raced, events>>

-----------------------------------------------------------------------------
(* Administration.                                                         *)

Create(n, v, s) ==
  /\ rows[n] = None
  /\ rows' = [rows EXCEPT ![n] = [version |-> v, source |-> s, checksum |-> None,
                                  enabled |-> TRUE]]
  /\ UNCHANGED <<upstream, clone, cloner, archive, req, raced, events>>

PutReads(r, n) ==
  /\ r \in Updater /\ Begins(r, n, "put")
  /\ UNCHANGED <<rows, upstream, clone, cloner, archive, events>>

\* The fields of the request replace those of the copy, and all of it is
\* written.  Only a change of version or source concerns the cache.
Edited(row, v, s) ==
  [version |-> v, source |-> s, checksum |-> row.checksum, enabled |-> row.enabled]
PutWrites(r, v, s) ==
  /\ req[r].at = "put"
  /\ LET new == Edited(req[r].row, v, s)
     IN /\ rows' = [rows EXCEPT ![Own(r)] = new]
        /\ IF new = req[r].row
           THEN Ends(r) /\ UNCHANGED events
           ELSE Becomes(r, "purge", new, None) /\ Counts
  /\ UNCHANGED <<upstream, clone, cloner, archive, raced>>

PutFails(r) ==
  /\ req[r].at = "put" /\ Ends(r)
  /\ UNCHANGED <<rows, upstream, clone, cloner, archive, raced, events>>

\* invalidateSkillCache: first the directory, then the archives.
PurgeClone(r) ==
  /\ Goes(r, "purge", "purgeArchives")
  /\ clone' = [clone EXCEPT ![Own(r)] = None]
  /\ cloner' = [cloner EXCEPT ![Own(r)] = None]
  /\ UNCHANGED <<rows, upstream, archive, raced, events>>

PurgeArchives(r) ==
  /\ req[r].at = "purgeArchives" /\ Ends(r)
  /\ archive' = [f \in File |-> IF f \in Glob[Own(r)] THEN None ELSE archive[f]]
  /\ raced' = [raced EXCEPT ![Own(r)] = @ /\ (Working(Own(r)) # {r} \/ clone[Own(r)] # None)]
  /\ UNCHANGED <<rows, upstream, clone, cloner, events>>

\* DELETE takes the skill down; the row and the cache stay.
Delist(n) ==
  /\ rows[n] # None /\ rows[n].enabled /\ Counts
  /\ rows' = [rows EXCEPT ![n].enabled = FALSE]
  /\ UNCHANGED <<upstream, clone, cloner, archive, req, raced>>

-----------------------------------------------------------------------------
(* The environment.                                                        *)

\* Somebody pushes to a source.
Push(s, v) ==
  /\ v # upstream[s] /\ Counts
  /\ upstream' = [upstream EXCEPT ![s] = v]
  /\ UNCHANGED <<rows, clone, cloner, archive, req, raced>>

\* A build or a purge of the skill "a" takes the archives of "a-b" away, and
\* a build of its version "b-1" stores one.
Elsewhere(f) ==
  /\ Counts
  /\ \/ /\ archive[f] # None /\ archive' = [archive EXCEPT ![f] = None]
        /\ UNCHANGED raced
     \/ /\ \E c \in Alien : archive' = [archive EXCEPT ![f] = c]
        /\ raced' = [n \in Skill |-> raced[n] \/ f \in Archives(n)]
  /\ UNCHANGED <<rows, upstream, clone, cloner, req>>

\* The server is killed and started again: the cache stays as it is.
Crash ==
  /\ Counts
  /\ req' = [r \in Request |-> Idle]
  /\ cloner' = [n \in Skill |-> None]
  /\ raced' = [n \in Skill |-> raced[n] \/ Working(n) # {}]
  /\ UNCHANGED <<rows, upstream, clone, archive>>

Download(r) ==
  \/ \E n \in Skill : Lookup(r, n)
  \/ Stat(r) \/ CloneBegins(r) \/ CloneEnds(r) \/ CloneFails(r)
  \/ CacheHit(r) \/ Pack(r) \/ PackFails(r) \/ Install(r) \/ Sweep(r)
  \/ Hash(r) \/ Sync(r) \/ SyncFails(r) \/ Serve(r)

Put(r) ==
  \/ \E n \in Skill : PutReads(r, n)
  \/ \E v \in Version, s \in Source : PutWrites(r, v, s)
  \/ PutFails(r) \/ PurgeClone(r) \/ PurgeArchives(r)

Next ==
  \/ \E r \in Request : Download(r) \/ Put(r)
  \/ \E n \in Skill, v \in Version, s \in Source : Create(n, v, s)
  \/ \E n \in Skill : Delist(n)
  \/ \E s \in Source, v \in Version : Push(s, v)
  \/ \E f \in Covered : Elsewhere(f)
  \/ Crash

Spec == Init /\ [][Next]_vars

-----------------------------------------------------------------------------
(* Properties.                                                             *)

\* A request has a skill and a copy of its row from its first step to its
\* last, and what it installs, writes back or announces is never nothing: the
\* checks of BuildPackage and fileSHA256 come before.
Tasks == {q \in [at : Step, skill : Skill \cup {None}, row : Row \cup {None},
                 data : Content \cup {None}] :
            /\ IF q.at = "idle" THEN q = Idle ELSE q.skill \in Skill /\ q.row \in Row
            /\ q.at \in {"install", "sync", "serve"} => q.data \in Content}

TypeOK ==
  /\ rows \in [Skill -> Row \cup {None}]
  /\ upstream \in [Source -> Version]
  /\ clone \in [Skill -> Content \cup {None}]
  /\ cloner \in [Skill -> Request \cup {None}]
  /\ archive \in [File -> Content \cup {None}]
  /\ req \in [Request -> Tasks]
  /\ \A r \in Request : req[r].skill # None => rows[req[r].skill] # None
  /\ events \in 0..MaxEvents
  /\ raced \in [Skill -> BOOLEAN]

\* Complete, and from the source the row names or its default branch.
Current(n, c) == c.whole /\ c.source \in {rows[n].source, Fallback[rows[n].source]}
CloneOK(n) == clone[n] # None => Current(n, clone[n])
ArchivesOK(n) ==
  \A v \in Version : archive[Path[<<n, v>>]] # None =>
    /\ v = rows[n].version
    /\ Current(n, archive[Path[<<n, v>>]]) /\ archive[Path[<<n, v>>]].version = v

\* C-6 at rest: with nobody at work on a skill whose operations have not
\* overlapped, and none of whose archives another skill has stored, the cache
\* holds no directory and no archive but those of the source and the version
\* that its row names, whatever PUTs, failed clones, failed builds and pushes
\* there have been.
QuietCacheIsCurrent ==
  \A n \in Skill : rows[n] # None /\ ~raced[n] /\ Working(n) = {} =>
    CloneOK(n) /\ ArchivesOK(n)

\* The archives that operations on other skills may remove.
Foreign(n) == Covered \cup UNION {Glob[m] : m \in Skill \ {n}}

\* C-6 as the client sees it: as long as the operations on a skill do not
\* overlap and no other skill stores an archive of that name, the package it is
\* sent is the current one, entire, and the one the checksum in the header is
\* of.  Only another skill whose archive pattern covers this one can take the
\* file away before it is opened.
ServedIsCurrent ==
  [][\A r \in Request : Serve(r) /\ ~raced[Own(r)] =>
       \/ Body(r) = None /\ Target(r) \in Foreign(Own(r))
       \/ /\ Body(r) = req[r].data
          /\ Current(Own(r), Body(r))
          /\ Body(r).version = rows[Own(r)].version]_vars

\* Why: what the step of a request that is alone with its skill says about the
\* row and the cache.
Undisturbed(n, r) ==
  LET at == req[r].at
      row == req[r].row
      file == Path[<<n, row.version>>]
  IN /\ row.version = rows[n].version /\ row.source = rows[n].source
     /\ at \notin {"cloning", "purge"} => CloneOK(n)
     /\ at = "cloning" => cloner[n] = r
     /\ at \notin {"purge", "purgeArchives"} => ArchivesOK(n)
     /\ at = "install" => Current(n, req[r].data) /\ req[r].data.version = row.version
     /\ at \in {"sweep", "hash", "sync", "serve"} => archive[file] # None \/ file \in Foreign(n)
     /\ at \in {"sync", "serve"} => archive[file] \in {None, req[r].data}

SkillOK(n) ==
  /\ rows[n] = None => clone[n] = None
  /\ rows[n] = None /\ ~raced[n] => \A v \in Version : archive[Path[<<n, v>>]] = None
  /\ ~raced[n] => /\ \A r, q \in Working(n) : r = q
                  /\ Working(n) = {} => CloneOK(n) /\ ArchivesOK(n)
                  /\ \A r \in Working(n) : Undisturbed(n, r)

IInv == TypeOK /\ \A n \in Skill : SkillOK(n)

\* C-10: nothing lists a skill again once it was taken down, with the one
\* exception of a request that had read the row before: a download or a PUT
\* that is under way writes back the whole row, enabled as it was then.
Relists(n) == rows[n] # None /\ ~rows[n].enabled /\ rows'[n].enabled
OnlyStaleCopiesRelist ==
  [][\A n \in Skill : Relists(n) =>
       \E r \in Working(n) : req[r].row.enabled /\ req[r].at \in {"sync", "put"}]_vars
=============================================================================
