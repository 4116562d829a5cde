-------------------------- MODULE SkillCacheProofs --------------------------
(***************************************************************************)
(* Proofs about SkillCache, for any skills, versions, sources and number   *)
(* of requests, any way in which the archives of skills share their names, *)
(* and any number of edits, pushes, faults and crashes.                    *)
(* IInv, the inductive invariant, is defined and explained there.          *)
(***************************************************************************)
EXTENDS SkillCache, TLAPS

-----------------------------------------------------------------------------
(* The requests.                                                           *)

LEMMA IdleType == Idle \in Tasks
BY NoneIsNoRow DEF Idle, Task, Tasks, Step

LEMMA TaskType ==
  ASSUME NEW at \in Step \ {"idle"}, NEW n \in Skill, NEW row \in Row,
         NEW data \in Content \cup {None},
         at \in {"install", "sync", "serve"} => data \in Content
  PROVE  Task(at, n, row, data) \in Tasks
BY DEF Task, Tasks, Step

LEMMA MovedType ==
  ASSUME NEW q \in Tasks, q.at # "idle", NEW b \in Step \ {"idle"},
         b \in {"install", "sync", "serve"} => q.data \in Content
  PROVE  LET new == [q EXCEPT !.at = b]
         IN  /\ new \in Tasks /\ new.at = b
             /\ new.skill = q.skill /\ new.row = q.row /\ new.data = q.data
BY DEF Tasks

LEMMA TaskFields ==
  ASSUME NEW at, NEW skill, NEW row, NEW data
  PROVE  LET t == Task(at, skill, row, data)
         IN  t.at = at /\ t.skill = skill /\ t.row = row /\ t.data = data
BY DEF Task

LEMMA EditedType ==
  ASSUME NEW row \in Row, NEW v \in Version, NEW s \in Source
  PROVE  /\ Edited(row, v, s) \in Row
         /\ Edited(row, v, s).version = v /\ Edited(row, v, s).source = s
BY DEF Edited, Row

\* A request that works is known by its skill, its row and its step.
LEMMA WorkingType ==
  ASSUME TypeOK, NEW r \in Request, req[r].at # "idle"
  PROVE  /\ req[r] \in Tasks /\ Own(r) \in Skill /\ req[r].row \in Row
         /\ req[r].row.version \in Version /\ req[r].row.source \in Source
         /\ Target(r) \in File /\ r \in Working(Own(r))
         /\ rows[Own(r)] \in Row
<1> USE DEF TypeOK
<1>1. req[r] \in Tasks /\ req[r].skill \in Skill /\ req[r].row \in Row
  BY DEF Tasks
<1>2. req[r].row.version \in Version /\ req[r].row.source \in Source
  BY <1>1 DEF Row
<1>3. Target(r) \in File
  BY <1>1, <1>2, CacheConstants DEF Target, Own
<1>4. rows[req[r].skill] \in Row
  BY <1>1, NoneIsNoRow
<1> QED
  BY <1>1, <1>2, <1>3, <1>4 DEF Own, Working

\* What a step that goes from a to b does to the requests.
LEMMA GoesType ==
  ASSUME TypeOK, NEW r \in Request, NEW a \in Step \ {"idle"}, NEW b \in Step \ {"idle"},
         b \in {"install", "sync", "serve"} => req[r].data \in Content,
         Goes(r, a, b)
  PROVE  /\ req' \in [Request -> Tasks] /\ req[r].at = a
         /\ \A q \in Request \ {r} : req'[q] = req[q]
         /\ req'[r].at = b /\ req'[r].skill = Own(r) /\ req'[r].row = req[r].row
         /\ req'[r].data = req[r].data
<1>1. /\ req \in [Request -> Tasks] /\ req[r].at = a
      /\ req' = [req EXCEPT ![r] = [req[r] EXCEPT !.at = b]]
  BY DEF Goes, TypeOK
<1>2. [req[r] EXCEPT !.at = b] \in Tasks
  BY <1>1, MovedType
<1>3. /\ req'[r] = [req[r] EXCEPT !.at = b]
      /\ \A q \in Request \ {r} : req'[q] = req[q]
      /\ req' \in [Request -> Tasks]
  BY <1>1, <1>2
<1> QED
  BY <1>1, <1>3, MovedType DEF Own

\* What the end of a request does to them.
LEMMA EndsType ==
  ASSUME TypeOK, NEW r \in Request, Ends(r)
  PROVE  /\ req' \in [Request -> Tasks] /\ req'[r] = Idle
         /\ \A q \in Request \ {r} : req'[q] = req[q]
BY IdleType DEF Ends, TypeOK

\* What a step with a new row or new data does to them.
LEMMA BecomesType ==
  ASSUME TypeOK, NEW r \in Request, req[r].at # "idle", NEW at \in Step \ {"idle"},
         NEW row \in Row, NEW data \in Content \cup {None},
         at \in {"install", "sync", "serve"} => data \in Content,
         Becomes(r, at, row, data)
  PROVE  /\ req' \in [Request -> Tasks]
         /\ \A q \in Request \ {r} : req'[q] = req[q]
         /\ req'[r].at = at /\ req'[r].skill = Own(r) /\ req'[r].row = row
         /\ req'[r].data = data
<1>1. Task(at, Own(r), row, data) \in Tasks
  BY TaskType, WorkingType
<1>2. req' = [req EXCEPT ![r] = Task(at, Own(r), row, data)] /\ req \in [Request -> Tasks]
  BY DEF Becomes, Own, TypeOK
<1>3. /\ req' \in [Request -> Tasks]
      /\ \A q \in Request \ {r} : req'[q] = req[q]
      /\ req'[r] = Task(at, Own(r), row, data)
  BY <1>1, <1>2
<1> QED
  BY <1>3, TaskFields

\* What a beginning does to them.
LEMMA BeginsType ==
  ASSUME TypeOK, NEW r \in Request, NEW n \in Skill, NEW at \in {"stat", "put"},
         Begins(r, n, at)
  PROVE  /\ req' \in [Request -> Tasks] /\ req[r] = Idle /\ rows[n] \in Row
         /\ \A q \in Request \ {r} : req'[q] = req[q]
         /\ req'[r].at = at /\ req'[r].skill = n /\ req'[r].row = rows[n]
         /\ req'[r].data = None
         /\ raced' = [raced EXCEPT ![n] = raced[n] \/ Working(n) # {}]
<1>1. rows[n] \in Row /\ req \in [Request -> Tasks]
  BY DEF Begins, TypeOK
<1>2. Task(at, n, rows[n], None) \in Tasks
  BY <1>1, TaskType DEF Step
<1>3. /\ req' = [req EXCEPT ![r] = Task(at, n, rows[n], None)] /\ req[r] = Idle
      /\ raced' = [raced EXCEPT ![n] = raced[n] \/ Working(n) # {}]
  BY DEF Begins
<1>4. /\ req' \in [Request -> Tasks]
      /\ \A q \in Request \ {r} : req'[q] = req[q]
      /\ req'[r] = Task(at, n, rows[n], None)
  BY <1>1, <1>2, <1>3
<1> QED
  BY <1>1, <1>3, <1>4, TaskFields

-----------------------------------------------------------------------------
(* A step keeps the types.                                                 *)
LEMMA TypesArePreserved == TypeOK /\ [Next]_vars => TypeOK'
<1> SUFFICES ASSUME TypeOK, [Next]_vars PROVE TypeOK'
  OBVIOUS
<1> DEFINE Kept == /\ upstream' = upstream
                   /\ events' = events \/ Counts
           Known == \A q \in Request : req'[q].skill # None =>
                      req'[q].skill = req[q].skill \/ rows[req'[q].skill] # None
<1>0. ASSUME events' = events \/ Counts PROVE events' \in 0..MaxEvents
  BY <1>0, CacheConstants DEF TypeOK, Counts
<1>1. ASSUME req' \in [Request -> Tasks], rows' \in [Skill -> Row \cup {None}],
             clone' \in [Skill -> Content \cup {None}],
             cloner' \in [Skill -> Request \cup {None}],
             archive' \in [File -> Content \cup {None}],
             raced' \in [Skill -> BOOLEAN],
             Kept, Known, \A n \in Skill : rows[n] # None => rows'[n] # None
      PROVE  TypeOK'
  <2>1. \A q \in Request : req'[q].skill # None => rows'[req'[q].skill] # None
    BY <1>1 DEF TypeOK, Tasks
  <2> QED
    BY <1>0, <1>1, <2>1 DEF TypeOK
<1>2. ASSUME NEW s \in Source, NEW v \in Version, NEW w \in BOOLEAN
      PROVE  [source |-> s, version |-> v, whole |-> w] \in Content
  BY DEF Content
<1>3. ASSUME NEW r \in Request, NEW n \in Skill, NEW at \in {"stat", "put"},
             Begins(r, n, at), UNCHANGED <<rows, upstream, clone, cloner, archive, events>>
      PROVE  TypeOK'
  <2>1. Known
    BY <1>3, BeginsType DEF TypeOK, Begins
  <2>2. raced' \in [Skill -> BOOLEAN]
    <3>1. (raced[n] \/ Working(n) # {}) \in BOOLEAN
      OBVIOUS
    <3>2. raced' = [raced EXCEPT ![n] = raced[n] \/ Working(n) # {}]
      BY <1>3, BeginsType
    <3> QED
      BY <3>1, <3>2 DEF TypeOK
  <2> QED
    BY <1>1, <1>3, <2>1, <2>2, BeginsType DEF TypeOK
<1>5. ASSUME NEW r \in Request, NEW a \in Step \ {"idle"}, NEW b \in Step \ {"idle"},
             Goes(r, a, b), b \in {"install", "sync", "serve"} => req[r].data \in Content,
             rows' \in [Skill -> Row \cup {None}],
             clone' \in [Skill -> Content \cup {None}],
             cloner' \in [Skill -> Request \cup {None}],
             archive' \in [File -> Content \cup {None}],
             Kept, raced' \in [Skill -> BOOLEAN], \A n \in Skill : rows[n] # None => rows'[n] # None
      PROVE  TypeOK'
  <2>1. Known
    BY <1>5, GoesType DEF Own
  <2> QED
    BY <1>1, <1>5, <2>1, GoesType DEF TypeOK
<1>6. ASSUME NEW r \in Request, Ends(r),
             rows' \in [Skill -> Row \cup {None}],
             clone' \in [Skill -> Content \cup {None}],
             cloner' \in [Skill -> Request \cup {None}],
             archive' \in [File -> Content \cup {None}],
             raced' \in [Skill -> BOOLEAN],
             Kept, \A n \in Skill : rows[n] # None => rows'[n] # None
      PROVE  TypeOK'
  <2>1. Known
    BY <1>6, EndsType DEF Idle, Task
  <2> QED
    BY <1>1, <1>6, <2>1, EndsType DEF TypeOK
<1>7. ASSUME NEW r \in Request, req[r].at # "idle", NEW at \in Step \ {"idle"},
             NEW row \in Row, NEW data \in Content \cup {None},
             at \in {"install", "sync", "serve"} => data \in Content,
             Becomes(r, at, row, data),
             rows' \in [Skill -> Row \cup {None}],
             Kept, UNCHANGED <<clone, cloner, archive, raced>>,
             \A n \in Skill : rows[n] # None => rows'[n] # None
      PROVE  TypeOK'
  <2>1. Known
    BY <1>7, BecomesType DEF Own
  <2> QED
    BY <1>1, <1>7, <2>1, BecomesType DEF TypeOK
<1> HIDE DEF Known
<1>8. ASSUME NEW r \in Request, Download(r) PROVE TypeOK'
  <2>1. CASE \E n \in Skill : Lookup(r, n)
    BY <1>3, <2>1 DEF Lookup
  <2>2. CASE Stat(r)
    BY <1>5, <2>2 DEF Stat, Step, TypeOK
  <2>3. CASE CloneBegins(r)
    <3>1. req[r].row.source \in Source /\ Own(r) \in Skill
      BY <2>3, WorkingType DEF CloneBegins, Goes
    <3>2. upstream[req[r].row.source] \in Version
      BY <3>1 DEF TypeOK
    <3>3. clone' \in [Skill -> Content \cup {None}] /\ cloner' \in [Skill -> Request \cup {None}]
      BY <1>2, <2>3, <3>1, <3>2 DEF CloneBegins, TypeOK
    <3> QED
      BY <1>5, <2>3, <3>3 DEF CloneBegins, Step, TypeOK
  <2>4. CASE CloneEnds(r)
    <3>1. req[r].row.source \in Source /\ Own(r) \in Skill
      BY <2>4, WorkingType DEF CloneEnds, Goes
    <3>2. Fallback[req[r].row.source] \in Source
      BY <3>1, CacheConstants
    <3>3. \A s \in Source : upstream[s] \in Version
      BY DEF TypeOK
    <3>4. clone' \in [Skill -> Content \cup {None}] /\ cloner' \in [Skill -> Request \cup {None}]
      BY <1>2, <2>4, <3>1, <3>2, <3>3 DEF CloneEnds, TypeOK
    <3>5. Kept
      BY <2>4 DEF CloneEnds
    <3> QED
      BY <1>5, <2>4, <3>4, <3>5 DEF CloneEnds, Step, TypeOK
  <2>5. CASE CloneFails(r)
    <3>1. clone' \in [Skill -> Content \cup {None}] /\ cloner' \in [Skill -> Request \cup {None}]
      BY <2>5 DEF CloneFails, TypeOK
    <3> QED
      BY <1>6, <2>5, <3>1 DEF CloneFails, TypeOK
  <2>6. CASE CacheHit(r)
    BY <1>5, <2>6 DEF CacheHit, Step, TypeOK
  <2>7. CASE Pack(r)
    <3>1. req[r].row \in Row /\ clone[Own(r)] \in Content
      BY <2>7, WorkingType DEF Pack, Accepts, TypeOK
    <3> QED
      BY <1>7, <2>7, <3>1 DEF Pack, Step, TypeOK
  <2>8. CASE PackFails(r) \/ Serve(r)
    BY <1>6, <2>8 DEF PackFails, Serve, TypeOK
  <2>9. CASE Install(r)
    <3>1. req[r].data \in Content \cup {None}
      BY DEF TypeOK, Tasks
    <3>2. archive' \in [File -> Content \cup {None}]
      BY <2>9, <3>1 DEF Install, TypeOK
    <3>3. raced' \in [Skill -> BOOLEAN]
      BY <2>9 DEF Install, TypeOK
    <3> QED
      BY <1>5, <2>9, <3>2, <3>3 DEF Install, Step, TypeOK
  <2>10. CASE Sweep(r)
    <3>1. archive' \in [File -> Content \cup {None}]
      BY <2>10 DEF Sweep, TypeOK
    <3> QED
      BY <1>5, <2>10, <3>1 DEF Sweep, Step, TypeOK
  <2>11. CASE Hash(r)
    <3>1. CASE archive[Target(r)] = None
      BY <1>6, <2>11, <3>1 DEF Hash, TypeOK
    <3>2. CASE archive[Target(r)] # None
      <4>1. req[r].row \in Row /\ archive[Target(r)] \in Content
        BY <2>11, <3>2, WorkingType DEF Hash, TypeOK
      <4>2. Becomes(r, "serve", req[r].row, archive[Target(r)])
              \/ Becomes(r, "sync", req[r].row, archive[Target(r)])
        BY <2>11, <3>2 DEF Hash
      <4> QED
        BY <1>7, <2>11, <4>1, <4>2 DEF Hash, Step, TypeOK
    <3> QED
      BY <3>1, <3>2
  <2>12. CASE Sync(r)
    <3>1. req[r].row \in Row /\ req[r].data \in Content /\ Own(r) \in Skill
      BY <2>12, WorkingType DEF Sync, Goes, Tasks
    <3>2. [req[r].row EXCEPT !.checksum = req[r].data] \in Row
      BY <3>1 DEF Row
    <3>3. /\ rows' \in [Skill -> Row \cup {None}]
          /\ \A n \in Skill : rows[n] # None => rows'[n] # None
      BY <2>12, <3>1, <3>2, NoneIsNoRow DEF Sync, TypeOK
    <3> QED
      BY <1>5, <2>12, <3>1, <3>3 DEF Sync, Step, TypeOK
  <2>13. CASE SyncFails(r)
    <3>1. req[r].data \in Content
      BY <2>13, WorkingType DEF SyncFails, Goes, Tasks
    <3> QED
      BY <1>5, <2>13, <3>1 DEF SyncFails, Step, TypeOK
  <2> QED
    BY <1>8, <2>1, <2>2, <2>3, <2>4, <2>5, <2>6, <2>7, <2>8, <2>9, <2>10, <2>11, <2>12, <2>13
    DEF Download
<1>9. ASSUME NEW r \in Request, Put(r) PROVE TypeOK'
  <2>1. CASE \E n \in Skill : PutReads(r, n)
    BY <1>3, <2>1 DEF PutReads
  <2>2. ASSUME NEW v \in Version, NEW s \in Source, PutWrites(r, v, s) PROVE TypeOK'
    <3> DEFINE new == Edited(req[r].row, v, s)
    <3>1. new \in Row /\ Own(r) \in Skill
      BY <2>2, EditedType, WorkingType DEF PutWrites
    <3>2. rows' = [rows EXCEPT ![Own(r)] = new] /\ Kept /\ UNCHANGED <<clone, cloner, archive, raced>>
      BY <2>2 DEF PutWrites
    <3>3. Ends(r) \/ Becomes(r, "purge", new, None)
      BY <2>2 DEF PutWrites
    <3> HIDE DEF new
    <3>4. /\ rows' \in [Skill -> Row \cup {None}]
          /\ \A n \in Skill : rows[n] # None => rows'[n] # None
      BY <3>1, <3>2, NoneIsNoRow DEF TypeOK
    <3>5. req[r].at # "idle"
      BY <2>2 DEF PutWrites
    <3> QED
      BY <1>6, <1>7, <3>1, <3>2, <3>3, <3>4, <3>5 DEF Step, TypeOK
  <2>3. CASE PutFails(r)
    BY <1>6, <2>3 DEF PutFails, TypeOK
  <2>4. CASE PurgeClone(r)
    <3>1. clone' \in [Skill -> Content \cup {None}] /\ cloner' \in [Skill -> Request \cup {None}]
      BY <2>4 DEF PurgeClone, TypeOK
    <3> QED
      BY <1>5, <2>4, <3>1 DEF PurgeClone, Step, TypeOK
  <2>5. CASE PurgeArchives(r)
    <3>1. archive' \in [File -> Content \cup {None}]
      BY <2>5 DEF PurgeArchives, TypeOK
    <3>2. raced' \in [Skill -> BOOLEAN]
      BY <2>5 DEF PurgeArchives, TypeOK
    <3> QED
      BY <1>6, <2>5, <3>1, <3>2 DEF PurgeArchives, TypeOK
  <2> QED
    BY <1>9, <2>1, <2>2, <2>3, <2>4, <2>5 DEF Put
<1>10. ASSUME NEW n \in Skill, NEW v \in Version, NEW s \in Source, Create(n, v, s) PROVE TypeOK'
  <2>1. [version |-> v, source |-> s, checksum |-> None, enabled |-> TRUE] \in Row
    BY DEF Row
  <2>2. /\ rows' \in [Skill -> Row \cup {None}]
        /\ \A m \in Skill : rows[m] # None => rows'[m] # None
    BY <1>10, <2>1 DEF Create, TypeOK
  <2> QED
    BY <1>1, <1>10, <2>2 DEF Create, TypeOK, Known
<1>11. ASSUME NEW n \in Skill, Delist(n) PROVE TypeOK'
  <2>1. [rows[n] EXCEPT !.enabled = FALSE] \in Row
    BY <1>11 DEF Delist, TypeOK, Row
  <2>2. /\ rows' \in [Skill -> Row \cup {None}]
        /\ \A m \in Skill : rows[m] # None => rows'[m] # None
    BY <1>11, <2>1, NoneIsNoRow DEF Delist, TypeOK
  <2> QED
    BY <1>1, <1>11, <2>2 DEF Delist, TypeOK, Known
<1>12. ASSUME NEW s \in Source, NEW v \in Version, Push(s, v) PROVE TypeOK'
  BY <1>0, <1>12 DEF Push, TypeOK
<1>13. ASSUME NEW f \in Covered, Elsewhere(f) PROVE TypeOK'
  <2>1. archive' \in [File -> Content \cup {None}]
    BY <1>13, CacheConstants, NoneIsNoContent DEF Elsewhere, TypeOK
  <2>2. raced' \in [Skill -> BOOLEAN]
    BY <1>13 DEF Elsewhere, TypeOK
  <2> QED
    BY <1>0, <1>13, <2>1, <2>2 DEF Elsewhere, TypeOK
<1>14. CASE Crash
  <2>1. req' \in [Request -> Tasks] /\ \A q \in Request : req'[q].skill = None
    BY <1>14, IdleType DEF Crash, Idle, Task
  <2> QED
    BY <1>0, <1>14, <2>1 DEF Crash, TypeOK
<1>15. CASE UNCHANGED vars
  BY <1>15 DEF vars, TypeOK
<1> QED
  BY <1>8, <1>9, <1>10, <1>11, <1>12, <1>13, <1>14, <1>15 DEF Next

-----------------------------------------------------------------------------
(* Skills are independent: what a step leaves of a skill that it is not    *)
(* about, up to archives that the pattern of its own skill covers, and     *)
(* unless it stores one under a name of that skill.                        *)
Untouched(m) ==
  /\ rows'[m] = rows[m] /\ clone'[m] = clone[m] /\ cloner'[m] = cloner[m]
  /\ \A q \in Request : req[q].skill = m \/ req'[q].skill = m => req'[q] = req[q]
  /\ \/ raced'[m]
     \/ /\ raced'[m] = raced[m]
        /\ \A v \in Version :
             \/ archive'[Path[<<m, v>>]] = archive[Path[<<m, v>>]]
             \/ archive'[Path[<<m, v>>]] = None /\ Path[<<m, v>>] \in Foreign(m)

LEMMA UntouchedSkill ==
  ASSUME TypeOK, NEW m \in Skill, SkillOK(m), Untouched(m)
  PROVE  SkillOK(m)'
<1>0. CASE raced'[m]
  BY <1>0 DEF SkillOK, Untouched
<1>1. Working(m)' = Working(m) /\ \A q \in Working(m) : req'[q] = req[q]
  BY DEF Untouched, Working
<1> SUFFICES ASSUME ~raced'[m] PROVE SkillOK(m)'
  BY <1>0
<1>2. CloneOK(m) => CloneOK(m)'
  BY DEF Untouched, CloneOK, Current
<1>3. ArchivesOK(m) => ArchivesOK(m)'
  BY DEF Untouched, ArchivesOK, Current
<1>4. ASSUME NEW q \in Working(m), Undisturbed(m, q) PROVE Undisturbed(m, q)'
  <2>1. req[q].skill = m /\ q \in Request /\ req[q].at # "idle"
    BY <1>4, NoneIsNoRow DEF Working, TypeOK, Tasks, Idle, Task
  <2>2. req[q].row.version \in Version
    BY <2>1, WorkingType
  <2> QED
    BY <1>1, <1>2, <1>3, <1>4, <2>2 DEF Undisturbed, Untouched, Current, Foreign
<1>5. raced'[m] = raced[m] /\ ~raced[m]
  BY DEF Untouched
<1>6. rows'[m] = None => clone'[m] = None /\ \A v \in Version : archive'[Path[<<m, v>>]] = None
  BY <1>5 DEF SkillOK, Untouched
<1>7. /\ \A r, q \in Working(m)' : r = q
      /\ Working(m)' = {} => CloneOK(m)' /\ ArchivesOK(m)'
      /\ \A r \in Working(m)' : Undisturbed(m, r)'
  BY <1>1, <1>2, <1>3, <1>4, <1>5 DEF SkillOK
<1> QED
  BY <1>6, <1>7 DEF SkillOK

(* The step of one request: it is enough to look at its own skill, and     *)
(* there at a request that is alone.                                       *)
LEMMA OneSkill ==
  ASSUME TypeOK, \A m \in Skill : SkillOK(m),
         NEW r \in Request, req[r].at # "idle", NEW n \in Skill, n = Own(r),
         \A q \in Request \ {r} : req'[q] = req[q],
         req'[r] = Idle \/ req'[r].skill = n,
         \A m \in Skill \ {n} : Untouched(m),
         rows'[n] # None, raced'[n] = raced[n],
         ~raced[n] /\ Undisturbed(n, r) => IF req'[r] = Idle THEN CloneOK(n)' /\ ArchivesOK(n)'
                                                             ELSE Undisturbed(n, r)'
  PROVE  \A m \in Skill : SkillOK(m)'
<1>1. r \in Working(n)
  BY WorkingType
<1>2. ASSUME NEW m \in Skill, m # n PROVE SkillOK(m)'
  BY <1>2, UntouchedSkill
<1>3. SkillOK(n)'
  <2>1. CASE raced[n]
    BY <2>1 DEF SkillOK
  <2>2. CASE ~raced[n]
    <3>1. Working(n) = {r} /\ Undisturbed(n, r)
      BY <1>1, <2>2 DEF SkillOK
    <3>2. \A q \in Request \ {r} : req'[q].skill # n
      BY <3>1 DEF Working
    <3>3. Idle.skill = None /\ n # None
      BY NoneIsNoRow DEF Idle, Task
    <3>4. CASE req'[r] = Idle
      <4>1. Working(n)' = {}
        BY <3>2, <3>3, <3>4 DEF Working
      <4> QED
        BY <2>2, <3>1, <3>4, <4>1 DEF SkillOK
    <3>5. CASE req'[r] # Idle
      <4>1. Working(n)' = {r}
        BY <3>2, <3>5 DEF Working
      <4> QED
        BY <2>2, <3>1, <3>5, <4>1 DEF SkillOK
    <3> QED
      BY <3>4, <3>5
  <2> QED
    BY <2>1, <2>2
<1> QED
  BY <1>2, <1>3

(* A request keeps to its skill, and removes the archives that its pattern *)
(* covers.                                                                 *)
LEMMA OthersUntouched ==
  ASSUME TypeOK, NEW r \in Request, NEW n \in Skill, n = Own(r),
         \A q \in Request \ {r} : req'[q] = req[q],
         req'[r] = Idle \/ req'[r].skill = n,
         \A m \in Skill \ {n} : /\ rows'[m] = rows[m] /\ clone'[m] = clone[m]
                                /\ cloner'[m] = cloner[m],
         \A m \in Skill \ {n} :
           \/ raced'[m]
           \/ /\ raced'[m] = raced[m]
              /\ \A f \in Archives(m) : \/ archive'[f] = archive[f]
                                        \/ f \in Glob[n] /\ archive'[f] = None
  PROVE  \A m \in Skill \ {n} : Untouched(m)
<1> SUFFICES ASSUME NEW m \in Skill, m # n PROVE Untouched(m)
  OBVIOUS
<1>1. \A q \in Request : req[q].skill = m \/ req'[q].skill = m => req'[q] = req[q]
  BY NoneIsNoRow DEF Own, Idle, Task
<1>2. ASSUME NEW v \in Version, ~raced'[m]
      PROVE  \/ archive'[Path[<<m, v>>]] = archive[Path[<<m, v>>]]
             \/ archive'[Path[<<m, v>>]] = None /\ Path[<<m, v>>] \in Foreign(m)
  <2>1. Path[<<m, v>>] \in Archives(m)
    BY DEF Archives
  <2>2. Glob[n] \subseteq Foreign(m)
    BY DEF Foreign
  <2> QED
    BY <1>2, <2>1, <2>2
<1> QED
  BY <1>1, <1>2 DEF Untouched

-----------------------------------------------------------------------------
(* Each step keeps the invariant of every skill.                           *)
LEMMA SkillsStay == IInv /\ [Next]_vars => \A m \in Skill : SkillOK(m)'
<1> SUFFICES ASSUME IInv, [Next]_vars PROVE \A m \in Skill : SkillOK(m)'
  OBVIOUS
<1>a. TypeOK /\ \A m \in Skill : SkillOK(m)
  BY DEF IInv
\* A beginning: nobody is at work, or it is a race.
<1>1. ASSUME NEW r \in Request, NEW n \in Skill, NEW at \in {"stat", "put"},
             Begins(r, n, at), UNCHANGED <<rows, clone, cloner, archive>>
      PROVE  \A m \in Skill : SkillOK(m)'
  <2>1. /\ req[r] = Idle /\ rows[n] \in Row
        /\ \A q \in Request \ {r} : req'[q] = req[q]
        /\ req'[r].at = at /\ req'[r].skill = n /\ req'[r].row = rows[n]
        /\ raced' = [raced EXCEPT ![n] = raced[n] \/ Working(n) # {}]
    BY <1>1, <1>a, BeginsType
  <2>2. ASSUME NEW m \in Skill, m # n PROVE SkillOK(m)'
    <3>1. Untouched(m)
      BY <1>1, <1>a, <2>1, <2>2, NoneIsNoRow DEF Untouched, Idle, Task, TypeOK
    <3> QED
      BY <1>a, <3>1, UntouchedSkill
  <2>3. SkillOK(n)'
    <3>1. rows'[n] # None
      BY <1>1, <2>1, NoneIsNoRow
    <3>2. CASE ~raced'[n]
      <4>1. ~raced[n] /\ Working(n) = {}
        BY <1>a, <2>1, <3>2 DEF TypeOK
      <4>2. CloneOK(n)' /\ ArchivesOK(n)'
        BY <1>1, <1>a, <4>1 DEF SkillOK, CloneOK, ArchivesOK, Current
      <4>3. Working(n)' = {r}
        BY <2>1, <4>1 DEF Working
      <4>4. Undisturbed(n, r)'
        BY <1>1, <2>1, <4>2 DEF Undisturbed
      <4> QED
        BY <3>1, <4>2, <4>3, <4>4 DEF SkillOK
    <3> QED
      BY <3>1, <3>2 DEF SkillOK
  <2> QED
    BY <2>2, <2>3
\* A step of a request that is at work.
<1>2. ASSUME NEW r \in Request, NEW n \in Skill, n = Own(r), req[r].at # "idle",
             \/ Stat(r) \/ CloneBegins(r) \/ CloneEnds(r) \/ CloneFails(r)
             \/ CacheHit(r) \/ Pack(r) \/ PackFails(r) \/ Install(r) \/ Sweep(r)
             \/ Hash(r) \/ Sync(r) \/ SyncFails(r) \/ Serve(r)
             \/ PutFails(r) \/ PurgeClone(r)
             \/ \E v \in Version, s \in Source : PutWrites(r, v, s)
      PROVE  \A m \in Skill : SkillOK(m)'
  <2>a. /\ req[r] \in Tasks /\ req[r].row \in Row /\ rows[n] \in Row
        /\ req[r].row.version \in Version /\ req[r].row.source \in Source
        /\ Target(r) = Path[<<n, req[r].row.version>>] /\ Target(r) \in File
    BY <1>2, <1>a, WorkingType DEF Target
  <2> DEFINE After == IF req'[r] = Idle THEN CloneOK(n)' /\ ArchivesOK(n)' ELSE Undisturbed(n, r)'
             Local == \A f \in File : \/ archive'[f] = archive[f]
                                      \/ f \in Glob[n] /\ archive'[f] = None
  <2>b. ASSUME \A q \in Request \ {r} : req'[q] = req[q],
               req'[r] = Idle \/ req'[r].skill = n,
               \A m \in Skill \ {n} : /\ rows'[m] = rows[m] /\ clone'[m] = clone[m]
                                      /\ cloner'[m] = cloner[m],
               raced' = raced, rows'[n] # None, Local,
               ~raced[n] /\ Undisturbed(n, r) => After
        PROVE  \A m \in Skill : SkillOK(m)'
    <3>0. \A m \in Skill : Archives(m) \subseteq File
      BY CacheConstants DEF Archives
    <3>1. \A m \in Skill \ {n} : Untouched(m)
      BY <1>2, <1>a, <2>b, <3>0, OthersUntouched
    <3> QED
      BY <1>2, <1>a, <2>b, <3>1, OneSkill
  <2>1. CASE Stat(r)
    <3>1. /\ \A q \in Request \ {r} : req'[q] = req[q]
          /\ req'[r].skill = n /\ req'[r].row = req[r].row
          /\ req[r].at = "stat" /\ req'[r].at \in {"clone", "build"}
      BY <1>2, <1>a, <2>1, GoesType DEF Stat, Step
    <3>2. UNCHANGED <<rows, clone, cloner, archive, raced>>
      BY <2>1 DEF Stat
    <3>3. Undisturbed(n, r) => After
      BY <3>1, <3>2 DEF Undisturbed, CloneOK, ArchivesOK, Current, Idle, Task
    <3> QED
      BY <2>a, <2>b, <3>1, <3>2, <3>3, NoneIsNoRow
  <2>2. CASE CloneBegins(r)
    <3>1. /\ \A q \in Request \ {r} : req'[q] = req[q]
          /\ req'[r].skill = n /\ req'[r].row = req[r].row
          /\ req[r].at = "clone" /\ req'[r].at = "cloning"
      BY <1>2, <1>a, <2>2, GoesType DEF CloneBegins, Step
    <3>2. /\ UNCHANGED <<rows, archive, raced>>
          /\ cloner'[n] = r
          /\ \A m \in Skill \ {n} : clone'[m] = clone[m] /\ cloner'[m] = cloner[m]
      BY <1>2, <1>a, <2>2 DEF CloneBegins, TypeOK
    <3>3. Undisturbed(n, r) => After
      BY <3>1, <3>2 DEF Undisturbed, CloneOK, ArchivesOK, Current, Idle, Task
    <3> QED
      BY <2>a, <2>b, <3>1, <3>2, <3>3, NoneIsNoRow
  <2>3. CASE CloneEnds(r)
    <3>1. /\ \A q \in Request \ {r} : req'[q] = req[q]
          /\ req'[r].skill = n /\ req'[r].row = req[r].row
          /\ req[r].at = "cloning" /\ req'[r].at = "build"
      BY <1>2, <1>a, <2>3, GoesType DEF CloneEnds, Step
    <3>2. PICK s \in {req[r].row.source, Fallback[req[r].row.source]}, whole \in BOOLEAN :
            /\ cloner[n] = r => whole
            /\ clone' = [clone EXCEPT ![n] =
                           [source |-> s, version |-> upstream[s], whole |-> whole]]
      BY <1>2, <2>3 DEF CloneEnds
    <3>3. /\ UNCHANGED <<rows, archive, raced>>
          /\ clone'[n].source = s /\ clone'[n].whole = whole
          /\ \A m \in Skill \ {n} : clone'[m] = clone[m] /\ cloner'[m] = cloner[m]
      BY <1>2, <1>a, <2>3, <3>2 DEF CloneEnds, TypeOK
    <3>4. Undisturbed(n, r) => CloneOK(n)'
      BY <3>1, <3>2, <3>3 DEF Undisturbed, CloneOK, Current
    <3>5. Undisturbed(n, r) => After
      BY <3>1, <3>3, <3>4 DEF Undisturbed, ArchivesOK, Current, Idle, Task
    <3> QED
      BY <2>a, <2>b, <3>1, <3>3, <3>5, NoneIsNoRow
  <2>4. CASE CloneFails(r)
    <3>1. /\ \A q \in Request \ {r} : req'[q] = req[q]
          /\ req'[r] = Idle /\ req[r].at = "cloning"
      BY <1>a, <2>4, EndsType DEF CloneFails
    <3>2. /\ UNCHANGED <<rows, archive, raced>>
          /\ clone'[n] = None
          /\ \A m \in Skill \ {n} : clone'[m] = clone[m] /\ cloner'[m] = cloner[m]
      BY <1>2, <1>a, <2>4 DEF CloneFails, TypeOK
    <3>3. Undisturbed(n, r) => After
      BY <3>1, <3>2 DEF Undisturbed, CloneOK, ArchivesOK, Current
    <3> QED
      BY <2>a, <2>b, <3>1, <3>2, <3>3, NoneIsNoRow
  <2>5. CASE CacheHit(r)
    <3>1. /\ \A q \in Request \ {r} : req'[q] = req[q]
          /\ req'[r].skill = n /\ req'[r].row = req[r].row
          /\ req[r].at = "build" /\ req'[r].at = "hash"
      BY <1>2, <1>a, <2>5, GoesType DEF CacheHit, Step
    <3>2. UNCHANGED <<rows, clone, cloner, archive, raced>> /\ archive[Target(r)] # None
      BY <2>5 DEF CacheHit
    <3>3. Undisturbed(n, r) => After
      BY <2>a, <3>1, <3>2 DEF Undisturbed, CloneOK, ArchivesOK, Current, Idle, Task
    <3> QED
      BY <2>a, <2>b, <3>1, <3>2, <3>3, NoneIsNoRow
  <2>6. CASE Pack(r)
    <3>1. /\ req[r].at = "build" /\ clone[n] \in Content
          /\ clone[n].version = req[r].row.version
          /\ Becomes(r, "install", req[r].row, clone[n])
          /\ UNCHANGED <<rows, clone, cloner, archive, raced>>
      BY <1>2, <1>a, <2>6 DEF Pack, Accepts, TypeOK
    <3>2. /\ \A q \in Request \ {r} : req'[q] = req[q]
          /\ req'[r].skill = n /\ req'[r].row = req[r].row
          /\ req'[r].at = "install" /\ req'[r].data = clone[n]
      BY <1>2, <1>a, <2>a, <3>1, BecomesType DEF Step
    <3>3. Undisturbed(n, r) => After
      BY <3>1, <3>2, NoneIsNoContent DEF Undisturbed, CloneOK, ArchivesOK, Current, Idle, Task
    <3> QED
      BY <2>a, <2>b, <3>1, <3>2, <3>3, NoneIsNoRow
  <2>7. CASE PackFails(r) \/ Serve(r) \/ PutFails(r)
    <3>1. /\ \A q \in Request \ {r} : req'[q] = req[q]
          /\ req'[r] = Idle /\ req[r].at \in {"build", "install", "serve", "put"}
      BY <1>a, <2>7, EndsType DEF PackFails, Serve, PutFails
    <3>2. UNCHANGED <<rows, clone, cloner, archive, raced>>
      BY <2>7 DEF PackFails, Serve, PutFails
    <3>3. Undisturbed(n, r) => After
      BY <3>1, <3>2 DEF Undisturbed, CloneOK, ArchivesOK, Current
    <3> QED
      BY <2>a, <2>b, <3>1, <3>2, <3>3, NoneIsNoRow
  <2>8. CASE Install(r)
    <3>1. /\ \A q \in Request \ {r} : req'[q] = req[q]
          /\ req'[r].skill = n /\ req'[r].row = req[r].row
          /\ req[r].at = "install" /\ req'[r].at = "sweep" /\ req[r].data \in Content
      BY <1>2, <1>a, <2>a, <2>8, GoesType DEF Install, Goes, Step, Tasks
    <3>2. /\ UNCHANGED <<rows, clone, cloner>>
          /\ archive' = [archive EXCEPT ![Target(r)] = req[r].data]
          /\ archive \in [File -> Content \cup {None}]
          /\ raced' = [m \in Skill |-> raced[m] \/ (m # n /\ Target(r) \in Archives(m))]
      BY <1>2, <1>a, <2>8 DEF Install, TypeOK
    <3>3. archive'[Target(r)] = req[r].data /\ \A f \in File : archive'[f] = archive[f] \/ f = Target(r)
      BY <2>a, <3>2
    <3>4. \A v \in Version : Path[<<n, v>>] \in File /\
                             (Path[<<n, v>>] = Target(r) => v = req[r].row.version)
      BY <2>a, CacheConstants
    <3>5. Undisturbed(n, r) => ArchivesOK(n)'
      BY <3>1, <3>2, <3>3, <3>4 DEF Undisturbed, ArchivesOK, Current
    <3>6. Undisturbed(n, r) => After
      BY <2>a, <3>1, <3>2, <3>3, <3>5, NoneIsNoContent DEF Undisturbed, CloneOK, Current, Idle, Task
    <3>7. raced'[n] = raced[n]
      BY <1>a, <3>2 DEF TypeOK
    <3>8. ASSUME NEW m \in Skill \ {n}, ~raced'[m]
          PROVE  raced'[m] = raced[m] /\ \A f \in Archives(m) : archive'[f] = archive[f]
      <4>1. Target(r) \notin Archives(m) /\ ~raced[m]
        BY <3>2, <3>8
      <4>2. Archives(m) \subseteq File
        BY CacheConstants DEF Archives
      <4> QED
        BY <1>a, <3>2, <3>3, <3>8, <4>1, <4>2 DEF TypeOK
    <3>9. \A m \in Skill \ {n} : Untouched(m)
      BY <1>2, <1>a, <3>1, <3>2, <3>8, OthersUntouched
    <3> QED
      BY <1>2, <1>a, <2>a, <3>1, <3>2, <3>6, <3>7, <3>9, NoneIsNoRow, OneSkill
  <2>9. CASE Sweep(r)
    <3>1. /\ \A q \in Request \ {r} : req'[q] = req[q]
          /\ req'[r].skill = n /\ req'[r].row = req[r].row
          /\ req[r].at = "sweep" /\ req'[r].at = "hash"
      BY <1>2, <1>a, <2>9, GoesType DEF Sweep, Step
    <3>2. /\ UNCHANGED <<rows, clone, cloner, raced>>
          /\ archive'[Target(r)] = archive[Target(r)]
          /\ \A f \in File : archive'[f] = archive[f] \/ (f \in Glob[n] /\ archive'[f] = None)
      BY <1>2, <2>a, <2>9 DEF Sweep
    <3>3. \A v \in Version : Path[<<n, v>>] \in File
      BY CacheConstants
    <3>4. Undisturbed(n, r) => ArchivesOK(n)'
      BY <3>1, <3>2, <3>3 DEF Undisturbed, ArchivesOK, Current
    <3>5. Undisturbed(n, r) => After
      BY <2>a, <3>1, <3>2, <3>4 DEF Undisturbed, CloneOK, Current, Foreign, Idle, Task
    <3> QED
      BY <2>a, <2>b, <3>1, <3>2, <3>5, NoneIsNoRow
  <2>10. CASE Hash(r)
    <3>1. req[r].at = "hash" /\ UNCHANGED <<rows, clone, cloner, archive, raced>>
      BY <2>10 DEF Hash
    <3>2. CASE archive[Target(r)] = None
      <4>1. \A q \in Request \ {r} : req'[q] = req[q]
        BY <1>a, <2>10, <3>2, EndsType DEF Hash
      <4>2. req'[r] = Idle
        BY <1>a, <2>10, <3>2, EndsType DEF Hash
      <4>3. Undisturbed(n, r) => After
        BY <3>1, <4>2 DEF Undisturbed, CloneOK, ArchivesOK, Current
      <4> QED
        BY <2>a, <2>b, <3>1, <4>1, <4>2, <4>3, NoneIsNoRow
    <3>3. CASE archive[Target(r)] # None
      <4>1. archive[Target(r)] \in Content
        BY <1>a, <2>a, <3>3 DEF TypeOK
      <4>2. PICK at \in {"serve", "sync"} : Becomes(r, at, req[r].row, archive[Target(r)])
        BY <2>10, <3>3 DEF Hash
      <4>3. /\ \A q \in Request \ {r} : req'[q] = req[q]
            /\ req'[r].skill = n /\ req'[r].row = req[r].row
            /\ req'[r].at \in {"serve", "sync"} /\ req'[r].data = archive[Target(r)]
        BY <1>2, <1>a, <2>a, <3>1, <4>1, <4>2, BecomesType DEF Step
      <4>4. Undisturbed(n, r) => After
        BY <2>a, <3>1, <3>3, <4>3 DEF Undisturbed, CloneOK, ArchivesOK, Current, Idle, Task
      <4> QED
        BY <2>a, <2>b, <3>1, <4>3, <4>4, NoneIsNoRow
    <3> QED
      BY <3>2, <3>3
  <2>11. CASE Sync(r) \/ SyncFails(r)
    <3>1. /\ \A q \in Request \ {r} : req'[q] = req[q]
          /\ req'[r].skill = n /\ req'[r].row = req[r].row /\ req'[r].data = req[r].data
          /\ req[r].at = "sync" /\ req'[r].at = "serve"
      BY <1>2, <1>a, <2>a, <2>11, GoesType DEF Sync, SyncFails, Goes, Step, Tasks
    <3>2. /\ UNCHANGED <<clone, cloner, archive, raced>>
          /\ rows' = rows \/ rows' = [rows EXCEPT ![n] = [req[r].row EXCEPT !.checksum = req[r].data]]
          /\ rows \in [Skill -> Row \cup {None}]
      BY <1>2, <1>a, <2>11 DEF Sync, SyncFails, TypeOK
    <3>3. LET new == [req[r].row EXCEPT !.checksum = req[r].data]
          IN  new \in Row /\ new.version = req[r].row.version /\ new.source = req[r].row.source
      BY <2>a, <1>a, <3>1 DEF Row, TypeOK, Tasks
    <3>4. /\ rows'[n] \in Row
          /\ \/ rows'[n] = rows[n]
             \/ rows'[n].version = req[r].row.version /\ rows'[n].source = req[r].row.source
          /\ \A m \in Skill \ {n} : rows'[m] = rows[m]
      BY <2>a, <3>2, <3>3
    <3>5. Undisturbed(n, r) => rows'[n].version = rows[n].version /\ rows'[n].source = rows[n].source
      BY <3>4 DEF Undisturbed
    <3>6. Undisturbed(n, r) => After
      BY <3>1, <3>2, <3>5 DEF Undisturbed, CloneOK, ArchivesOK, Current, Idle, Task
    <3> QED
      BY <2>a, <2>b, <3>1, <3>2, <3>4, <3>6, NoneIsNoRow
  <2>12. CASE PurgeClone(r)
    <3>1. /\ \A q \in Request \ {r} : req'[q] = req[q]
          /\ req'[r].skill = n /\ req'[r].row = req[r].row
          /\ req[r].at = "purge" /\ req'[r].at = "purgeArchives"
      BY <1>2, <1>a, <2>12, GoesType DEF PurgeClone, Step
    <3>2. /\ UNCHANGED <<rows, archive, raced>>
          /\ clone'[n] = None
          /\ \A m \in Skill \ {n} : clone'[m] = clone[m] /\ cloner'[m] = cloner[m]
      BY <1>2, <1>a, <2>12 DEF PurgeClone, TypeOK
    <3>3. Undisturbed(n, r) => After
      BY <3>1, <3>2 DEF Undisturbed, CloneOK, ArchivesOK, Current, Idle, Task
    <3> QED
      BY <2>a, <2>b, <3>1, <3>2, <3>3, NoneIsNoRow
  <2>13. ASSUME NEW v \in Version, NEW s \in Source, PutWrites(r, v, s)
         PROVE  \A m \in Skill : SkillOK(m)'
    <3> DEFINE new == Edited(req[r].row, v, s)
    <3>1. /\ req[r].at = "put" /\ UNCHANGED <<clone, cloner, archive, raced>>
          /\ rows' = [rows EXCEPT ![n] = new] /\ rows \in [Skill -> Row \cup {None}]
          /\ IF new = req[r].row THEN Ends(r) ELSE Becomes(r, "purge", new, None)
      BY <1>2, <1>a, <2>13 DEF PutWrites, TypeOK
    <3>2. new \in Row
      BY <2>a, EditedType
    <3> HIDE DEF new
    <3>3. rows'[n] = new /\ \A m \in Skill \ {n} : rows'[m] = rows[m]
      BY <3>1
    <3>4. CASE new = req[r].row
      <4>1. req'[r] = Idle /\ \A q \in Request \ {r} : req'[q] = req[q]
        BY <1>a, <3>1, <3>4, EndsType
      <4>2. Undisturbed(n, r) => After
        BY <3>1, <3>3, <3>4, <4>1 DEF Undisturbed, CloneOK, ArchivesOK, Current
      <4> QED
        BY <2>b, <3>1, <3>2, <3>3, <4>1, <4>2, NoneIsNoRow
    <3>5. CASE new # req[r].row
      <4>1. /\ \A q \in Request \ {r} : req'[q] = req[q]
            /\ req'[r].skill = n /\ req'[r].row = new /\ req'[r].at = "purge"
        BY <1>2, <1>a, <3>1, <3>2, <3>5, BecomesType DEF Step
      <4>2. Undisturbed(n, r) => After
        BY <3>3, <4>1 DEF Undisturbed, Idle, Task
      <4> QED
        BY <2>b, <3>1, <3>2, <3>3, <4>1, <4>2, NoneIsNoRow
    <3> QED
      BY <3>4, <3>5
  <2> QED
    BY <1>2, <2>1, <2>2, <2>3, <2>4, <2>5, <2>6, <2>7, <2>8, <2>9, <2>10, <2>11, <2>12, <2>13
<1>3. ASSUME NEW r \in Request, PurgeArchives(r) PROVE \A m \in Skill : SkillOK(m)'
  <2>1. /\ req[r].at = "purgeArchives" /\ UNCHANGED <<rows, clone, cloner>>
        /\ archive' = [f \in File |-> IF f \in Glob[Own(r)] THEN None ELSE archive[f]]
        /\ raced' = [raced EXCEPT ![Own(r)] = raced[Own(r)] /\ (Working(Own(r)) # {r} \/ clone[Own(r)] # None)]
    BY <1>3 DEF PurgeArchives
  <2>2. req'[r] = Idle /\ \A q \in Request \ {r} : req'[q] = req[q]
    BY <1>3, <1>a, EndsType DEF PurgeArchives
  <2>3. PICK n \in Skill : n = Own(r) /\ rows[n] \in Row /\ r \in Working(n)
    BY <1>a, <2>1, WorkingType
  <2>4. \A m \in Skill \ {n} : Untouched(m)
    <3>1. \A m \in Skill \ {n} : raced'[m] = raced[m]
      BY <1>a, <2>1, <2>3 DEF TypeOK
    <3>2. \A f \in File : archive'[f] = archive[f] \/ (f \in Glob[n] /\ archive'[f] = None)
      BY <2>1, <2>3
    <3>3. \A m \in Skill : Archives(m) \subseteq File
      BY CacheConstants DEF Archives
    <3> QED
      BY <1>a, <2>1, <2>2, <2>3, <3>1, <3>2, <3>3, OthersUntouched
  <2>5. SkillOK(n)'
    <3>1. rows'[n] # None
      BY <2>1, <2>3, NoneIsNoRow
    <3>2. ArchivesOK(n)'
      BY <2>1, <2>3, CacheConstants DEF ArchivesOK
    <3>3. CASE ~raced'[n]
      <4>1. Working(n) = {r} /\ CloneOK(n)
        <5>1. CASE raced[n]
          BY <1>a, <2>1, <2>3, <3>3, <5>1 DEF TypeOK, CloneOK
        <5>2. CASE ~raced[n]
          BY <1>a, <2>1, <2>3, <5>2 DEF SkillOK, Undisturbed
        <5> QED
          BY <5>1, <5>2
      <4>2. Working(n)' = {}
        BY <2>2, <2>3, <4>1, NoneIsNoRow DEF Working, Idle, Task
      <4>3. CloneOK(n)'
        BY <2>1, <4>1 DEF CloneOK, Current
      <4> QED
        BY <3>1, <3>2, <4>2, <4>3 DEF SkillOK
    <3> QED
      BY <3>1, <3>3 DEF SkillOK
  <2> QED
    BY <1>a, <2>4, <2>5, UntouchedSkill
\* A new skill has no files.
<1>4. ASSUME NEW n \in Skill, NEW v \in Version, NEW s \in Source, Create(n, v, s)
      PROVE  \A m \in Skill : SkillOK(m)'
  <2>1. /\ rows[n] = None /\ UNCHANGED <<clone, cloner, archive, req, raced>>
        /\ rows' = [rows EXCEPT ![n] = [version |-> v, source |-> s, checksum |-> None,
                                        enabled |-> TRUE]]
    BY <1>4 DEF Create
  <2>2. \A m \in Skill \ {n} : Untouched(m)
    BY <1>a, <2>1 DEF Untouched, TypeOK
  <2>3. SkillOK(n)'
    <3>1. Working(n) = {}
      BY <1>a, <2>1, NoneIsNoRow DEF Working, TypeOK
    <3>2. Working(n)' = {}
      BY <2>1, <3>1 DEF Working
    <3>3. clone'[n] = None /\ (~raced'[n] => \A w \in Version : archive'[Path[<<n, w>>]] = None)
      BY <1>a, <2>1 DEF SkillOK
    <3>4. CloneOK(n)' /\ (~raced'[n] => ArchivesOK(n)')
      BY <3>3 DEF CloneOK, ArchivesOK
    <3> QED
      BY <3>2, <3>3, <3>4 DEF SkillOK
  <2> QED
    BY <1>a, <2>2, <2>3, UntouchedSkill
<1>5. ASSUME NEW n \in Skill, Delist(n) PROVE \A m \in Skill : SkillOK(m)'
  <2>1. /\ rows[n] \in Row /\ UNCHANGED <<clone, cloner, archive, req, raced>>
        /\ rows' = [rows EXCEPT ![n] = [rows[n] EXCEPT !.enabled = FALSE]]
    BY <1>5, <1>a DEF Delist, TypeOK
  <2>2. \A m \in Skill \ {n} : Untouched(m)
    BY <1>a, <2>1 DEF Untouched, TypeOK
  <2>3. /\ rows'[n] # None
        /\ rows'[n].version = rows[n].version /\ rows'[n].source = rows[n].source
    <3>1. LET new == [rows[n] EXCEPT !.enabled = FALSE]
          IN  new \in Row /\ new.version = rows[n].version /\ new.source = rows[n].source
      BY <2>1 DEF Row
    <3> QED
      BY <1>a, <2>1, <3>1, NoneIsNoRow DEF TypeOK
  <2>4. SkillOK(n)'
    <3>1. Working(n)' = Working(n)
      BY <2>1 DEF Working
    <3>2. (CloneOK(n) => CloneOK(n)') /\ (ArchivesOK(n) => ArchivesOK(n)')
      BY <2>1, <2>3 DEF CloneOK, ArchivesOK, Current
    <3>3. ASSUME NEW q \in Working(n), Undisturbed(n, q) PROVE Undisturbed(n, q)'
      BY <2>1, <2>3, <3>2, <3>3 DEF Undisturbed, Current, Foreign
    <3> QED
      BY <1>a, <2>1, <2>3, <3>1, <3>2, <3>3 DEF SkillOK
  <2> QED
    BY <1>a, <2>2, <2>4, UntouchedSkill
<1>6. ASSUME UNCHANGED <<rows, clone, cloner, req, raced>>,
             \A f \in File : archive'[f] = archive[f] \/ (f \in Covered /\ archive'[f] = None)
      PROVE  \A m \in Skill : SkillOK(m)'
  <2>1. \A m \in Skill : Untouched(m)
    BY <1>6, CacheConstants DEF Untouched, Foreign
  <2> QED
    BY <1>a, <2>1, UntouchedSkill
<1>7. CASE Crash
  <2>1. /\ UNCHANGED <<rows, clone, archive>> /\ req' = [r \in Request |-> Idle]
        /\ raced' = [n \in Skill |-> raced[n] \/ Working(n) # {}]
    BY <1>7 DEF Crash
  <2>2. ASSUME NEW n \in Skill PROVE SkillOK(n)'
    <3>1. Working(n)' = {}
      BY <2>1, NoneIsNoRow DEF Working, Idle, Task
    <3>2. (CloneOK(n) => CloneOK(n)') /\ (ArchivesOK(n) => ArchivesOK(n)')
      BY <2>1 DEF CloneOK, ArchivesOK, Current
    <3>3. ~raced'[n] => ~raced[n] /\ Working(n) = {}
      BY <2>1
    <3> QED
      BY <1>a, <2>1, <3>1, <3>2, <3>3 DEF SkillOK
  <2> QED
    BY <2>2
<1>8. ASSUME NEW s \in Source, NEW v \in Version, Push(s, v) PROVE \A m \in Skill : SkillOK(m)'
  <2>1. \A f \in File : archive'[f] = archive[f]
    BY <1>8 DEF Push
  <2> QED
    BY <1>6, <1>8, <2>1 DEF Push
<1>9. ASSUME NEW f \in Covered, Elsewhere(f) PROVE \A m \in Skill : SkillOK(m)'
  <2>1. CASE archive' = [archive EXCEPT ![f] = None] /\ UNCHANGED raced
    <3>1. \A g \in File : archive'[g] = archive[g] \/ (g \in Covered /\ archive'[g] = None)
      BY <1>a, <1>9, <2>1 DEF TypeOK
    <3> QED
      BY <1>6, <1>9, <2>1, <3>1 DEF Elsewhere
  <2>2. ASSUME NEW c \in Alien, archive' = [archive EXCEPT ![f] = c],
               raced' = [m \in Skill |-> raced[m] \/ f \in Archives(m)]
        PROVE  \A m \in Skill : SkillOK(m)'
    <3>1. ASSUME NEW m \in Skill PROVE Untouched(m)
      <4>1. UNCHANGED <<rows, clone, cloner, req>>
        BY <1>9 DEF Elsewhere
      <4>2. CASE f \in Archives(m)
        BY <2>2, <4>1, <4>2 DEF Untouched
      <4>3. CASE f \notin Archives(m)
        <5>1. raced'[m] = raced[m]
          BY <1>a, <2>2, <4>3 DEF TypeOK
        <5>2. \A v \in Version : Path[<<m, v>>] \in File /\ Path[<<m, v>>] # f
          BY <4>3, CacheConstants DEF Archives
        <5>3. \A v \in Version : archive'[Path[<<m, v>>]] = archive[Path[<<m, v>>]]
          BY <1>a, <2>2, <5>2 DEF TypeOK
        <5> QED
          BY <4>1, <5>1, <5>3 DEF Untouched
      <4> QED
        BY <4>2, <4>3
    <3> QED
      BY <1>a, <3>1, UntouchedSkill
  <2> QED
    BY <1>9, <2>1, <2>2 DEF Elsewhere
<1>10. CASE UNCHANGED vars
  BY <1>6, <1>10 DEF vars
<1>11. ASSUME NEW r \in Request, Download(r) \/ Put(r) PROVE \A m \in Skill : SkillOK(m)'
  <2>1. CASE \E n \in Skill : Lookup(r, n) \/ PutReads(r, n)
    BY <1>1, <2>1 DEF Lookup, PutReads
  <2>2. CASE PurgeArchives(r)
    BY <1>3, <2>2
  <2>3. CASE /\ req[r].at # "idle"
             /\ \/ Stat(r) \/ CloneBegins(r) \/ CloneEnds(r) \/ CloneFails(r)
                \/ CacheHit(r) \/ Pack(r) \/ PackFails(r) \/ Install(r) \/ Sweep(r)
                \/ Hash(r) \/ Sync(r) \/ SyncFails(r) \/ Serve(r)
                \/ PutFails(r) \/ PurgeClone(r)
                \/ \E v \in Version, s \in Source : PutWrites(r, v, s)
    <3>1. PICK n \in Skill : n = Own(r)
      BY <1>a, <2>3, WorkingType
    <3> QED
      BY <1>2, <2>3, <3>1
  <2> QED
    BY <1>11, <2>1, <2>2, <2>3
    DEF Download, Put, Goes, Stat, CloneBegins, CloneEnds, CloneFails, CacheHit, Pack,
        PackFails, Install, Sweep, Hash, Sync, SyncFails, Serve, PutFails, PurgeClone, PutWrites
<1> QED
  BY <1>4, <1>5, <1>7, <1>8, <1>9, <1>10, <1>11 DEF Next

-----------------------------------------------------------------------------
(* Every reachable state satisfies IInv, in any interleaving of downloads, *)
(* edits, takedowns, pushes, faults and crashes.                           *)
THEOREM CacheInvariance == Spec => []IInv
<1>1. Init => IInv
  <2> SUFFICES ASSUME Init PROVE IInv
    OBVIOUS
  <2>1. TypeOK
    BY IdleType, CacheConstants DEF Init, TypeOK, Idle, Task
  <2>2. ASSUME NEW n \in Skill PROVE SkillOK(n)
    <3>1. clone[n] = None /\ \A v \in Version : archive[Path[<<n, v>>]] = None
      BY CacheConstants DEF Init
    <3>2. Working(n) = {}
      BY NoneIsNoRow DEF Init, Working, Idle, Task
    <3> QED
      BY <3>1, <3>2 DEF SkillOK, CloneOK, ArchivesOK
  <2> QED
    BY <2>1, <2>2 DEF IInv
<1>2. IInv /\ [Next]_vars => IInv'
  BY TypesArePreserved, SkillsStay DEF IInv
<1> QED
  BY <1>1, <1>2, PTL DEF Spec

(* The types of the rows, of the cache and of the requests; a request has  *)
(* a copy of a row, and never installs or announces what is not there.     *)
THEOREM CacheTypes == Spec => []TypeOK
<1>1. IInv => TypeOK
  BY DEF IInv
<1> QED
  BY <1>1, CacheInvariance, PTL

(* At rest the cache of a skill holds what its row names, unless operations*)
(* on it have overlapped or another skill has stored an archive under one  *)
(* of its names since it was last purged (BuildPackage and                 *)
(* invalidateSkillCache).                                                  *)
THEOREM QuietCachesAreCurrent == Spec => []QuietCacheIsCurrent
<1>1. IInv => QuietCacheIsCurrent
  BY DEF IInv, SkillOK, QuietCacheIsCurrent
<1> QED
  BY <1>1, CacheInvariance, PTL

(* A download that overlaps with nothing on its skill, and to whose skill  *)
(* no other has stored an archive, sends the current package, entire, and  *)
(* with its own checksum (downloadArchive).                                *)
THEOREM DownloadsAreCurrent == Spec => ServedIsCurrent
<1> DEFINE Good(r) == \/ Body(r) = None /\ Target(r) \in Foreign(Own(r))
                      \/ /\ Body(r) = req[r].data
                         /\ Current(Own(r), Body(r))
                         /\ Body(r).version = rows[Own(r)].version
<1>1. ASSUME IInv, NEW r \in Request, Serve(r), ~raced[Own(r)] PROVE Good(r)
  <2>1. req[r].at = "serve" /\ TypeOK
    BY <1>1 DEF Serve, IInv
  <2>2. /\ Own(r) \in Skill /\ r \in Working(Own(r)) /\ req[r].row.version \in Version
        /\ Target(r) = Path[<<Own(r), req[r].row.version>>]
    BY <2>1, WorkingType DEF Target
  <2>3. Undisturbed(Own(r), r)
    BY <1>1, <2>2 DEF IInv, SkillOK
  <2> QED
    BY <2>1, <2>2, <2>3 DEF Undisturbed, ArchivesOK, Body
<1>2. IInv /\ [Next]_vars => [\A r \in Request : Serve(r) /\ ~raced[Own(r)] => Good(r)]_vars
  BY <1>1
<1> QED
  BY <1>2, CacheInvariance, PTL DEF Spec, ServedIsCurrent

(* Only a request that had read the row before lists a skill again that    *)
(* was taken down (deleteSkillAdmin, syncSkillChecksum, updateSkillAdmin). *)
THEOREM NothingElseRelists == Spec => OnlyStaleCopiesRelist
<1> DEFINE Stale(n) == \E r \in Working(n) : req[r].row.enabled /\ req[r].at \in {"sync", "put"}
<1>1. ASSUME IInv, [Next]_vars, NEW n \in Skill, Relists(n) PROVE Stale(n)
  <2>a. /\ TypeOK /\ rows[n] \in Row /\ rows \in [Skill -> Row \cup {None}]
        /\ rows'[n] # rows[n] /\ rows'[n].enabled /\ ~rows[n].enabled /\ rows[n] # None
    BY <1>1 DEF IInv, TypeOK, Relists
  <2>1. ASSUME NEW r \in Request, Sync(r) PROVE Stale(n)
    <3> DEFINE new == [req[r].row EXCEPT !.checksum = req[r].data]
    <3>1. req[r].at = "sync" /\ rows' = [rows EXCEPT ![Own(r)] = new]
      BY <2>1 DEF Sync, Goes
    <3>2. req[r].row \in Row /\ r \in Working(Own(r))
      BY <2>a, <3>1, WorkingType
    <3>3. new.enabled = req[r].row.enabled
      BY <3>2 DEF Row
    <3> HIDE DEF new
    <3>4. n = Own(r) /\ rows'[n] = new
      BY <2>a, <3>1
    <3> QED
      BY <2>a, <3>1, <3>2, <3>3, <3>4
  <2>2. ASSUME NEW r \in Request, NEW v \in Version, NEW s \in Source, PutWrites(r, v, s)
        PROVE  Stale(n)
    <3>1. req[r].at = "put" /\ rows' = [rows EXCEPT ![Own(r)] = Edited(req[r].row, v, s)]
      BY <2>2 DEF PutWrites
    <3>2. req[r].row \in Row /\ r \in Working(Own(r))
      BY <2>a, <3>1, WorkingType
    <3>3. Edited(req[r].row, v, s).enabled = req[r].row.enabled
      BY DEF Edited
    <3>4. n = Own(r) /\ rows'[n] = Edited(req[r].row, v, s)
      BY <2>a, <3>1
    <3> QED
      BY <2>a, <3>1, <3>2, <3>3, <3>4
  <2>3. ASSUME NEW m \in Skill, NEW v \in Version, NEW s \in Source, Create(m, v, s) PROVE FALSE
    BY <2>a, <2>3 DEF Create
  <2>4. ASSUME NEW m \in Skill, Delist(m) PROVE FALSE
    <3>1. m = n /\ rows'[n] = [rows[n] EXCEPT !.enabled = FALSE]
      BY <2>a, <2>4 DEF Delist
    <3>2. [rows[n] EXCEPT !.enabled = FALSE].enabled = FALSE
      BY <2>a DEF Row
    <3> QED
      BY <2>a, <3>1, <3>2
  <2>5. ASSUME NEW r \in Request, Download(r) \/ Put(r) PROVE Stale(n)
    <3>1. CASE \E m \in Skill : Lookup(r, m) \/ PutReads(r, m)
      BY <2>a, <3>1 DEF Lookup, PutReads
    <3>2. CASE \E v \in Version, s \in Source : PutWrites(r, v, s)
      BY <2>2, <3>2
    <3>3. CASE Sync(r)
      BY <2>1, <3>3
    <3>4. CASE \/ Stat(r) \/ CloneBegins(r) \/ CloneEnds(r) \/ CloneFails(r)
               \/ CacheHit(r) \/ Pack(r) \/ PackFails(r) \/ Install(r) \/ Sweep(r)
               \/ Hash(r) \/ SyncFails(r) \/ Serve(r)
               \/ PutFails(r) \/ PurgeClone(r) \/ PurgeArchives(r)
      BY <2>a, <3>4 DEF Stat, CloneBegins, CloneEnds, CloneFails, CacheHit, Pack, PackFails,
          Install, Sweep, Hash, SyncFails, Serve, PutFails, PurgeClone, PurgeArchives
    <3> QED
      BY <2>5, <3>1, <3>2, <3>3, <3>4 DEF Download, Put
  <2>6. CASE Crash \/ UNCHANGED vars \/ \E s \in Source, v \in Version : Push(s, v)
    BY <2>a, <2>6 DEF Crash, vars, Push
  <2>7. CASE \E f \in Covered : Elsewhere(f)
    BY <2>a, <2>7 DEF Elsewhere
  <2> QED
    BY <1>1, <2>3, <2>4, <2>5, <2>6, <2>7 DEF Next
<1>2. IInv /\ [Next]_vars => [\A n \in Skill : Relists(n) => Stale(n)]_vars
  BY <1>1
<1> QED
  BY <1>2, CacheInvariance, PTL DEF Spec, OnlyStaleCopiesRelist
=============================================================================
