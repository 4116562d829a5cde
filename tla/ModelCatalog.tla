----------------------------- MODULE ModelCatalog -----------------------------
(***************************************************************************)
(* The catalogue of models.  A provider is a row with a list of models of  *)
(* its own; the models table has a row for every model of a provider that  *)
(* clients see, and one setting names the default model.  The rows of a    *)
(* manual provider are written from its list when it is saved; those of a  *)
(* channel provider are fetched from the upstream, when it is saved, when  *)
(* an administrator asks for it, and every hour.  Each save and each fetch *)
(* takes several statements with other requests between them.              *)
(***************************************************************************)
EXTENDS Naturals, FiniteSets

CONSTANTS Handler,      \* administration requests served at the same time
          Hourly,       \* the goroutine of SyncLoop
          Model,        \* model names
          List,         \* the lists that are entered or served
          None,
          MaxProviders, \* bound: gateway_providers.id
          MaxEvents     \* bound: administration requests, changes at an
                        \* upstream, failures and crashes

ASSUME CatalogConstants ==
  /\ Hourly \notin Handler /\ None \notin Model /\ None \notin Handler \cup {Hourly}
  /\ List \subseteq SUBSET Model
  /\ MaxProviders \in Nat /\ MaxEvents \in Nat

Proc == Handler \cup {Hourly}
Id == 1..MaxProviders
Row == [manual : BOOLEAN, list : List, enabled : BOOLEAN]
ASSUME NoneIsNoProvider == None \notin Row

VARIABLES provider,  \* gateway_providers: Id -> Row or None
          nextId,    \* its AUTOINCREMENT sequence
          models,    \* the models table: pairs of provider and name
          default,   \* gateway.default_model, None when empty
          offer,     \* what the channel serves: there is one channel, and
                     \* its models come from its own address
          proc,      \* each request and the loop: where it is
          events,    \* bound: how many of them there have been
          drifted    \* history: the rows of a provider were edited one by one
                     \* or by a fetch, or two saves of it have overlapped, or
                     \* one did not end, since it was last saved

tables == <<provider, nextId, models, default>>
vars == <<tables, offer, proc, events, drifted>>

\* at: the step that comes next.  alone: nobody else has written the rows of
\* provider id since this process wrote the provider or fetched its models.
Step == {"idle", "put", "saved", "fetch", "upsert", "remove", "config"}
Task(at, id, row, names, left, todo) ==
  [at |-> at, id |-> id, row |-> row, names |-> names, left |-> left, todo |-> todo,
   alone |-> TRUE]
Idle == Task("idle", 0, None, {}, {}, {})
Saving(at, id, row) == Task(at, id, row, {}, {}, {})
Syncing(id, todo) == Task("fetch", id, None, {}, {}, todo)

Init == /\ provider = [p \in Id |-> None]
        /\ nextId = 1
        /\ models = {}
        /\ default = None
        /\ offer \in List \ {{}}
        /\ proc = [h \in Proc |-> Idle]
        /\ events = 0
        /\ drifted = [p \in Id |-> FALSE]

-----------------------------------------------------------------------------
(* Reading the tables.                                                     *)

Exists(p) == provider[p] # None
Of(p) == {m \in Model : <<p, m>> \in models}

\* ListModels joins the two tables and ModelEnabled looks a name up.
Listed(m) == \E p \in Id : Exists(p) /\ provider[p].enabled /\ m \in Of(p)

-----------------------------------------------------------------------------
(* Plausible bugs, each the twin of a definition below; see UploadQueue.   *)

\* No default model is cleared.
KeptDefault(names) == default

\* A provider that has models already is left to the administrator.
ToSyncOnlyNew == {p \in Id : Exists(p) /\ provider[p].enabled /\ ~provider[p].manual
                             /\ Of(p) = {}}

\* clearDefaultModelIf for each of the names that were deleted, whether or not
\* another provider serves one of them.
ClearedOf(names) == IF default \in names THEN None ELSE default

\* SyncOnce: the enabled channel providers of the list it has read; each of
\* them has a key.
ToSync == {p \in Id : Exists(p) /\ provider[p].enabled /\ ~provider[p].manual}

-----------------------------------------------------------------------------
(* The steps of a process.                                                 *)

Counts == events < MaxEvents /\ events' = events + 1

Busy(p) == {h \in Proc : proc[h].id = p /\ proc[h].at \in {"saved", "upsert", "remove"}}

\* h goes on as q while it writes rows of provider p: it is the others that
\* are no longer alone.
Writes(h, p, q) ==
  proc' = [g \in Proc |-> IF g = h THEN q
                          ELSE IF proc[g].id = p THEN [proc[g] EXCEPT !.alone = FALSE]
                          ELSE proc[g]]

Touched(p) == drifted' = [drifted EXCEPT ![p] = TRUE]

FirstOf(todo) == {p \in todo : \A q \in todo : p <= q}

\* The end of one provider: SyncOnce takes the next one on its list.
After(h) ==
  LET todo == proc[h].todo
  IN IF todo = {} THEN {Idle} ELSE {Syncing(p, todo \ {p}) : p \in FirstOf(todo)}

-----------------------------------------------------------------------------
(* More of them.                                                           *)

\* The default model is not taken from under the clients.
DoomedButDefault(p, keep) == Of(p) \ (keep \cup {default})

\* Names that are no longer on the list stay.
MirrorAdds(h) ==
  LET p == proc[h].id list == proc[h].row.list
  IN /\ proc[h].at = "saved" /\ proc[h].row.manual
     /\ models' = IF Exists(p) THEN models \cup {p} \X list ELSE models
     /\ Writes(h, p, Idle)
     /\ drifted' = [drifted EXCEPT ![p] = ~proc[h].alone]
     /\ UNCHANGED <<provider, nextId, default, offer, events>>

-----------------------------------------------------------------------------
(* Saving a provider.                                                      *)

\* AddGatewayProvider.
Post(h, row) ==
  /\ proc[h] = Idle /\ nextId \in Id /\ Counts
  /\ provider' = [provider EXCEPT ![nextId] = row]
  /\ nextId' = nextId + 1
  /\ proc' = [proc EXCEPT ![h] = Saving("saved", nextId, row)]
  /\ UNCHANGED <<models, default, offer, drifted>>

PutReads(h, p) ==
  /\ proc[h] = Idle /\ Exists(p) /\ Counts
  /\ proc' = [proc EXCEPT ![h] = Saving("put", p, provider[p])]
  /\ UNCHANGED <<tables, offer, drifted>>

\* The request sets any of the fields of the copy; a channel is never taken
\* off again.
Sets(old, new) == new.manual => old.manual

\* UpdateGatewayProvider writes all of the copy, by id.
PutWrites(h, row) ==
  LET p == proc[h].id
  IN /\ proc[h].at = "put" /\ Exists(p) /\ Sets(proc[h].row, row)
     /\ provider' = [provider EXCEPT ![p] = row]
     /\ Writes(h, p, Saving("saved", p, row))
     /\ UNCHANGED <<nextId, models, default, offer, events, drifted>>

\* The provider is gone, or the rest of the request is not valid, or the
\* statement fails.
Refused(h) ==
  /\ proc[h].at \in {"put", "config"}
  /\ proc' = [proc EXCEPT ![h] = Idle]
  /\ UNCHANGED <<tables, offer, events, drifted>>

\* SyncProviderModels, in one transaction: the rows of a manual provider are
\* replaced by the list that was saved.  The foreign key refuses them when the
\* provider has gone.
Mirror(h) ==
  LET p == proc[h].id list == proc[h].row.list
  IN /\ proc[h].at = "saved" /\ proc[h].row.manual
     /\ models' = IF Exists(p) \/ list = {}
                  THEN {r \in models : r[1] # p} \cup {p} \X list ELSE models
     /\ Writes(h, p, Idle)
     /\ drifted' = [drifted EXCEPT ![p] = ~proc[h].alone]
     /\ UNCHANGED <<provider, nextId, default, offer, events>>

\* The statement fails; the provider stays saved.
MirrorFails(h) ==
  /\ proc[h].at = "saved" /\ proc[h].row.manual /\ Counts
  /\ proc' = [proc EXCEPT ![h] = Idle]
  /\ drifted' = [drifted EXCEPT ![proc[h].id] = TRUE]
  /\ UNCHANGED <<tables, offer>>

-----------------------------------------------------------------------------
(* Fetching the models of a channel provider.                              *)

\* syncOneAdmin reads the provider; SyncOnce reads them all.
SyncOne(h, p) ==
  /\ proc[h] = Idle /\ h \in Handler /\ Counts
  /\ Exists(p) /\ ~provider[p].manual
  /\ proc' = [proc EXCEPT ![h] = Syncing(p, {})]
  /\ UNCHANGED <<tables, offer, drifted>>

SyncOnce(h) ==
  /\ proc[h] = Idle
  /\ ToSync # {}
  /\ IF h = Hourly THEN UNCHANGED events ELSE Counts
  /\ \E p \in FirstOf(ToSync) : proc' = [proc EXCEPT ![h] = Syncing(p, ToSync \ {p})]
  /\ UNCHANGED <<tables, offer, drifted>>

\* A save of a channel provider goes on with a fetch.
Fetching(h) == proc[h].at = "fetch" \/ (proc[h].at = "saved" /\ ~proc[h].row.manual)

Fetch(h) ==
  /\ Fetching(h)
  /\ proc' = [proc EXCEPT ![h] = Task("upsert", proc[h].id, None, offer, offer, proc[h].todo)]
  /\ UNCHANGED <<tables, offer, events, drifted>>

\* The upstream does not answer, or answers with an empty list, which is not
\* believed, or a statement fails: what is written is written, and the next
\* provider is next.
FetchFails(h) ==
  /\ Fetching(h) \/ proc[h].at \in {"upsert", "remove"}
  /\ Counts
  /\ \E next \in After(h) : proc' = [proc EXCEPT ![h] = next]
  /\ UNCHANGED <<tables, offer, drifted>>

\* SyncProviderModel for one model of the answer.
Upsert(h, m) ==
  LET p == proc[h].id
      left == proc[h].left \ {m}
      at == IF left = {} THEN "remove" ELSE "upsert"
  IN /\ proc[h].at = "upsert" /\ m \in proc[h].left
     /\ IF Exists(p)
        THEN /\ models' = models \cup {<<p, m>>} /\ Touched(p)
             /\ Writes(h, p, [Task(at, p, None, proc[h].names, left, proc[h].todo)
                                EXCEPT !.alone = proc[h].alone])
        ELSE /\ \E next \in After(h) : proc' = [proc EXCEPT ![h] = next]
             /\ UNCHANGED <<models, drifted>>
     /\ UNCHANGED <<provider, nextId, default, offer, events>>

\* RemoveMissingProviderModels, in one transaction.
Doomed(p, keep) == Of(p) \ keep
Remove(h) ==
  LET p == proc[h].id doomed == Doomed(p, proc[h].names)
  IN /\ proc[h].at = "remove"
     /\ models' = models \ ({p} \X doomed)
     /\ default' = ClearedOf(doomed)
     /\ \E next \in After(h) : Writes(h, p, next)
     /\ Touched(p)
     /\ UNCHANGED <<provider, nextId, offer, events>>

-----------------------------------------------------------------------------
(* Other requests.                                                         *)

\* DeleteGatewayProvider, in one transaction.
DeleteProvider(p) ==
  /\ Exists(p) /\ Counts
  /\ provider' = [provider EXCEPT ![p] = None]
  /\ models' = {r \in models : r[1] # p}
  /\ default' = ClearedOf(Of(p))
  /\ Writes(None, p, Idle)
  /\ UNCHANGED <<nextId, offer, drifted>>

\* The rows one by one, whatever the provider is.  The request that moves or
\* renames a row reads it first, and writes it by id: whichever values it
\* leaves out, the result is some provider and some name.
PostModel(p, m) ==
  /\ Exists(p) /\ <<p, m>> \notin models /\ Counts
  /\ models' = models \cup {<<p, m>>}
  /\ Writes(None, p, Idle) /\ Touched(p)
  /\ UNCHANGED <<provider, nextId, default, offer>>

PutModel(p, m, q, n) ==
  /\ <<p, m>> \in models /\ Exists(q) /\ <<q, n>> \notin models /\ Counts
  /\ models' = (models \ {<<p, m>>}) \cup {<<q, n>>}
  /\ proc' = [g \in Proc |-> IF proc[g].id \in {p, q}
                             THEN [proc[g] EXCEPT !.alone = FALSE] ELSE proc[g]]
  /\ drifted' = [x \in Id |-> drifted[x] \/ x \in {p, q}]
  /\ UNCHANGED <<provider, nextId, default, offer>>

DeleteModel(p, m) ==
  /\ <<p, m>> \in models /\ Counts
  /\ models' = models \ {<<p, m>>}
  /\ default' = ClearedOf({m})
  /\ Writes(None, p, Idle) /\ Touched(p)
  /\ UNCHANGED <<provider, nextId, offer>>

\* setGatewayConfig looks the model up, and stores its name in a statement of
\* its own.
ConfigChecks(h, m) ==
  /\ proc[h] = Idle /\ Listed(m) /\ Counts
  /\ proc' = [proc EXCEPT ![h] = Task("config", 0, None, {m}, {}, {})]
  /\ UNCHANGED <<tables, offer, drifted>>

ConfigWrites(h) ==
  /\ proc[h].at = "config"
  /\ default' \in proc[h].names
  /\ proc' = [proc EXCEPT ![h] = Idle]
  /\ UNCHANGED <<provider, nextId, models, offer, events, drifted>>

-----------------------------------------------------------------------------
(* The environment.                                                        *)

UpstreamChanges(s) ==
  /\ s # offer /\ Counts
  /\ offer' = s
  /\ UNCHANGED <<tables, proc, drifted>>

Crash ==
  /\ Counts
  /\ proc' = [h \in Proc |-> Idle]
  /\ drifted' = [p \in Id |-> drifted[p] \/ Busy(p) # {}]
  /\ UNCHANGED <<tables, offer>>

\* The next step of what h has begun.
Continues(h) ==
  \/ \E row \in Row : PutWrites(h, row)
  \/ Refused(h)
  \/ Mirror(h) \/ Fetch(h)
  \/ \E m \in Model : Upsert(h, m)
  \/ Remove(h) \/ ConfigWrites(h)

Request(h) ==
  \/ \E row \in Row : Post(h, row)
  \/ \E p \in Id : PutReads(h, p) \/ SyncOne(h, p)
  \/ SyncOnce(h)
  \/ \E m \in Model : ConfigChecks(h, m)

Edit ==
  \/ \E p \in Id : DeleteProvider(p)
  \/ \E p \in Id, m \in Model : PostModel(p, m) \/ DeleteModel(p, m)
  \/ \E p, q \in Id, m, n \in Model : PutModel(p, m, q, n)

Next ==
  \/ \E h \in Handler : Request(h)
  \/ SyncOnce(Hourly)
  \/ \E h \in Proc : Continues(h) \/ MirrorFails(h) \/ FetchFails(h)
  \/ Edit
  \/ \E s \in List \ {{}} : UpstreamChanges(s)
  \/ Crash

Spec == Init /\ [][Next]_vars

\* What has been begun is finished, and the loop comes round again; nobody is
\* obliged to send a request.
FairSpec == /\ Spec
            /\ \A h \in Proc : WF_vars(Continues(h))
            /\ WF_vars(SyncOnce(Hourly))

-----------------------------------------------------------------------------
(* Properties.                                                             *)

Tasks == [at : Step, id : 0..MaxProviders, row : Row \cup {None}, names : SUBSET Model,
          left : SUBSET Model, todo : SUBSET Id, alone : BOOLEAN]
TaskOK(t) == /\ (t.id = 0) <=> (t.at \in {"idle", "config"})
             /\ t.id < nextId /\ \A p \in t.todo : p < nextId
             /\ t.at \in {"put", "saved"} => t.row \in Row
             /\ t.left \subseteq t.names
             /\ t.at = "remove" => t.left = {}
             /\ t.at = "config" => t.names # {}

\* A model has a provider, a process that is at work has one in mind, and the
\* names it writes are on its list.
TypeOK ==
  /\ provider \in [Id -> Row \cup {None}]
  /\ nextId \in 1..MaxProviders + 1 /\ \A p \in Id : p >= nextId => ~Exists(p)
  /\ models \subseteq Id \X Model /\ \A r \in models : Exists(r[1])
  /\ default \in Model \cup {None}
  /\ offer \in List \ {{}}
  /\ proc \in [Proc -> Tasks]
  /\ \A h \in Proc : TaskOK(proc[h])
  /\ events \in 0..MaxEvents
  /\ drifted \in [Id -> BOOLEAN]

\* gateway.go:139: the list of a manual provider and its rows are one, as long
\* as saves of it do not overlap or end half-way and nobody edits its rows one
\* by one; renamed, switched off and on, or saved again after any of these.
ManualListsAgree ==
  \A p \in Id : Exists(p) /\ provider[p].manual /\ ~drifted[p] /\ Busy(p) = {} =>
                Of(p) = provider[p].list

\* What the proofs show to hold always: an undisturbed save has the row of its
\* provider, an undisturbed fetch finds the models it has written, and a list
\* that its rows do not match is about to be mirrored by such a save.
Undisturbed(t) ==
  /\ t.at = "saved" /\ t.alone => provider[t.id] = t.row
  /\ t.at \in {"upsert", "remove"} /\ t.alone => t.names \ t.left \subseteq Of(t.id)
LastSave(t, p) == t.at = "saved" /\ t.id = p /\ t.alone
ListKept(p) ==
  Exists(p) /\ provider[p].manual /\ ~drifted[p] =>
    Of(p) = provider[p].list \/ \E h \in Proc : LastSave(proc[h], p)
IInv == /\ TypeOK
        /\ \A h \in Proc : Undisturbed(proc[h])
        /\ \A p \in Id : ListKept(p)

\* A fetch whose provider nobody else writes meanwhile leaves exactly the
\* models of the answer, though it writes them one at a time; an answer is
\* never empty here, so the catalogue of a provider is not emptied by one.
SyncTakesTheAnswer ==
  [][\A h \in Proc : Remove(h) /\ proc[h].alone /\ Exists(proc[h].id) =>
       {m \in Model : <<proc[h].id, m>> \in models'} = proc[h].names]_vars

\* gateway.go:294: of the operations that take away the last row of the
\* default model, only saving a list and renaming or moving a row leave the
\* setting as it is.
Named(m) == \E p \in Id : m \in Of(p)
Orphans(m) == default = m /\ default' = m /\ Named(m) /\ \A p \in Id : <<p, m>> \notin models'
OnlyListsAndRenamesOrphanTheDefault ==
  [][(\E m \in Model : Orphans(m)) =>
       \/ \E h \in Proc : Mirror(h)
       \/ \E p, q \in Id, m, n \in Model : PutModel(p, m, q, n)]_vars

\* Whatever saves, edits, failures, crashes and overlapping fetches have done,
\* the hourly loop brings the rows of every enabled channel provider to what
\* its upstream serves, once these have come to an end.
SyncHeals ==
  <>[](\A p \in Id : Exists(p) /\ provider[p].enabled /\ ~provider[p].manual
                      => Of(p) = offer)
=============================================================================
