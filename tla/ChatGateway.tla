---------------------------- MODULE ChatGateway ----------------------------
(***************************************************************************)
(* The model gateway: /v1/chat/completions (streaming and not) and         *)
(* /v1/embeddings are routed to the providers that serve the model, tried  *)
(* one after another until one answers, relayed to the client and metered  *)
(* in the usage table.                                                     *)
(*                                                                         *)
(* One action is one upstream call, one line of a stream, one statement on *)
(* the usage table or one decision of the handler between two of them.     *)
(* Clients disconnect, providers fail, users are deleted with their rows   *)
(* and the process crashes in between; the hourly SyncIteration deletes    *)
(* the rows that were left pending.  What is said and which provider       *)
(* serves what is abstracted: a request may find any set of candidates,    *)
(* and a token count is the number of usage reports it includes (so a      *)
(* report is never of zero tokens).  A provider that refuses a request     *)
(* with 4xx reports no usage.                                              *)
(***************************************************************************)
EXTENDS Integers, FiniteSets, Sequences

CONSTANTS Req,          \* requests; an id of the usage table is its request
          User, Owner,  \* accounts; the account of each request
          Providers,    \* gateway_providers, by id
          MaxReports,   \* bound: usage reports of one stream
          MaxEvents,    \* bound: crashes of the process and deletions of users
          MaxErrors     \* bound: failing statements on the usage table

ASSUME GatewayConstants ==
  /\ Owner \in [Req -> User] /\ Providers \subseteq Nat
  /\ MaxReports \in Nat \ {0} /\ MaxEvents \in Nat /\ MaxErrors \in Nat

VARIABLES row,        \* usage: the row of each request, NoRow or its tokens
          old,        \* the rows created more than an hour ago
          users,      \* the accounts that exist
          pc,         \* each request's position in its handler
          kind,       \* chat with or without "stream": true, or embeddings
          cand,       \* the candidates it has not tried
          usageID,    \* it has inserted a pending row
          gone,       \* its client has disconnected (the context is done)
          up,         \* the process runs
          events, errors,
          sent,       \* history: the providers its body was sent to
          answer,     \* history: what the last of them answered
          reported,   \* history: the tokens the provider has reported
          ended,      \* history: how the handler came to its end
          lost        \* history: a statement of it failed, or it crashed

control == <<pc, kind, cand, usageID>>
history == <<sent, answer, reported, ended, lost>>
vars == <<row, old, users, control, gone, up, events, errors, history>>

NoRow == -1
Kinds == {"none", "stream", "json", "embed"}
Answers == {"none", "error", "ok"}      \* 4xx; 2xx
Ends == {"none", "notfound", "failed", "refused", "left", "idle", "broken",
         "eof"}

Init == /\ row = [r \in Req |-> NoRow]
        /\ old = {} /\ users = User
        /\ pc = [r \in Req |-> "new"]
        /\ kind = [r \in Req |-> "none"]
        /\ cand = [r \in Req |-> {}]
        /\ usageID = [r \in Req |-> FALSE]
        /\ gone = {}
        /\ up = TRUE /\ events = 0 /\ errors = 0
        /\ sent = [r \in Req |-> <<>>]
        /\ answer = [r \in Req |-> "none"]
        /\ reported = [r \in Req |-> 0]
        /\ ended = [r \in Req |-> "none"]
        /\ lost = [r \in Req |-> FALSE]

Goto(r, s) == pc' = [pc EXCEPT ![r] = s]
End(r, how) == Goto(r, "done") /\ ended' = [ended EXCEPT ![r] = how]

\* A statement on the usage table fails; the handlers log it and go on.
DbError(r) == /\ errors < MaxErrors /\ errors' = errors + 1
              /\ lost' = [lost EXCEPT ![r] = TRUE]
              /\ UNCHANGED row
DbOk == UNCHANGED <<errors, lost>>

\* DELETE and UPDATE of the request's row.
Write(r, tokens) == \/ row' = [row EXCEPT ![r] = tokens] /\ DbOk
                    \/ DbError(r)

\* INSERT, which the foreign key refuses when the account is gone.
InsertFails(r) ==
  \/ DbError(r)
  \/ Owner[r] \notin users /\ lost' = [lost EXCEPT ![r] = TRUE] /\ UNCHANGED <<row, errors>>
Insert(r, tokens) ==
  \/ Owner[r] \in users /\ row' = [row EXCEPT ![r] = tokens] /\ DbOk
  \/ InsertFails(r)

-----------------------------------------------------------------------------
(* Plausible bugs, each the twin of a definition below; see UploadQueue.   *)

\* The same provider is tried once more before the next one.
SendAgain(r, p) ==
  /\ pc[r] = "trying"
  /\ p \in cand[r] /\ \A q \in cand[r] : p <= q
  /\ cand' = IF Len(sent[r]) = 0 THEN cand ELSE [cand EXCEPT ![r] = @ \ {p}]
  /\ sent' = [sent EXCEPT ![r] = IF r \in gone THEN @ ELSE Append(@, p)]

\* The pending row of a refused stream stays.
DropRefusedNot(r) ==
  /\ pc[r] = "refused" /\ End(r, "refused")
  /\ UNCHANGED <<row, old, users, kind, cand, usageID, gone, up, events, errors, sent,
                 answer, reported, lost>>

\* Embedding requests without tokens look like pending streams.
StaleOfAnyKind(r) == r \in old /\ row[r] = 0

\* A second report does not replace the first.
BackfillOnce(r) ==
  /\ pc[r] = "metering"
  /\ IF usageID[r] /\ row[r] = 0 THEN Write(r, reported[r])
                                 ELSE UNCHANGED row /\ DbOk
  /\ Goto(r, "writing")
  /\ UNCHANGED <<old, users, kind, cand, usageID, gone, up, events, sent, answer,
                 reported, ended>>

\* The cleanup runs when the process starts, and never again.
CleanupAtStart ==
  /\ ~up
  /\ row' = [r \in Req |-> IF r \in old /\ row[r] = 0 /\ kind[r] # "embed"
                            THEN NoRow ELSE row[r]]
  /\ UNCHANGED <<old, users, control, gone, up, events, errors, history>>

-----------------------------------------------------------------------------
(* Routing and failover.                                                   *)

\* The enabled providers with a model, tried in the order of their ids.
MatchModels == SUBSET Providers

Route(r) ==
  /\ up /\ pc[r] = "new" /\ Owner[r] \in users
  /\ \E k \in Kinds \ {"none"}, c \in MatchModels :
       /\ kind' = [kind EXCEPT ![r] = k]
       /\ cand' = [cand EXCEPT ![r] = c]
       /\ \/ c = {} /\ End(r, "notfound")
          \/ /\ c # {} /\ UNCHANGED ended
             /\ Goto(r, IF k = "stream" THEN "recording" ELSE "trying")
  /\ UNCHANGED <<row, old, users, usageID, gone, up, events, errors, sent, answer,
                 reported, lost>>

\* A stream has its row before the first call, with no tokens.
RecordPending(r) ==
  /\ pc[r] = "recording"
  /\ \/ /\ Owner[r] \in users
        /\ row' = [row EXCEPT ![r] = 0]
        /\ usageID' = [usageID EXCEPT ![r] = TRUE]
        /\ DbOk
     \/ InsertFails(r) /\ UNCHANGED usageID
  /\ Goto(r, "trying")
  /\ UNCHANGED <<old, users, kind, cand, gone, up, events, sent, answer, reported,
                 ended>>

\* forward: one call of the next candidate.
Send(r, p) ==
  /\ pc[r] = "trying"
  /\ p \in cand[r] /\ \A q \in cand[r] : p <= q
  /\ cand' = [cand EXCEPT ![r] = cand[r] \ {p}]
  /\ sent' = IF r \in gone THEN sent ELSE [sent EXCEPT ![r] = Append(sent[r], p)]

\* What the handler does when the candidates are used up.
AfterFailure(r) == Goto(r, IF cand'[r] # {} THEN "trying"
                           ELSE IF kind[r] = "stream" THEN "failed" ELSE "done")

\* Refused connection, 5xx, no header in time, or the context is done; an
\* answer that is not a list of vectors counts as a failure too.
Fails(r, p) ==
  /\ Send(r, p)
  /\ AfterFailure(r)
  /\ ended' = IF pc'[r] = "done" THEN [ended EXCEPT ![r] = "failed"] ELSE ended
  /\ UNCHANGED <<row, old, users, kind, usageID, gone, up, events, errors, answer,
                 reported, lost>>

Answered(r, p) ==
  /\ r \notin gone
  /\ Send(r, p)
  /\ \E a \in Answers \ {"none"} :
       /\ answer' = [answer EXCEPT ![r] = a]
       /\ \/ kind[r] = "stream" /\ a = "ok" /\ Goto(r, "checking") /\ UNCHANGED ended
          \/ kind[r] = "stream" /\ a = "error" /\ Goto(r, "refused") /\ UNCHANGED ended
          \/ kind[r] = "json" /\ a = "ok" /\ Goto(r, "relaying") /\ UNCHANGED ended
          \/ kind[r] = "embed" /\ a = "ok" /\ Goto(r, "embedded") /\ UNCHANGED ended
          \/ kind[r] # "stream" /\ a = "error" /\ End(r, "refused")
  /\ UNCHANGED <<row, old, users, kind, usageID, gone, up, events, errors, reported,
                 lost>>

\* DeleteUsage of the pending row, when there is one, and the end.
Drop(r, how) ==
  /\ IF usageID[r] THEN Write(r, NoRow) ELSE UNCHANGED row /\ DbOk
  /\ End(r, how)
  /\ UNCHANGED <<old, users, kind, cand, usageID, gone, up, events, sent, answer,
                 reported>>

\* No provider succeeded, or it answered 4xx (C-9).
DropFailed(r) == pc[r] = "failed" /\ Drop(r, "failed")
DropRefused(r) == pc[r] = "refused" /\ Drop(r, "refused")

-----------------------------------------------------------------------------
(* serveStream: a line at a time.                                          *)

\* The context is looked at before a line is waited for.
CheckClient(r) ==
  /\ pc[r] = "checking"
  /\ Goto(r, IF r \in gone THEN "dropping" ELSE "waiting")
  /\ UNCHANGED <<row, old, users, kind, cand, usageID, gone, up, events, errors, sent,
                 answer, reported, ended, lost>>

\* readLineWithIdle: a line that reports the tokens so far, or one that does
\* not.
ReadLine(r) ==
  /\ pc[r] = "waiting"
  /\ \/ /\ reported[r] < MaxReports
        /\ reported' = [reported EXCEPT ![r] = reported[r] + 1]
        /\ Goto(r, "metering")
     \/ Goto(r, "writing") /\ UNCHANGED reported
  /\ UNCHANGED <<row, old, users, kind, cand, usageID, gone, up, events, errors, sent,
                 answer, ended, lost>>

\* Nothing comes within the idle window.
IdleTimeout(r) ==
  /\ pc[r] = "waiting"
  /\ Goto(r, "dropping")
  /\ ended' = [ended EXCEPT ![r] = "idle"]
  /\ UNCHANGED <<row, old, users, kind, cand, usageID, gone, up, events, errors, sent,
                 answer, reported, lost>>

\* The stream is complete, or the provider breaks it off, or the context ends
\* while the handler waits: an error of the read, after which the row stays.
StreamEnds(r) ==
  /\ pc[r] = "waiting"
  /\ End(r, IF r \in gone THEN "broken" ELSE "eof") \/ End(r, "broken")
  /\ UNCHANGED <<row, old, users, kind, cand, usageID, gone, up, events, errors, sent,
                 answer, reported, lost>>

\* UpdateUsageTokens; a row that is gone is not missed.
Backfill(r) ==
  /\ pc[r] = "metering"
  /\ IF usageID[r] /\ row[r] # NoRow THEN Write(r, reported[r])
                                     ELSE UNCHANGED row /\ DbOk
  /\ Goto(r, "writing")
  /\ UNCHANGED <<old, users, kind, cand, usageID, gone, up, events, sent, answer,
                 reported, ended>>

\* The line is passed on; it may have been the last one.
WriteLine(r) ==
  /\ pc[r] = "writing"
  /\ \/ Goto(r, "checking") /\ UNCHANGED ended
     \/ End(r, IF r \in gone THEN "broken" ELSE "eof")
     \/ r \in gone /\ Goto(r, "dropping") /\ UNCHANGED ended
  /\ UNCHANGED <<row, old, users, kind, cand, usageID, gone, up, events, errors, sent,
                 answer, reported, lost>>

\* The client has left or the upstream was idle.
DropAbandoned(r) ==
  /\ pc[r] = "dropping"
  /\ Drop(r, IF ended[r] = "idle" THEN "idle" ELSE "left")

-----------------------------------------------------------------------------
(* The answers that are read as a whole.                                   *)

\* serveJSON: a row for the usage the body has, if it has any.
RelayJSON(r) ==
  /\ pc[r] = "relaying"
  /\ \/ /\ reported' = [reported EXCEPT ![r] = 1]
        /\ Insert(r, 1)
     \/ UNCHANGED <<row, errors, lost, reported>>
  /\ End(r, "eof")
  /\ UNCHANGED <<old, users, kind, cand, usageID, gone, up, events, sent, answer>>

\* The body ends early, takes too long or is too large.
RelayFails(r) ==
  /\ pc[r] = "relaying"
  /\ End(r, "broken")
  /\ UNCHANGED <<row, old, users, kind, cand, usageID, gone, up, events, errors, sent,
                 answer, reported, lost>>

\* handleEmbeddings: a row always, also when no tokens were reported.
RecordEmbedding(r) ==
  /\ pc[r] = "embedded"
  /\ \E n \in {0, 1} : /\ reported' = [reported EXCEPT ![r] = n]
                        /\ Insert(r, n)
  /\ End(r, "eof")
  /\ UNCHANGED <<old, users, kind, cand, usageID, gone, up, events, sent, answer>>

-----------------------------------------------------------------------------
(* The environment, and the hourly cleanup.                                *)

\* The client disconnects, or the server's WriteTimeout has passed.
Disconnect(r) ==
  /\ pc[r] \notin {"new", "done"} /\ r \notin gone
  /\ gone' = gone \cup {r}
  /\ UNCHANGED <<row, old, users, control, up, events, errors, history>>

\* An hour passes: no handler lives that long, because of ResponseHeaderTimeout
\* (two minutes for each candidate), WriteTimeout (five) and the idle window.
Age(r) ==
  /\ row[r] # NoRow /\ pc[r] = "done" /\ r \notin old
  /\ old' = old \cup {r}
  /\ UNCHANGED <<row, users, control, gone, up, events, errors, history>>

\* CleanupPendingUsage.
Stale(r) == r \in old /\ row[r] = 0 /\ kind[r] # "embed"

Cleanup ==
  /\ up /\ \E r \in Req : Stale(r)
  /\ \/ /\ row' = [r \in Req |-> IF Stale(r) THEN NoRow ELSE row[r]]
        /\ UNCHANGED errors
     \/ errors < MaxErrors /\ errors' = errors + 1 /\ UNCHANGED row
  /\ UNCHANGED <<old, users, control, gone, up, events, history>>

\* The rows of a user go with the account, finished ones too; a request of his
\* that is under way is not told.
DeleteUser(u) ==
  /\ up /\ u \in users /\ events < MaxEvents
  /\ users' = users \ {u} /\ events' = events + 1
  /\ row' = [r \in Req |-> IF Owner[r] = u THEN NoRow ELSE row[r]]
  /\ UNCHANGED <<old, control, gone, up, errors, history>>

\* What is not in the database is lost.
Crash ==
  /\ up /\ events < MaxEvents
  /\ events' = events + 1
  /\ up' = FALSE
  /\ pc' = [r \in Req |-> IF pc[r] = "new" THEN "new" ELSE "done"]
  /\ lost' = [r \in Req |-> lost[r] \/ pc[r] \notin {"new", "done"}]
  /\ UNCHANGED <<row, old, users, kind, cand, usageID, gone, errors, sent, answer,
                 reported, ended>>

Restart ==
  /\ ~up /\ up' = TRUE
  /\ UNCHANGED <<row, old, users, control, gone, events, errors, history>>

-----------------------------------------------------------------------------
Stream(r) == \/ RecordPending(r) \/ DropFailed(r) \/ DropRefused(r)
             \/ CheckClient(r) \/ ReadLine(r) \/ IdleTimeout(r)
             \/ StreamEnds(r) \/ Backfill(r) \/ WriteLine(r)
             \/ DropAbandoned(r)
Handler(r) == \/ \E p \in Providers : Fails(r, p) \/ Answered(r, p)
              \/ Stream(r)
              \/ RelayJSON(r) \/ RelayFails(r) \/ RecordEmbedding(r)

Next == \/ \E r \in Req : Route(r) \/ Handler(r) \/ Disconnect(r) \/ Age(r)
        \/ \E u \in User : DeleteUser(u)
        \/ Cleanup \/ Crash \/ Restart

Spec == Init /\ [][Next]_vars

(* Time passes, the sync loop ticks, and the process is started again.     *)
(* Nothing is assumed of clients and providers.                            *)
FairSpec == Spec /\ WF_vars(Cleanup) /\ WF_vars(Restart)
                 /\ \A r \in Req : WF_vars(Age(r))

-----------------------------------------------------------------------------
Step == {"new", "recording", "trying", "failed", "refused", "checking", "waiting",
         "metering", "writing", "dropping", "relaying", "embedded", "done"}

(* Every variable has its type.                                            *)
TypeOK ==
  /\ row \in [Req -> {NoRow} \cup 0..MaxReports]
  /\ old \subseteq Req /\ users \subseteq User
  /\ pc \in [Req -> Step]
  /\ kind \in [Req -> Kinds]
  /\ cand \in [Req -> SUBSET Providers]
  /\ usageID \in [Req -> BOOLEAN]
  /\ gone \subseteq Req
  /\ up \in BOOLEAN
  /\ events \in 0..MaxEvents /\ errors \in 0..MaxErrors
  /\ sent \in [Req -> Seq(Providers)]
  /\ answer \in [Req -> Answers]
  /\ reported \in [Req -> 0..MaxReports]
  /\ ended \in [Req -> Ends]
  /\ lost \in [Req -> BOOLEAN]

(* "exactly one attempt ... re-sending to the same one could double-bill"  *)
(* (forward): a request goes to each provider at most once, in the order   *)
(* of the table, and to none after one has answered it.                    *)
SentOnce ==
  /\ \A r \in Req : \A i, j \in 1..Len(sent[r]) : i < j => sent[r][i] < sent[r][j]
  /\ \A r \in Req : answer[r] # "none" => pc[r] # "trying"

(* A request that no provider served is not metered (C-9), whatever        *)
(* failed: refused by all, refused with 4xx, or left while it was tried.   *)
UnservedIsNotMetered ==
  \A r \in Req : pc[r] = "done" /\ answer[r] # "ok" /\ ~lost[r] => row[r] = NoRow

(* A served request that came to its end is metered with the last tokens   *)
(* the provider reported, and stays so as long as its user has his         *)
(* account: neither the cleanup nor another request nor the deletion of    *)
(* another user takes the row away.                                        *)
ServedIsMetered ==
  \A r \in Req : /\ ended[r] = "eof" /\ ~lost[r] /\ Owner[r] \in users
                 /\ reported[r] # 0 \/ kind[r] = "embed"
                 => row[r] = reported[r]

(* "real request counts, which CleanupPendingUsage must not take for       *)
(* leftovers of a broken stream" (RecordUsageKind, M16): the row of an     *)
(* embedding request never changes, and the row of a chat that has come to *)
(* its end with tokens in it does not either, unless its user is deleted.  *)
(* A row that was backfilled while its stream is open may still go: a      *)
(* client that hangs up after the last line has it deleted, tokens and all *)
(* (DropAbandoned).                                                        *)
FinishedRowsAreFinal ==
  [][\A r \in Req :
       (pc[r] = "done" /\ row[r] # NoRow /\ (kind[r] = "embed" \/ row[r] # 0))
         => row'[r] = row[r] \/ Owner[r] \in users \ users']_vars

(* The row of a stream that was left without tokens goes away: by the      *)
(* handler or, after a crash, a failed statement or a disconnect the       *)
(* handler has not noticed, by the cleanup (C-9).                          *)
PendingRowsGo ==
  \A r \in Req : (pc[r] = "done" /\ kind[r] = "stream" /\ row[r] = 0)
                   ~> row[r] = NoRow

(* What the proofs show to hold always, of each request: the candidates    *)
(* that are left come after those that were tried; what its position says  *)
(* of the kind of the request, of the answer and of its row; and that a    *)
(* stream that has lost no statement has a row with the last report in it, *)
(* if its user has his account, and none otherwise.                        *)
Ascending(r) ==
  /\ \A i, j \in 1..Len(sent[r]) : i < j => sent[r][i] < sent[r][j]
  /\ \A i \in 1..Len(sent[r]), p \in cand[r] : sent[r][i] < p
Unanswered(r) == pc[r] \in {"new", "recording", "trying", "failed"}
Metered(r) == pc[r] \in {"checking", "waiting", "metering", "writing", "dropping"}
Served(r) == Metered(r) \/ pc[r] \in {"relaying", "embedded"}
Streams(r) == Metered(r) \/ pc[r] \in {"recording", "failed", "refused"}
PositionOK(r) ==
  /\ (Unanswered(r) => answer[r] = "none") /\ (Served(r) => answer[r] = "ok")
  /\ Streams(r) => kind[r] = "stream"
  /\ pc[r] = "relaying" => kind[r] = "json"
  /\ pc[r] = "embedded" => kind[r] = "embed"
  /\ pc[r] = "new" => row[r] = NoRow /\ sent[r] = <<>>
  /\ pc[r] # "done" /\ (kind[r] # "stream" \/ ~usageID[r]) => row[r] = NoRow
  /\ pc[r] \in {"new", "recording"} => ~usageID[r]
  /\ kind[r] = "stream" /\ pc[r] \notin {"new", "recording", "done"} /\ ~lost[r] =>
       usageID[r] /\ (Owner[r] \in users => row[r] # NoRow)
  /\ row[r] # NoRow => Owner[r] \in users
  /\ ~Metered(r) /\ pc[r] # "done" => reported[r] = 0
  /\ Metered(r) /\ pc[r] # "metering" /\ ~lost[r] /\ Owner[r] \in users /\ reported[r] # 0 =>
       row[r] = reported[r]
  /\ ended[r] = "eof" => pc[r] = "done"
  /\ r \in old => pc[r] = "done"
IInv == /\ TypeOK /\ UnservedIsNotMetered /\ ServedIsMetered
        /\ \A r \in Req : Ascending(r) /\ PositionOK(r)
=============================================================================
