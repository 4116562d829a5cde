------------------------- MODULE ChatGatewayProofs -------------------------
(***************************************************************************)
(* Proofs about ChatGateway, for any requests of any users, any providers  *)
(* and any bounds.  IInv, the inductive invariant, is defined and          *)
(* explained there.                                                        *)
(***************************************************************************)
EXTENDS ChatGateway, TLAPS

-----------------------------------------------------------------------------
(* A request, and what a step leaves of the others.                        *)

\* The parts of UnservedIsNotMetered and ServedIsMetered that are about r.
UnservedOK(r) == pc[r] = "done" /\ answer[r] # "ok" /\ ~lost[r] => row[r] = NoRow
ServedOK(r) ==
  /\ ended[r] = "eof" /\ ~lost[r] /\ Owner[r] \in users
  /\ reported[r] # 0 \/ kind[r] = "embed"
  => row[r] = reported[r]
AllOK(r) == Ascending(r) /\ PositionOK(r) /\ UnservedOK(r) /\ ServedOK(r)

LEMMA InvariantIsLocal ==
  IInv <=> TypeOK /\ \A r \in Req : AllOK(r)
BY DEF IInv, AllOK, UnservedIsNotMetered, ServedIsMetered, UnservedOK, ServedOK

Kept(r) ==
  /\ row'[r] = row[r] /\ (r \in old' => r \in old) /\ pc'[r] = pc[r] /\ kind'[r] = kind[r]
  /\ cand'[r] = cand[r] /\ usageID'[r] = usageID[r] /\ sent'[r] = sent[r]
  /\ answer'[r] = answer[r] /\ reported'[r] = reported[r] /\ ended'[r] = ended[r]
  /\ lost'[r] = lost[r] /\ (Owner[r] \in users' <=> Owner[r] \in users)

LEMMA KeptIsOK ==
  ASSUME NEW r \in Req, AllOK(r), Kept(r) PROVE AllOK(r)'
<1>1. Ascending(r)'
  BY DEF AllOK, Kept, Ascending
<1>2. PositionOK(r)'
  BY DEF AllOK, Kept, PositionOK, Unanswered, Metered, Served, Streams
<1>3. UnservedOK(r)' /\ ServedOK(r)'
  BY DEF AllOK, Kept, UnservedOK, ServedOK
<1> QED
  BY <1>1, <1>2, <1>3 DEF AllOK

LEMMA StepKeeps ==
  ASSUME IInv, TypeOK', NEW r \in Req, \A q \in Req \ {r} : Kept(q),
         Ascending(r)', PositionOK(r)', UnservedOK(r)', ServedOK(r)'
  PROVE  IInv'
<1>1. \A q \in Req : AllOK(q)
  BY InvariantIsLocal
<1>2. \A q \in Req \ {r} : AllOK(q)'
  BY <1>1, KeptIsOK
<1>3. AllOK(r)'
  BY DEF AllOK
<1> QED
  BY <1>2, <1>3
  DEF IInv, AllOK, UnservedIsNotMetered, ServedIsMetered, UnservedOK, ServedOK

\* One request of TypeOK.
LEMMA RequestTypes ==
  ASSUME TypeOK, NEW r \in Req
  PROVE  /\ row[r] \in {NoRow} \cup 0..MaxReports /\ pc[r] \in Step /\ kind[r] \in Kinds
         /\ cand[r] \in SUBSET Providers /\ usageID[r] \in BOOLEAN
         /\ sent[r] \in Seq(Providers) /\ answer[r] \in Answers
         /\ reported[r] \in 0..MaxReports /\ ended[r] \in Ends /\ lost[r] \in BOOLEAN
BY DEF TypeOK

LEMMA GotoType ==
  ASSUME TypeOK, NEW r \in Req, NEW s \in Step, Goto(r, s)
  PROVE  pc' \in [Req -> Step] /\ pc'[r] = s /\ \A q \in Req \ {r} : pc'[q] = pc[q]
BY DEF TypeOK, Goto

LEMMA EndType ==
  ASSUME TypeOK, NEW r \in Req, NEW how \in Ends, End(r, how)
  PROVE  /\ pc' \in [Req -> Step] /\ pc'[r] = "done" /\ \A q \in Req \ {r} : pc'[q] = pc[q]
         /\ ended' \in [Req -> Ends] /\ ended'[r] = how
         /\ \A q \in Req \ {r} : ended'[q] = ended[q]
BY DEF TypeOK, End, Goto, Step

\* A statement has its effect, or fails and is counted.
Written(r, tokens) ==
  /\ row' \in [Req -> {NoRow} \cup 0..MaxReports] /\ errors' \in 0..MaxErrors
  /\ lost' \in [Req -> BOOLEAN]
  /\ \A q \in Req \ {r} : row'[q] = row[q] /\ lost'[q] = lost[q]
  /\ \/ row'[r] = tokens /\ lost'[r] = lost[r]
     \/ row'[r] = row[r] /\ lost'[r]

LEMMA WriteType ==
  ASSUME TypeOK, NEW r \in Req, NEW tokens \in {NoRow} \cup 0..MaxReports, Write(r, tokens)
  PROVE  Written(r, tokens)
<1>1. CASE row' = [row EXCEPT ![r] = tokens] /\ DbOk
  BY <1>1 DEF TypeOK, Written, DbOk
<1>2. CASE DbError(r)
  BY <1>2, GatewayConstants DEF TypeOK, Written, DbError
<1> QED
  BY <1>1, <1>2 DEF Write

LEMMA FailedInsertType ==
  ASSUME TypeOK, NEW r \in Req, NEW tokens, InsertFails(r)
  PROVE  Written(r, tokens) /\ row'[r] = row[r] /\ lost'[r]
<1>1. CASE DbError(r)
  BY <1>1, GatewayConstants DEF TypeOK, Written, DbError
<1>2. CASE lost' = [lost EXCEPT ![r] = TRUE] /\ UNCHANGED <<row, errors>>
  BY <1>2 DEF TypeOK, Written
<1> QED
  BY <1>1, <1>2 DEF InsertFails

LEMMA InsertType ==
  ASSUME TypeOK, NEW r \in Req, NEW tokens \in {NoRow} \cup 0..MaxReports, Insert(r, tokens)
  PROVE  /\ Written(r, tokens)
         /\ Owner[r] \in users \/ (row'[r] = row[r] /\ lost'[r])
<1>1. CASE Owner[r] \in users /\ row' = [row EXCEPT ![r] = tokens] /\ DbOk
  BY <1>1 DEF TypeOK, Written, DbOk
<1>2. CASE InsertFails(r)
  BY <1>2, FailedInsertType
<1> QED
  BY <1>1, <1>2 DEF Insert

LEMMA UnwrittenType ==
  ASSUME TypeOK, NEW r \in Req, UNCHANGED row, DbOk
  PROVE  Written(r, row[r])
BY DEF TypeOK, Written, DbOk

-----------------------------------------------------------------------------
(* The steps of a stream.                                                  *)
LEMMA StreamKeeps ==
  ASSUME IInv, NEW r \in Req, Stream(r) PROVE IInv'
<1>0. /\ TypeOK /\ Ascending(r) /\ PositionOK(r) /\ UnservedOK(r) /\ ServedOK(r)
  BY InvariantIsLocal DEF AllOK
<1>t. /\ row[r] \in {NoRow} \cup 0..MaxReports /\ pc[r] \in Step /\ kind[r] \in Kinds
      /\ usageID[r] \in BOOLEAN /\ answer[r] \in Answers
      /\ reported[r] \in 0..MaxReports /\ ended[r] \in Ends /\ lost[r] \in BOOLEAN
      /\ NoRow \notin 0..MaxReports /\ 0 \in 0..MaxReports
  BY <1>0, RequestTypes, GatewayConstants DEF NoRow
\* The step writes the row, the position and the reports only.
<1>1. ASSUME NEW s \in Step, NEW tokens, Written(r, tokens),
             pc' \in [Req -> Step], pc'[r] = s, \A q \in Req \ {r} : pc'[q] = pc[q],
             ended' \in [Req -> Ends], \A q \in Req \ {r} : ended'[q] = ended[q],
             usageID' \in [Req -> BOOLEAN], \A q \in Req \ {r} : usageID'[q] = usageID[q],
             reported' \in [Req -> 0..MaxReports],
             \A q \in Req \ {r} : reported'[q] = reported[q],
             UNCHANGED <<old, users, kind, cand, gone, up, events, sent, answer>>,
             PositionOK(r)', UnservedOK(r)', ServedOK(r)'
      PROVE  IInv'
  <2>1. TypeOK'
    BY <1>0, <1>1 DEF TypeOK, Written
  <2>2. \A q \in Req \ {r} : Kept(q)
    BY <1>1 DEF Kept, Written
  <2>3. Ascending(r)'
    BY <1>0, <1>1 DEF Ascending
  <2> QED
    BY <1>1, <2>1, <2>2, <2>3, StepKeeps
<1>2. CASE RecordPending(r)
  <2>1. pc[r] = "recording" /\ Goto(r, "trying")
    BY <1>2 DEF RecordPending
  <2>2. pc' \in [Req -> Step] /\ pc'[r] = "trying" /\ \A q \in Req \ {r} : pc'[q] = pc[q]
    BY <1>0, <2>1, GotoType DEF Step
  <2>3. UNCHANGED <<old, users, kind, cand, gone, up, events, sent, answer, reported, ended>>
    BY <1>2 DEF RecordPending
  <2>4. CASE /\ Owner[r] \in users
             /\ row' = [row EXCEPT ![r] = 0] /\ usageID' = [usageID EXCEPT ![r] = TRUE] /\ DbOk
    <3>1. Written(r, 0) /\ row'[r] = 0 /\ lost'[r] = lost[r]
      BY <1>0, <1>t, <2>4 DEF TypeOK, Written, DbOk
    <3>2. /\ usageID' \in [Req -> BOOLEAN] /\ usageID'[r] = TRUE
          /\ \A q \in Req \ {r} : usageID'[q] = usageID[q]
      BY <1>0, <2>4 DEF TypeOK
    <3>3. PositionOK(r)' /\ UnservedOK(r)' /\ ServedOK(r)'
      BY <1>0, <1>t, <2>1, <2>2, <2>3, <2>4, <3>1, <3>2
      DEF PositionOK, Unanswered, Metered, Served, Streams, UnservedOK, ServedOK
    <3> QED
      BY <1>0, <1>1, <2>2, <2>3, <3>1, <3>2, <3>3 DEF TypeOK, Step
  <2>5. CASE InsertFails(r) /\ UNCHANGED usageID
    <3>1. Written(r, 0) /\ row'[r] = row[r] /\ lost'[r]
      BY <1>0, <2>5, FailedInsertType
    <3>2. PositionOK(r)' /\ UnservedOK(r)' /\ ServedOK(r)'
      BY <1>0, <1>t, <2>1, <2>2, <2>3, <2>5, <3>1
      DEF PositionOK, Unanswered, Metered, Served, Streams, UnservedOK, ServedOK
    <3> QED
      BY <1>0, <1>1, <2>2, <2>3, <2>5, <3>1, <3>2 DEF TypeOK, Step
  <2> QED
    BY <1>2, <2>4, <2>5 DEF RecordPending
<1>3. ASSUME NEW how \in Ends, Drop(r, how), pc[r] \in {"failed", "refused", "dropping"},
             how # "eof"
      PROVE  IInv'
  <2>1. /\ pc' \in [Req -> Step] /\ pc'[r] = "done" /\ \A q \in Req \ {r} : pc'[q] = pc[q]
        /\ ended' \in [Req -> Ends] /\ ended'[r] = how
        /\ \A q \in Req \ {r} : ended'[q] = ended[q]
    BY <1>0, <1>3, EndType DEF Drop
  <2>2. UNCHANGED <<old, users, kind, cand, usageID, gone, up, events, sent, answer, reported>>
    BY <1>3 DEF Drop
  <2>3. /\ PositionOK(r)' /\ UnservedOK(r)' /\ ServedOK(r)'
        /\ Written(r, NoRow) \/ Written(r, row[r])
    <3>1. CASE usageID[r]
      <4>1. Written(r, NoRow)
        BY <1>0, <1>3, <3>1, WriteType DEF Drop
      <4> QED
        BY <1>0, <1>3, <1>t, <2>1, <2>2, <4>1
        DEF PositionOK, Unanswered, Metered, Served, Streams, UnservedOK, ServedOK, Written
    <3>2. CASE ~usageID[r]
      <4>1. Written(r, row[r]) /\ row[r] = NoRow
        BY <1>0, <1>3, <3>2, UnwrittenType DEF Drop, PositionOK
      <4> QED
        BY <1>0, <1>3, <1>t, <2>1, <2>2, <4>1
        DEF PositionOK, Unanswered, Metered, Served, Streams, UnservedOK, ServedOK, Written
    <3> QED
      BY <3>1, <3>2
  <2> QED
    BY <1>0, <1>1, <2>1, <2>2, <2>3 DEF TypeOK, Step
<1>4. CASE DropFailed(r) \/ DropRefused(r) \/ DropAbandoned(r)
  BY <1>3, <1>4 DEF DropFailed, DropRefused, DropAbandoned, Ends
\* The step is a decision.
<1>5. ASSUME NEW s \in Step, Goto(r, s), UNCHANGED <<row, errors, lost>>,
             UNCHANGED <<old, users, kind, cand, usageID, gone, up, events, sent, answer, ended>>,
             reported' \in [Req -> 0..MaxReports],
             \A q \in Req \ {r} : reported'[q] = reported[q],
             PositionOK(r)', UnservedOK(r)', ServedOK(r)'
      PROVE  IInv'
  <2>1. pc' \in [Req -> Step] /\ pc'[r] = s /\ \A q \in Req \ {r} : pc'[q] = pc[q]
    BY <1>0, <1>5, GotoType
  <2>2. Written(r, row[r])
    BY <1>0, <1>5, UnwrittenType DEF DbOk
  <2> QED
    BY <1>0, <1>1, <1>5, <2>1, <2>2 DEF TypeOK
<1>6. CASE CheckClient(r)
  <2>1. PICK s \in {"dropping", "waiting"} : Goto(r, s)
    BY <1>6 DEF CheckClient
  <2>2. pc[r] = "checking" /\ pc'[r] = s /\ s \in Step
    BY <1>0, <1>6, <2>1, GotoType DEF CheckClient, Step
  <2>3. UNCHANGED <<row, old, users, kind, cand, usageID, gone, up, events, errors, sent, answer,
                    reported, ended, lost>>
    BY <1>6 DEF CheckClient
  <2>4. PositionOK(r)' /\ UnservedOK(r)' /\ ServedOK(r)'
    BY <1>0, <2>1, <2>2, <2>3
    DEF PositionOK, Unanswered, Metered, Served, Streams, UnservedOK, ServedOK
  <2> QED
    BY <1>0, <1>5, <2>1, <2>2, <2>3, <2>4 DEF TypeOK
<1>7. CASE ReadLine(r)
  <2>1. UNCHANGED <<row, old, users, kind, cand, usageID, gone, up, events, errors, sent, answer,
                    ended, lost>> /\ pc[r] = "waiting"
    BY <1>7 DEF ReadLine
  <2>2. CASE /\ reported[r] < MaxReports /\ reported' = [reported EXCEPT ![r] = reported[r] + 1]
             /\ Goto(r, "metering")
    <3>1. /\ reported' \in [Req -> 0..MaxReports] /\ pc'[r] = "metering" /\ "metering" \in Step
          /\ \A q \in Req \ {r} : reported'[q] = reported[q]
      <4>1. reported[r] + 1 \in 0..MaxReports
        BY <1>t, <2>2, GatewayConstants
      <4> QED
        BY <1>0, <2>2, <4>1, GotoType DEF TypeOK, Step
    <3>2. PositionOK(r)' /\ UnservedOK(r)' /\ ServedOK(r)'
      BY <1>0, <2>1, <3>1
      DEF PositionOK, Unanswered, Metered, Served, Streams, UnservedOK, ServedOK
    <3> QED
      BY <1>5, <2>1, <2>2, <3>1, <3>2
  <2>3. CASE Goto(r, "writing") /\ UNCHANGED reported
    <3>1. pc'[r] = "writing" /\ "writing" \in Step
      BY <1>0, <2>3, GotoType DEF Step
    <3>2. PositionOK(r)' /\ UnservedOK(r)' /\ ServedOK(r)'
      BY <1>0, <2>1, <2>3, <3>1
      DEF PositionOK, Unanswered, Metered, Served, Streams, UnservedOK, ServedOK
    <3> QED
      BY <1>0, <1>5, <2>1, <2>3, <3>1, <3>2 DEF TypeOK
  <2> QED
    BY <1>7, <2>2, <2>3 DEF ReadLine
<1>8. CASE IdleTimeout(r)
  <2>1. /\ pc[r] = "waiting" /\ Goto(r, "dropping") /\ ended' = [ended EXCEPT ![r] = "idle"]
        /\ UNCHANGED <<row, old, users, kind, cand, usageID, gone, up, events, errors, sent, answer,
                       reported, lost>>
    BY <1>8 DEF IdleTimeout
  <2>2. /\ pc' \in [Req -> Step] /\ pc'[r] = "dropping" /\ "dropping" \in Step
        /\ \A q \in Req \ {r} : pc'[q] = pc[q]
    BY <1>0, <2>1, GotoType DEF Step
  <2>3. /\ ended' \in [Req -> Ends] /\ ended'[r] = "idle"
        /\ \A q \in Req \ {r} : ended'[q] = ended[q]
    BY <1>0, <2>1 DEF TypeOK, Ends
  <2>4. PositionOK(r)' /\ UnservedOK(r)' /\ ServedOK(r)'
    BY <1>0, <2>1, <2>2, <2>3
    DEF PositionOK, Unanswered, Metered, Served, Streams, UnservedOK, ServedOK
  <2>5. Written(r, row[r])
    BY <1>0, <2>1, UnwrittenType DEF DbOk
  <2> QED
    BY <1>0, <1>1, <2>1, <2>2, <2>3, <2>4, <2>5 DEF TypeOK
\* The step ends a stream whose row, if no statement was lost, is up to date.
<1>9. ASSUME NEW how \in {"broken", "eof"}, End(r, how), pc[r] \in {"waiting", "writing"},
             UNCHANGED <<row, old, users, kind, cand, usageID, gone, up, events, errors, sent, answer,
                         reported, lost>>
      PROVE  IInv'
  <2>1. /\ pc' \in [Req -> Step] /\ pc'[r] = "done" /\ \A q \in Req \ {r} : pc'[q] = pc[q]
        /\ ended' \in [Req -> Ends] /\ ended'[r] = how
        /\ \A q \in Req \ {r} : ended'[q] = ended[q]
    BY <1>0, <1>9, EndType DEF Ends
  <2>2. PositionOK(r)' /\ UnservedOK(r)' /\ ServedOK(r)'
    BY <1>0, <1>9, <2>1
    DEF PositionOK, Unanswered, Metered, Served, Streams, UnservedOK, ServedOK
  <2>3. Written(r, row[r])
    BY <1>0, <1>9, UnwrittenType DEF DbOk
  <2> QED
    BY <1>0, <1>1, <1>9, <2>1, <2>2, <2>3 DEF TypeOK, Step
<1>10. CASE StreamEnds(r)
  <2>1. End(r, IF r \in gone THEN "broken" ELSE "eof") \/ End(r, "broken")
    BY <1>10 DEF StreamEnds
  <2>2. End(r, "eof") \/ End(r, "broken")
    BY <2>1
  <2> QED
    BY <1>9, <1>10, <2>2 DEF StreamEnds
<1>11. CASE Backfill(r)
  <2>1. /\ pc[r] = "metering" /\ Goto(r, "writing")
        /\ UNCHANGED <<old, users, kind, cand, usageID, gone, up, events, sent, answer, reported,
                       ended>>
    BY <1>11 DEF Backfill
  <2>2. /\ pc' \in [Req -> Step] /\ pc'[r] = "writing" /\ "writing" \in Step
        /\ \A q \in Req \ {r} : pc'[q] = pc[q]
    BY <1>0, <2>1, GotoType DEF Step
  <2>3. /\ PositionOK(r)' /\ UnservedOK(r)' /\ ServedOK(r)'
        /\ Written(r, reported[r]) \/ Written(r, row[r])
    <3>1. CASE usageID[r] /\ row[r] # NoRow
      <4>1. Written(r, reported[r])
        BY <1>t, <1>0, <1>11, <3>1, WriteType DEF Backfill
      <4> QED
        BY <1>0, <1>t, <2>1, <2>2, <3>1, <4>1
        DEF PositionOK, Unanswered, Metered, Served, Streams, UnservedOK, ServedOK, Written
    <3>2. CASE ~(usageID[r] /\ row[r] # NoRow)
      <4>1. UNCHANGED row /\ DbOk
        BY <1>11, <3>2 DEF Backfill
      <4>2. Written(r, row[r])
        BY <1>0, <4>1, UnwrittenType
      <4> QED
        BY <1>0, <1>t, <2>1, <2>2, <3>2, <4>2
        DEF PositionOK, Unanswered, Metered, Served, Streams, UnservedOK, ServedOK, Written
    <3> QED
      BY <3>1, <3>2
  <2> QED
    BY <1>0, <1>1, <2>1, <2>2, <2>3 DEF TypeOK
<1>12. CASE WriteLine(r)
  <2>1. /\ UNCHANGED <<row, old, users, kind, cand, usageID, gone, up, events, errors, sent, answer,
                       reported, lost>> /\ pc[r] = "writing"
    BY <1>12 DEF WriteLine
  <2>2. ASSUME NEW s \in {"checking", "dropping"}, Goto(r, s), UNCHANGED ended PROVE IInv'
    <3>1. pc'[r] = s /\ s \in Step
      BY <1>0, <2>2, GotoType DEF Step
    <3>2. PositionOK(r)' /\ UnservedOK(r)' /\ ServedOK(r)'
      BY <1>0, <2>1, <2>2, <3>1
      DEF PositionOK, Unanswered, Metered, Served, Streams, UnservedOK, ServedOK
    <3> QED
      BY <1>0, <1>5, <2>1, <2>2, <3>1, <3>2 DEF TypeOK
  <2>3. ASSUME End(r, IF r \in gone THEN "broken" ELSE "eof") PROVE IInv'
    <3>1. End(r, "eof") \/ End(r, "broken")
      BY <2>3
    <3> QED
      BY <1>9, <2>1, <3>1
  <2> QED
    BY <1>12, <2>2, <2>3 DEF WriteLine
<1> QED
  BY <1>2, <1>4, <1>6, <1>7, <1>8, <1>10, <1>11, <1>12 DEF Stream

-----------------------------------------------------------------------------
(* Routing and failover.                                                   *)
LEMMA RouteKeeps ==
  ASSUME IInv, NEW r \in Req, Route(r) PROVE IInv'
<1>0. /\ TypeOK /\ Ascending(r) /\ PositionOK(r) /\ UnservedOK(r) /\ ServedOK(r)
  BY InvariantIsLocal DEF AllOK
<1>1. PICK k \in Kinds \ {"none"}, c \in MatchModels :
        /\ kind' = [kind EXCEPT ![r] = k]
        /\ cand' = [cand EXCEPT ![r] = c]
        /\ \/ c = {} /\ End(r, "notfound")
           \/ /\ c # {} /\ UNCHANGED ended
              /\ Goto(r, IF k = "stream" THEN "recording" ELSE "trying")
  BY DEF Route
<1>2. /\ pc[r] = "new"
      /\ UNCHANGED <<row, old, users, usageID, gone, up, events, errors, sent, answer, reported, lost>>
  BY DEF Route
<1>3. /\ kind' \in [Req -> Kinds] /\ kind'[r] = k /\ \A q \in Req \ {r} : kind'[q] = kind[q]
      /\ cand' \in [Req -> SUBSET Providers] /\ cand'[r] = c
      /\ \A q \in Req \ {r} : cand'[q] = cand[q]
  BY <1>0, <1>1 DEF TypeOK, MatchModels
<1>4. /\ pc' \in [Req -> Step] /\ ended' \in [Req -> Ends]
      /\ \A q \in Req \ {r} : pc'[q] = pc[q] /\ ended'[q] = ended[q]
      /\ \/ pc'[r] = "done" /\ ended'[r] = "notfound"
         \/ pc'[r] = "recording" /\ k = "stream" /\ ended'[r] = ended[r]
         \/ pc'[r] = "trying" /\ k # "stream" /\ ended'[r] = ended[r]
  <2>1. CASE c = {} /\ End(r, "notfound")
    BY <1>0, <2>1, EndType DEF Ends
  <2>2. ASSUME UNCHANGED ended, NEW s \in {"recording", "trying"}, Goto(r, s)
        PROVE  /\ pc' \in [Req -> Step] /\ ended' \in [Req -> Ends]
               /\ \A q \in Req \ {r} : pc'[q] = pc[q] /\ ended'[q] = ended[q]
               /\ pc'[r] = s /\ ended'[r] = ended[r]
    <3>1. s \in Step
      BY DEF Step
    <3> QED
      BY <1>0, <2>2, <3>1, GotoType DEF TypeOK
  <2> QED
    BY <1>1, <2>1, <2>2
<1>5. TypeOK'
  BY <1>0, <1>2, <1>3, <1>4 DEF TypeOK
<1>6. sent[r] = <<>> /\ answer[r] = "none" /\ row[r] = NoRow
  BY <1>0, <1>2 DEF TypeOK, PositionOK, Unanswered
<1>7. Ascending(r)'
  BY <1>2, <1>6 DEF Ascending
<1>8. PositionOK(r)' /\ UnservedOK(r)' /\ ServedOK(r)'
  BY <1>0, <1>2, <1>3, <1>4, <1>6
  DEF PositionOK, Unanswered, Metered, Served, Streams, UnservedOK, ServedOK
<1>9. \A q \in Req \ {r} : Kept(q)
  BY <1>2, <1>3, <1>4 DEF Kept
<1> QED
  BY <1>5, <1>7, <1>8, <1>9, StepKeeps

\* One call: the candidates are used in ascending order.
LEMMA SendAscends ==
  ASSUME TypeOK, NEW r \in Req, Ascending(r), NEW p \in Providers, Send(r, p)
  PROVE  /\ Ascending(r)'
         /\ cand' \in [Req -> SUBSET Providers] /\ sent' \in [Req -> Seq(Providers)]
         /\ \A q \in Req \ {r} : cand'[q] = cand[q] /\ sent'[q] = sent[q]
<1>1. /\ p \in cand[r] /\ \A q \in cand[r] : p <= q
      /\ cand' = [cand EXCEPT ![r] = cand[r] \ {p}]
      /\ sent' = IF r \in gone THEN sent ELSE [sent EXCEPT ![r] = Append(sent[r], p)]
  BY DEF Send
<1>2. sent[r] \in Seq(Providers) /\ cand[r] \in SUBSET Providers
  BY RequestTypes
<1>3. /\ cand' \in [Req -> SUBSET Providers] /\ cand'[r] = cand[r] \ {p}
      /\ \A q \in Req \ {r} : cand'[q] = cand[q]
  BY <1>1, <1>2 DEF TypeOK
<1>4. /\ sent' \in [Req -> Seq(Providers)] /\ sent'[r] \in {sent[r], Append(sent[r], p)}
      /\ \A q \in Req \ {r} : sent'[q] = sent[q]
  BY <1>1, <1>2 DEF TypeOK
<1>a. ASSUME /\ \A i, j \in 1..Len(sent'[r]) : i < j => sent'[r][i] < sent'[r][j]
             /\ \A i \in 1..Len(sent'[r]), q \in cand'[r] : sent'[r][i] < q
      PROVE  Ascending(r)'
  BY <1>a, Zenon DEF Ascending
<1>5. CASE sent'[r] = sent[r]
  <2>1. \A i, j \in 1..Len(sent'[r]) : i < j => sent'[r][i] < sent'[r][j]
    BY <1>5 DEF Ascending
  <2>2. \A i \in 1..Len(sent'[r]), q \in cand'[r] : sent'[r][i] < q
    BY <1>3, <1>5 DEF Ascending
  <2> QED
    BY <1>3, <1>4, <1>a, <2>1, <2>2
<1>6. CASE sent'[r] = Append(sent[r], p)
  <2> DEFINE n == Len(sent[r])
  <2>1. /\ n \in Nat /\ Len(sent'[r]) = n + 1 /\ sent'[r][n + 1] = p
        /\ \A i \in 1..n : sent'[r][i] = sent[r][i]
    BY <1>2, <1>6
  <2>2. \A i \in 1..n : sent[r][i] < p /\ sent[r][i] \in Providers
    BY <1>1, <1>2 DEF Ascending
  <2>3. \A q \in cand'[r] : q \in Providers /\ p < q
    BY <1>1, <1>2, <1>3, GatewayConstants
  <2>4. ASSUME NEW i \in 1..(n + 1), NEW j \in 1..(n + 1), i < j
        PROVE  sent'[r][i] < sent'[r][j]
    <3>1. i \in 1..n /\ (j \in 1..n \/ j = n + 1)
      BY <2>1, <2>4
    <3> QED
      BY <2>1, <2>2, <2>4, <3>1 DEF Ascending
  <2>5. ASSUME NEW i \in 1..(n + 1), NEW q \in cand'[r] PROVE sent'[r][i] < q
    <3>1. CASE i = n + 1
      BY <2>1, <2>3, <3>1
    <3>2. CASE i \in 1..n
      BY <1>3, <2>1, <3>2 DEF Ascending
    <3> QED
      BY <2>1, <3>1, <3>2
  <2> QED
    BY <1>3, <1>4, <1>a, <2>1, <2>4, <2>5
<1> QED
  BY <1>3, <1>4, <1>5, <1>6

LEMMA FailsKeeps ==
  ASSUME IInv, NEW r \in Req, NEW p \in Providers, Fails(r, p) PROVE IInv'
<1>0. /\ TypeOK /\ Ascending(r) /\ PositionOK(r) /\ UnservedOK(r) /\ ServedOK(r)
  BY InvariantIsLocal DEF AllOK
<1>1. /\ Send(r, p) /\ pc[r] = "trying" /\ AfterFailure(r)
      /\ ended' = IF pc'[r] = "done" THEN [ended EXCEPT ![r] = "failed"] ELSE ended
      /\ UNCHANGED <<row, old, users, kind, usageID, gone, up, events, errors, answer, reported, lost>>
  BY DEF Fails, Send
<1>2. /\ Ascending(r)'
      /\ cand' \in [Req -> SUBSET Providers] /\ sent' \in [Req -> Seq(Providers)]
      /\ \A q \in Req \ {r} : cand'[q] = cand[q] /\ sent'[q] = sent[q]
  BY <1>0, <1>1, SendAscends
<1>3. PICK s \in Step : /\ Goto(r, s) /\ s \in {"trying", "failed", "done"}
                        /\ (s = "failed" => kind[r] = "stream")
                        /\ (s = "done" => kind[r] # "stream")
  BY <1>1 DEF AfterFailure, Step
<1>4. pc' \in [Req -> Step] /\ pc'[r] = s /\ \A q \in Req \ {r} : pc'[q] = pc[q]
  BY <1>0, <1>3, GotoType
<1>5. /\ ended' \in [Req -> Ends] /\ \A q \in Req \ {r} : ended'[q] = ended[q]
      /\ ended'[r] \in {ended[r], "failed"}
  BY <1>0, <1>1 DEF TypeOK, Ends
<1>6. TypeOK'
  BY <1>0, <1>1, <1>2, <1>4, <1>5 DEF TypeOK
<1>7. PositionOK(r)' /\ UnservedOK(r)' /\ ServedOK(r)'
  BY <1>0, <1>1, <1>3, <1>4, <1>5
  DEF PositionOK, Unanswered, Metered, Served, Streams, UnservedOK, ServedOK
<1>8. \A q \in Req \ {r} : Kept(q)
  BY <1>1, <1>2, <1>4, <1>5 DEF Kept
<1> QED
  BY <1>2, <1>6, <1>7, <1>8, StepKeeps

LEMMA AnsweredKeeps ==
  ASSUME IInv, NEW r \in Req, NEW p \in Providers, Answered(r, p) PROVE IInv'
<1>0. /\ TypeOK /\ Ascending(r) /\ PositionOK(r) /\ UnservedOK(r) /\ ServedOK(r)
  BY InvariantIsLocal DEF AllOK
<1>1. PICK a \in Answers \ {"none"} :
        /\ answer' = [answer EXCEPT ![r] = a]
        /\ \/ kind[r] = "stream" /\ a = "ok" /\ Goto(r, "checking") /\ UNCHANGED ended
           \/ kind[r] = "stream" /\ a = "error" /\ Goto(r, "refused") /\ UNCHANGED ended
           \/ kind[r] = "json" /\ a = "ok" /\ Goto(r, "relaying") /\ UNCHANGED ended
           \/ kind[r] = "embed" /\ a = "ok" /\ Goto(r, "embedded") /\ UNCHANGED ended
           \/ kind[r] # "stream" /\ a = "error" /\ End(r, "refused")
  BY DEF Answered
<1>2. /\ Send(r, p) /\ pc[r] = "trying"
      /\ UNCHANGED <<row, old, users, kind, usageID, gone, up, events, errors, reported, lost>>
  BY DEF Answered, Send
<1>3. /\ Ascending(r)'
      /\ cand' \in [Req -> SUBSET Providers] /\ sent' \in [Req -> Seq(Providers)]
      /\ \A q \in Req \ {r} : cand'[q] = cand[q] /\ sent'[q] = sent[q]
  BY <1>0, <1>2, SendAscends
<1>4. /\ answer' \in [Req -> Answers] /\ answer'[r] = a
      /\ \A q \in Req \ {r} : answer'[q] = answer[q]
  BY <1>0, <1>1 DEF TypeOK
<1>5. PICK s \in Step, how \in Ends :
        /\ pc' \in [Req -> Step] /\ pc'[r] = s /\ \A q \in Req \ {r} : pc'[q] = pc[q]
        /\ ended' \in [Req -> Ends] /\ ended'[r] = how
        /\ \A q \in Req \ {r} : ended'[q] = ended[q]
        /\ how = ended[r] \/ how = "refused"
        /\ \/ kind[r] = "stream" /\ a = "ok" /\ s = "checking"
           \/ kind[r] = "stream" /\ a = "error" /\ s = "refused"
           \/ kind[r] = "json" /\ a = "ok" /\ s = "relaying"
           \/ kind[r] = "embed" /\ a = "ok" /\ s = "embedded"
           \/ kind[r] # "stream" /\ a = "error" /\ s = "done"
  <2>1. CASE kind[r] # "stream" /\ a = "error" /\ End(r, "refused")
    BY <1>0, <2>1, EndType DEF Ends, Step
  <2>2. ASSUME NEW s \in Step, Goto(r, s), UNCHANGED ended
        PROVE  /\ pc' \in [Req -> Step] /\ pc'[r] = s /\ \A q \in Req \ {r} : pc'[q] = pc[q]
               /\ ended' \in [Req -> Ends] /\ ended'[r] = ended[r] /\ ended[r] \in Ends
               /\ \A q \in Req \ {r} : ended'[q] = ended[q]
    BY <1>0, <2>2, GotoType, RequestTypes DEF TypeOK
  <2> QED
    BY <1>1, <2>1, <2>2 DEF Step
<1>6. TypeOK'
  BY <1>0, <1>2, <1>3, <1>4, <1>5 DEF TypeOK
<1>7. PositionOK(r)' /\ UnservedOK(r)' /\ ServedOK(r)'
  BY <1>0, <1>2, <1>4, <1>5
  DEF PositionOK, Unanswered, Metered, Served, Streams, UnservedOK, ServedOK
<1>8. \A q \in Req \ {r} : Kept(q)
  BY <1>2, <1>3, <1>4, <1>5 DEF Kept
<1> QED
  BY <1>3, <1>6, <1>7, <1>8, StepKeeps

-----------------------------------------------------------------------------
(* The answers that are read as a whole.                                   *)
LEMMA WholeKeeps ==
  ASSUME IInv, NEW r \in Req, RelayJSON(r) \/ RelayFails(r) \/ RecordEmbedding(r) PROVE IInv'
<1>0. /\ TypeOK /\ Ascending(r) /\ PositionOK(r) /\ UnservedOK(r) /\ ServedOK(r)
  BY InvariantIsLocal DEF AllOK
<1>1. /\ pc[r] \in {"relaying", "embedded"}
      /\ UNCHANGED <<old, users, kind, cand, usageID, gone, up, events, sent, answer>>
  BY DEF RelayJSON, RelayFails, RecordEmbedding
<1>2. row[r] = NoRow /\ answer[r] = "ok" /\ reported[r] = 0 /\ kind[r] # "stream"
  BY <1>0, <1>1 DEF PositionOK, Served, Metered
\* What it reports, what it writes, and the end.
<1>3. ASSUME NEW n \in {0, 1}, reported' = [reported EXCEPT ![r] = n], Insert(r, n), End(r, "eof")
      PROVE  IInv'
  <2>1. /\ pc' \in [Req -> Step] /\ pc'[r] = "done" /\ \A q \in Req \ {r} : pc'[q] = pc[q]
        /\ ended' \in [Req -> Ends] /\ ended'[r] = "eof"
        /\ \A q \in Req \ {r} : ended'[q] = ended[q]
    BY <1>0, <1>3, EndType DEF Ends
  <2>2. n \in 0..MaxReports
    BY GatewayConstants
  <2>3. Written(r, n) /\ (Owner[r] \in users \/ (row'[r] = row[r] /\ lost'[r]))
    BY <1>0, <1>3, <2>2, InsertType
  <2>4. /\ reported' \in [Req -> 0..MaxReports] /\ reported'[r] = n
        /\ \A q \in Req \ {r} : reported'[q] = reported[q]
    BY <1>0, <1>3, <2>2 DEF TypeOK
  <2>5. TypeOK'
    BY <1>0, <1>1, <2>1, <2>3, <2>4 DEF TypeOK, Written
  <2>6. PositionOK(r)' /\ UnservedOK(r)' /\ ServedOK(r)'
    BY <1>0, <1>1, <1>2, <2>1, <2>3, <2>4
    DEF PositionOK, Unanswered, Metered, Served, Streams, UnservedOK, ServedOK, Written
  <2>7. Ascending(r)' /\ \A q \in Req \ {r} : Kept(q)
    BY <1>0, <1>1, <2>1, <2>3, <2>4 DEF Ascending, Kept, Written
  <2> QED
    BY <2>5, <2>6, <2>7, StepKeeps
\* It has nothing to write.
<1>4. ASSUME NEW how \in {"eof", "broken"}, End(r, how), UNCHANGED <<row, errors, lost, reported>>,
             how = "broken" \/ kind[r] = "json"
      PROVE  IInv'
  <2>1. /\ pc' \in [Req -> Step] /\ pc'[r] = "done" /\ \A q \in Req \ {r} : pc'[q] = pc[q]
        /\ ended' \in [Req -> Ends] /\ ended'[r] = how
        /\ \A q \in Req \ {r} : ended'[q] = ended[q]
    BY <1>0, <1>4, EndType DEF Ends
  <2>2. TypeOK'
    BY <1>0, <1>1, <1>4, <2>1 DEF TypeOK
  <2>3. PositionOK(r)' /\ UnservedOK(r)' /\ ServedOK(r)'
    BY <1>0, <1>1, <1>2, <1>4, <2>1
    DEF PositionOK, Unanswered, Metered, Served, Streams, UnservedOK, ServedOK
  <2>4. Ascending(r)' /\ \A q \in Req \ {r} : Kept(q)
    BY <1>0, <1>1, <1>4, <2>1 DEF Ascending, Kept
  <2> QED
    BY <2>2, <2>3, <2>4, StepKeeps
<1>5. CASE RelayJSON(r)
  <2>1. kind[r] = "json"
    BY <1>0, <1>5 DEF RelayJSON, PositionOK
  <2> QED
    BY <1>3, <1>4, <1>5, <2>1 DEF RelayJSON
<1>6. CASE RelayFails(r)
  BY <1>4, <1>6 DEF RelayFails
<1>7. CASE RecordEmbedding(r)
  BY <1>3, <1>7 DEF RecordEmbedding
<1> QED
  BY <1>5, <1>6, <1>7

-----------------------------------------------------------------------------
(* The environment, and the hourly cleanup.                                *)
LEMMA EnvironmentKeeps ==
  ASSUME IInv, NEW r \in Req, Disconnect(r) \/ Age(r) PROVE IInv'
<1>0. /\ TypeOK /\ Ascending(r) /\ PositionOK(r) /\ UnservedOK(r) /\ ServedOK(r)
  BY InvariantIsLocal DEF AllOK
<1>1. /\ UNCHANGED <<row, users, control, up, events, errors, history>>
      /\ gone' \subseteq Req /\ old' \subseteq Req
      /\ \A q \in Req : q \in old' => q \in old \/ (q = r /\ pc[r] = "done")
  BY <1>0 DEF TypeOK, Disconnect, Age
<1>2. TypeOK'
  BY <1>0, <1>1 DEF TypeOK, control, history
<1>3. /\ Ascending(r)' /\ PositionOK(r)' /\ UnservedOK(r)' /\ ServedOK(r)'
      /\ \A q \in Req \ {r} : Kept(q)
  BY <1>0, <1>1
  DEF Ascending, PositionOK, Unanswered, Metered, Served, Streams, UnservedOK, ServedOK, Kept,
      control, history
<1> QED
  BY <1>2, <1>3, StepKeeps

LEMMA CleanupKeeps ==
  ASSUME IInv, Cleanup PROVE IInv'
<1>0. TypeOK /\ \A r \in Req : AllOK(r)
  BY InvariantIsLocal
<1>1. /\ UNCHANGED <<old, users, control, gone, up, events, history>> /\ errors' \in 0..MaxErrors
      /\ row' = [r \in Req |-> IF Stale(r) THEN NoRow ELSE row[r]] \/ row' = row
  BY <1>0, GatewayConstants DEF Cleanup, TypeOK
<1>2. /\ row' \in [Req -> {NoRow} \cup 0..MaxReports]
      /\ \A r \in Req : row'[r] = row[r] \/ (Stale(r) /\ row'[r] = NoRow)
  BY <1>0, <1>1 DEF TypeOK
<1>3. TypeOK'
  BY <1>0, <1>1, <1>2 DEF TypeOK, control, history
<1>4. ASSUME NEW r \in Req PROVE AllOK(r)'
  <2>1. CASE row'[r] = row[r]
    BY <1>0, <1>1, <2>1, KeptIsOK DEF Kept, control, history
  <2>2. CASE Stale(r) /\ row'[r] = NoRow
    <3>1. pc[r] = "done" /\ row[r] = 0 /\ kind[r] # "embed"
      BY <1>0, <2>2 DEF Stale, AllOK, PositionOK
    <3>2. Ascending(r)'
      BY <1>0, <1>1 DEF AllOK, Ascending, control, history
    <3>3. PositionOK(r)' /\ UnservedOK(r)'
      BY <1>0, <1>1, <2>2, <3>1
      DEF AllOK, PositionOK, Unanswered, Metered, Served, Streams, UnservedOK, control, history
    <3>4. ServedOK(r)'
      BY <1>0, <1>1, <2>2, <3>1 DEF AllOK, ServedOK, control, history
    <3> QED
      BY <3>2, <3>3, <3>4 DEF AllOK
  <2> QED
    BY <1>2, <2>1, <2>2
<1> QED
  BY <1>3, <1>4
  DEF IInv, AllOK, UnservedIsNotMetered, ServedIsMetered, UnservedOK, ServedOK

LEMMA DeletionKeeps ==
  ASSUME IInv, NEW u \in User, DeleteUser(u) PROVE IInv'
<1>0. TypeOK /\ \A r \in Req : AllOK(r)
  BY InvariantIsLocal
<1>1. /\ UNCHANGED <<old, control, gone, up, errors, history>> /\ users' = users \ {u}
      /\ row' = [r \in Req |-> IF Owner[r] = u THEN NoRow ELSE row[r]]
      /\ events' \in 0..MaxEvents
  BY <1>0, GatewayConstants DEF DeleteUser, TypeOK
<1>2. TypeOK'
  BY <1>0, <1>1 DEF TypeOK, control, history
<1>3. ASSUME NEW r \in Req PROVE AllOK(r)'
  <2>1. CASE Owner[r] # u
    BY <1>0, <1>1, <2>1, KeptIsOK DEF Kept, control, history
  <2>2. CASE Owner[r] = u
    <3>1. row'[r] = NoRow /\ Owner[r] \notin users'
      BY <1>1, <2>2
    <3>2. Ascending(r)'
      BY <1>0, <1>1 DEF AllOK, Ascending, control, history
    <3>3. PositionOK(r)' /\ UnservedOK(r)' /\ ServedOK(r)'
      BY <1>0, <1>1, <3>1
      DEF AllOK, PositionOK, Unanswered, Metered, Served, Streams, UnservedOK, ServedOK,
          control, history
    <3> QED
      BY <3>2, <3>3 DEF AllOK
  <2> QED
    BY <2>1, <2>2
<1> QED
  BY <1>2, <1>3
  DEF IInv, AllOK, UnservedIsNotMetered, ServedIsMetered, UnservedOK, ServedOK

LEMMA CrashKeeps ==
  ASSUME IInv, Crash PROVE IInv'
<1>0. TypeOK /\ \A r \in Req : AllOK(r)
  BY InvariantIsLocal
<1>1. /\ UNCHANGED <<row, old, users, kind, cand, usageID, gone, errors, sent, answer, reported, ended>>
      /\ pc' = [r \in Req |-> IF pc[r] = "new" THEN "new" ELSE "done"]
      /\ lost' = [r \in Req |-> lost[r] \/ pc[r] \notin {"new", "done"}]
  BY DEF Crash
<1>2. events' \in 0..MaxEvents /\ up' \in BOOLEAN
  <2>1. events' = events + 1 /\ events < MaxEvents /\ up' = FALSE
    BY DEF Crash
  <2>2. events \in 0..MaxEvents
    BY <1>0 DEF TypeOK
  <2>3. events' \in 0..MaxEvents
    BY <2>1, <2>2, GatewayConstants
  <2>4. up' \in BOOLEAN
    BY <2>1, Zenon
  <2> QED
    BY <2>3, <2>4, Zenon
<1>3. pc' \in [Req -> Step] /\ lost' \in [Req -> BOOLEAN]
  <2>1. \A r \in Req : (lost[r] \/ pc[r] \notin {"new", "done"}) \in BOOLEAN
    OBVIOUS
  <2> QED
    BY <1>1, <2>1 DEF Step
<1>4. TypeOK'
  BY <1>0, <1>1, <1>2, <1>3 DEF TypeOK
<1>5. ASSUME NEW r \in Req PROVE AllOK(r)'
  <2>1. pc[r] \in Step /\ lost[r] \in BOOLEAN /\ ended[r] \in Ends
    BY <1>0 DEF TypeOK
  <2>2. CASE pc[r] \in {"new", "done"}
    <3>1. pc'[r] = pc[r] /\ lost'[r] = lost[r]
      BY <1>1, <2>1, <2>2
    <3> QED
      BY <1>0, <1>1, <3>1, KeptIsOK DEF Kept
  <2>3. CASE pc[r] \notin {"new", "done"}
    <3>1. pc'[r] = "done" /\ lost'[r]
      BY <1>1, <2>1, <2>3
    <3>2. Ascending(r)'
      BY <1>0, <1>1 DEF AllOK, Ascending
    <3>3. PositionOK(r)' /\ UnservedOK(r)' /\ ServedOK(r)'
      BY <1>0, <1>1, <3>1
      DEF AllOK, PositionOK, Unanswered, Metered, Served, Streams, UnservedOK, ServedOK
    <3> QED
      BY <3>2, <3>3 DEF AllOK
  <2> QED
    BY <2>2, <2>3
<1> QED
  BY <1>4, <1>5
  DEF IInv, AllOK, UnservedIsNotMetered, ServedIsMetered, UnservedOK, ServedOK

LEMMA UnchangedKeeps ==
  ASSUME IInv, UNCHANGED <<row, old, users, control, history>>, gone' = gone,
         up' \in BOOLEAN, events' = events, errors' = errors
  PROVE  IInv'
<1>1. TypeOK /\ \A r \in Req : AllOK(r)
  BY InvariantIsLocal
<1>2. TypeOK'
  BY <1>1 DEF TypeOK, control, history
<1>3. \A r \in Req : AllOK(r)'
  BY <1>1, KeptIsOK DEF Kept, control, history
<1> QED
  BY <1>2, <1>3
  DEF IInv, AllOK, UnservedIsNotMetered, ServedIsMetered, UnservedOK, ServedOK

-----------------------------------------------------------------------------
\* Every reachable state satisfies the inductive invariant.
THEOREM GatewayInvariance == Spec => []IInv
<1>1. Init => IInv
  <2> SUFFICES ASSUME Init PROVE IInv
    OBVIOUS
  <2>1. TypeOK
    BY GatewayConstants DEF Init, TypeOK, NoRow, Step, Kinds, Answers, Ends
  <2>2. \A r \in Req : Ascending(r) /\ PositionOK(r)
    BY DEF Init, Ascending, PositionOK, Unanswered, Metered, Served, Streams, NoRow
  <2>3. UnservedIsNotMetered /\ ServedIsMetered
    BY DEF Init, UnservedIsNotMetered, ServedIsMetered
  <2> QED
    BY <2>1, <2>2, <2>3 DEF IInv
<1>2. IInv /\ [Next]_vars => IInv'
  <2> SUFFICES ASSUME IInv, [Next]_vars PROVE IInv'
    OBVIOUS
  <2>1. CASE \E r \in Req : Route(r)
    BY <2>1, RouteKeeps
  <2>2. CASE \E r \in Req : Handler(r)
    BY <2>2, FailsKeeps, AnsweredKeeps, StreamKeeps, WholeKeeps DEF Handler
  <2>3. CASE \E r \in Req : Disconnect(r) \/ Age(r)
    BY <2>3, EnvironmentKeeps
  <2>4. CASE Cleanup
    BY <2>4, CleanupKeeps
  <2>5. CASE Crash
    BY <2>5, CrashKeeps
  <2>6. CASE \E u \in User : DeleteUser(u)
    BY <2>6, DeletionKeeps
  <2>7. CASE Restart
    BY <2>7, UnchangedKeeps DEF Restart
  <2>8. CASE UNCHANGED vars
    BY <2>8, UnchangedKeeps DEF vars, IInv, TypeOK
  <2> QED
    BY <2>1, <2>2, <2>3, <2>4, <2>5, <2>6, <2>7, <2>8 DEF Next
<1> QED
  BY <1>1, <1>2, PTL DEF Spec

\* A request goes to each provider at most once, and to none once answered.
THEOREM NoProviderIsAskedTwice == Spec => []SentOnce
<1>1. IInv => SentOnce
  BY DEF IInv, SentOnce, Ascending, PositionOK, Unanswered
<1> QED
  BY <1>1, GatewayInvariance, PTL

\* What no provider served leaves no row of the usage table.
THEOREM UnservedIsFree == Spec => []UnservedIsNotMetered
<1>1. IInv => UnservedIsNotMetered
  BY DEF IInv
<1> QED
  BY <1>1, GatewayInvariance, PTL

\* What was served to its end is metered with the last report, as long as its
\* user has his account.
THEOREM ServedIsPaid == Spec => []ServedIsMetered
<1>1. IInv => ServedIsMetered
  BY DEF IInv
<1> QED
  BY <1>1, GatewayInvariance, PTL

\* No step but the deletion of its user changes the row of a request that has
\* come to its end.
THEOREM RowsAreFinal == Spec => FinishedRowsAreFinal
<1>1. ASSUME IInv, [Next]_vars, NEW r \in Req, pc[r] = "done", row[r] # NoRow,
             kind[r] = "embed" \/ row[r] # 0
      PROVE  row'[r] = row[r] \/ Owner[r] \in users \ users'
  <2>0. TypeOK
    BY <1>1 DEF IInv
  <2>1. CASE \E q \in Req : Route(q) \/ Disconnect(q) \/ Age(q)
    BY <2>1 DEF Route, Disconnect, Age
  <2>2. CASE \E q \in Req : Handler(q)
    <3>1. PICK q \in Req : Handler(q)
      BY <2>2
    <3>2. pc[q] # "done"
      BY <3>1 DEF Handler, Fails, Answered, Send, Stream, RecordPending, DropFailed, DropRefused,
         CheckClient, ReadLine, IdleTimeout, StreamEnds, Backfill, WriteLine, DropAbandoned,
         RelayJSON, RelayFails, RecordEmbedding
    <3>3. row' = row \/ \E tokens : row' = [row EXCEPT ![q] = tokens]
      BY <3>1 DEF Handler, Fails, Answered, Stream, RecordPending, DropFailed, DropRefused, Drop,
         CheckClient, ReadLine, IdleTimeout, StreamEnds, Backfill, WriteLine, DropAbandoned,
         RelayJSON, RelayFails, RecordEmbedding, Write, Insert, InsertFails, DbError
    <3> QED
      BY <1>1, <2>0, <3>2, <3>3 DEF TypeOK
  <2>3. CASE Cleanup
    BY <1>1, <2>3 DEF Cleanup, Stale
  <2>4. CASE \E u \in User : DeleteUser(u)
    BY <1>1, <2>4 DEF DeleteUser
  <2>5. CASE Crash \/ Restart \/ UNCHANGED vars
    BY <2>5 DEF Crash, Restart, vars
  <2> QED
    BY <1>1, <2>1, <2>2, <2>3, <2>4, <2>5 DEF Next
<1>2. IInv /\ [Next]_vars
        => [\A r \in Req : (pc[r] = "done" /\ row[r] # NoRow /\ (kind[r] = "embed" \/ row[r] # 0))
                             => row'[r] = row[r] \/ Owner[r] \in users \ users']_vars
  BY <1>1
<1> QED
  BY <1>2, GatewayInvariance, PTL DEF Spec, FinishedRowsAreFinal
=============================================================================
