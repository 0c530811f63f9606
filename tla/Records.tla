------------------------------ MODULE Records ------------------------------
(***************************************************************************)
(* The handlers of FieldWork and Books on one database, and what must hold  *)
(* of the rows however requests overlap and whenever the process dies.  A   *)
(* lost update of two overlapping requests is told by Unseen and stale: the *)
(* properties say that nothing else goes wrong.                             *)
(***************************************************************************)
EXTENDS FieldWork, Books

RecordsInit == Fresh(Database(FieldTables \cup BooksTables))

RecordsNext == FieldWorkNext \/ BooksNext \/ (\E q \in Requests : Audit(q)) \/ Restart

RecordsSpec == RecordsInit /\ [][RecordsNext]_recordVars

Lost(table, key) == <<table, key>> \in stale

-----------------------------------------------------------------------------

\* How far a report has come.
Rank(status) ==
  CASE status \in {"open", "pending", "active"} -> 1
    [] status = "acknowledged" -> 2
    [] status \in {"resolved", "approved", "follow_up", "graduated", "not_required"} -> 3
    [] OTHER -> 0

\* An incident, an inspection or a supervisor's learning never goes back: what
\* is resolved, reviewed or graduated stays so, unless the request that undoes
\* it had read the row before (depth.service.ts acknowledgeIncident to
\* resolveIncident and reviewInspection, onboarding.service.ts
\* advanceSupervisorPhase to graduateSupervisor).
StatusesMoveForward ==
  [][\A t \in {"incident", "inspection", "trainee"} : \A k \in DOMAIN db[t] :
       Rank(db'[t][k].status) >= Rank(db[t][k].status) \/ <<t, k>> \in stale']_recordVars

\* What a request does not name it does not change: the cost of an incident or a
\* repair, a day's figure, a weight or a setting stays as it was read
\* (updateIncidentDetails, updateMaintenanceStatus, ingestDailyRecords'
\* field-level merge, updateLeaderboardConfig, updateFleetPolicy and the other
\* merges), unless another request came between.
NamedFieldsOnly ==
  [][\A q \in Requests :
       LET Old == Current(q)
           New == db'[at[q].table][at[q].key]
       IN (at[q].do \in {"write", "overwrite"} /\ at'[q] \notin {at[q], Idle} /\ ~Unseen(q)) =>
            \A f \in {"cost", "trips", "first", "second", "acceptance", "online"} \cap DOMAIN Old \cap DOMAIN New :
              Old[f] = New[f] \/ f \in DOMAIN at[q].body]_recordVars

\* What a handler leaves half done, a death of the process left: rows without
\* their audit entry, incidents without their notice, bytes without a document,
\* ingestion runs that never end, a class without an open ramp profile, power
\* commands without a record, prices over the policy without an alert.
HalfDoneByDeathsOnly ==
  LET Bound == cut + Cardinality(Unfinished)
      Rows(t, P(_)) == Cardinality({k \in DOMAIN db[t] : P(db[t][k])})
  IN /\ untold <= Bound
     /\ Rows("incident", LAMBDA i : Live(i) /\ ~i.told) <= Bound
     /\ Rows("document", LAMBDA d : d.status \in {"stored", "media"}) <= Bound
     /\ db.runs["running"].open <= Bound
     /\ Rows("ramp", LAMBDA r : \A v \in r.versions : v.to # Forever) <= Bound
     /\ db.bike["v1"].unrecorded <= Bound
     /\ Rows("fuel", LAMBDA f : Live(f) /\ f.over /\ ~f.flagged) <= Bound

\* An approved check-in shows the place and time the supervisor approved
\* (attendance.service.ts requestCheckin, decideCheckin): a later request of the
\* day does not change it, except one that came between the look and the tap.
ApprovedAsSeen ==
  \A c \in DOMAIN db.checkin :
    db.checkin[c].status = "approved" => db.checkin[c].judged = db.checkin[c].asked \/ Lost("checkin", c)

\* A figure that was there when it was looked at is written over in two ways only:
\* by a manual correction, which leaves an image of the record and needs an
\* override where the record is authoritative (ops.service.ts ingestDailyRecords),
\* or by a live sync. The backfill of tracker distances writes over none
\* (tracker-ingest.service.ts backfillMissing).
FiguresAreTraced ==
  [][/\ \A d \in DOMAIN db.daily :
          LET was == db.daily[d] IN
          (db'.daily[d] # was /\ Live(was) /\ db'.daily[d].source = "manual") =>
            \/ <<"daily", d>> \in stale'
            \/ \E i \in db.images[d].of : i.row = was /\ (Authoritative(was) => i.forced)
     /\ \A v \in DOMAIN db.distance :
          (Live(db.distance[v]) /\ db'.distance[v] # db.distance[v] /\ db'.distance[v].status = "backfill") =>
            <<"distance", v>> \in stale']_recordVars

\* Nothing is there twice that is looked up as one: a version of a policy for a
\* date, a cohort of a week, a revision of a report (createEfficiencyPolicy,
\* createRevenuePaceProfile, findOrCreateCohort, generateDailyReport), unless two
\* requests overlapped; no constraint of the database says so.
NothingTwice ==
  /\ \A t \in {"policy", "cohort"} : \A k \in DOMAIN db[t] : db[t][k].versions <= 1 \/ Lost(t, k)
  /\ \A a \in DOMAIN db.report : \A r \in DOMAIN db.report[a].of : db.report[a].of[r] <= 1 \/ Lost("report", a)

\* No adjustment is booked on a day that is closed, unless Payments did not
\* answer or closed it meanwhile (ops.service.ts isAccountingPeriodClosed).
ClosedPeriodIsFixed ==
  [][\A d \in DOMAIN db.period :
       (db.period[d].status = "closed" /\ db'.period[d].booked # db.period[d].booked) =>
         \E q \in Requests : Doing(q, "adjust", "write") /\ (Unseen(q) \/ ~at[q].body.heard)]_recordVars

=============================================================================
