------------------------------ MODULE FieldWork ------------------------------
(***************************************************************************)
(* What riders, supervisors and managers report from the field              *)
(* (depth.service, attendance.service, onboarding.service,                  *)
(* tracker-ingest.service): incidents, inspections, repairs, daily          *)
(* check-ins, supervisors learning the work, ramp profiles, documents,      *)
(* tracker distances and remote power.  Texts, coordinates, kinds of        *)
(* incident and file formats are left out.                                  *)
(***************************************************************************)
EXTENDS Handlers

CONSTANTS
  Costs, NoCost,   \* amounts of money, and none recorded
  Days,            \* days a ramp profile may start on, 1 to a last one
  Forever          \* effective_to IS NULL

ASSUME DaysAssumption == Days \subseteq Nat \ {0} /\ \A d \in Days : d < Forever

Costing == [cost : Costs] \cup {<<>>}
Existing(row, body) == Live(row)

ReportTables ==
  [incident |-> [i \in {"i1"} |-> Absent], inspection |-> [i \in {"n1"} |-> Absent], repair |-> [i \in {"m1"} |-> Absent]]
CheckinTable == [checkin |-> [c \in {"today"} |-> Absent]]
OnboardingTables ==
  [trainee |-> [s \in {"s1"} |-> Absent],
   ramp |-> [c \in {"rider"} |-> [status |-> "kept", versions |-> {[n |-> 1, from |-> 1, to |-> Forever]}]]]
DocumentTable == [document |-> [d \in {"d1"} |-> Absent]]
BikeTable == [bike |-> [v \in {"v1"} |-> [status |-> "on", seen |-> "still", unrecorded |-> 0]]]
DistanceTable == [distance |-> [v \in {"v1"} |-> Absent]]

FieldTables == {ReportTables, CheckinTable, OnboardingTables, DocumentTable, BikeTable, DistanceTable}

-----------------------------------------------------------------------------
(* Incidents.                                                               *)

\* createIncident: the row, the notice to the supervisor if the operator has one, the
\* audit entry. An incident nobody has to be told of counts as told.
CreateIncident(q) ==
  \/ \E i \in DOMAIN db.incident, body \in Costing :
       Unused("incident", i) /\ Begin(q, "incident", "incident", i, body)
  \/ /\ Doing(q, "incident", "write")
     /\ \E told \in BOOLEAN :
          Put(q, [status |-> "open", cost |-> Given(at[q].body, "cost", NoCost), told |-> told],
              IF told THEN "audit" ELSE "notice")
  \/ /\ Doing(q, "incident", "notice")
     /\ Pass(q, [db EXCEPT !.incident[at[q].key].told = TRUE], "audit")

\* Mutant: the status is not looked at.
AcknowledgeIncidentAlways(q) ==
  LET New(read, row, body) == [row EXCEPT !.status = "acknowledged"]
  IN Handler(q, "acknowledge", "incident", {<<>>}, Existing, New)

AcknowledgeIncident(q) ==
  LET May(row, body) == row.status = "open"
      New(read, row, body) == [row EXCEPT !.status = "acknowledged"]
  IN Handler(q, "acknowledge", "incident", {<<>>}, May, New)

\* Mutant: a cost that is not named is cleared.
UpdateIncidentDetailsAnew(q) ==
  LET New(read, row, body) == [row EXCEPT !.cost = Given(body, "cost", NoCost)]
  IN Handler(q, "details", "incident", Costing, Existing, New)

\* updateIncidentDetails writes back the cost it has read.
UpdateIncidentDetails(q) ==
  LET New(read, row, body) == [row EXCEPT !.cost = Given(body, "cost", read.cost)]
  IN Handler(q, "details", "incident", Costing, Existing, New)

ResolveIncident(q) ==
  LET May(row, body) == Live(row) /\ row.status # "resolved"
      New(read, row, body) == [row EXCEPT !.status = "resolved", !.cost = Given(body, "cost", read.cost)]
  IN Handler(q, "resolve", "incident", Costing, May, New)

-----------------------------------------------------------------------------
(* Inspections and repairs.                                                 *)

\* A report under a key of its own.
Report(q, op, table, bodies, New(_)) ==
  \/ \E key \in DOMAIN db[table], body \in bodies : Unused(table, key) /\ Begin(q, op, table, key, body)
  \/ Doing(q, op, "write") /\ Put(q, New(at[q].body), "audit")

CreateInspection(q) ==
  LET New(body) == [status |-> IF body.condition = "ok" THEN "not_required" ELSE "pending"]
  IN Report(q, "inspect", "inspection", [condition : {"ok", "needs_repair"}], New)

ReviewInspection(q) ==
  LET May(row, body) == row.status = "pending"
      New(read, row, body) == [status |-> body.decision]
  IN Handler(q, "review", "inspection", [decision : {"approved", "follow_up"}], May, New)

CreateMaintenanceReport(q) ==
  LET New(body) == [status |-> "open", cost |-> NoCost]
  IN Report(q, "repair", "repair", {<<>>}, New)

\* updateMaintenanceStatus: any status may follow any other.
UpdateMaintenanceStatus(q) ==
  LET New(read, row, body) == [status |-> body.status, cost |-> Given(body, "cost", read.cost)]
  IN Handler(q, "progress", "repair",
             [status : {"open", "in_repair", "resolved"}]
               \cup [status : {"resolved"}, cost : Costs], Existing, New)

-----------------------------------------------------------------------------
(* Daily check-ins.                                                          *)

\* geofence: inside or outside a site's radius; unknown without coordinates, or
\* when the cached list of sites is empty or stale.
Fences == {"inside", "outside", "unknown"}

\* Mutant: a new request shows its place and keeps the decision.
RequestCheckinKeeps(q) ==
  LET New(row, body) ==
        IF Live(row) THEN [row EXCEPT !.fence = body.fence, !.asked = 3 - @]
        ELSE [status |-> "pending", fence |-> body.fence, asked |-> 1, judged |-> 0]
  IN Upsert(q, "checkin", "checkin", [fence : Fences], New)

\* requestCheckin: an approved row is left as it is; asked tells a request from
\* the one before it, judged the one a decision was about.
RequestCheckin(q) ==
  LET New(row, body) ==
        IF row.status = "approved" THEN row
        ELSE [status |-> "pending", fence |-> body.fence,
              asked |-> IF Live(row) THEN 3 - row.asked ELSE 1, judged |-> 0]
  IN Upsert(q, "checkin", "checkin", [fence : Fences], New)

\* decideCheckin, from the supervisor's look at the list to the UPDATE, which
\* looks at no status.
DecideCheckin(q) ==
  LET New(read, row, body) == [row EXCEPT !.status = body.decision, !.judged = read.asked]
  IN Handler(q, "decide", "checkin", [decision : {"approved", "rejected"}], Existing, New)

-----------------------------------------------------------------------------
(* Supervisors learning the work, and ramp profiles.                        *)

CreateSupervisorOnboarding(q) ==
  LET New(body) == [status |-> "active", phase |-> "scheduled_assist"]
  IN Report(q, "train", "trainee", {<<>>}, New)

AdvanceSupervisorPhase(q) ==
  LET May(row, body) == row.status = "active"
      New(read, row, body) == [row EXCEPT !.phase = body.phase]
  IN Handler(q, "advance", "trainee", [phase : {"scheduled_assist", "on_demand_assist"}], May, New)

GraduateSupervisor(q) ==
  LET May(row, body) == row.status = "active"
      New(read, row, body) == [status |-> "graduated", phase |-> "graduated"]
  IN Handler(q, "graduate", "trainee", {<<>>}, May, New)

\* createRampProfile: the UPDATE closes the versions that started before, the
\* INSERT comes after it.
CreateRampProfile(q) ==
  \/ \E c \in DOMAIN db.ramp, d \in Days : Begin(q, "ramp", "ramp", c, [from |-> d])
  \/ /\ Doing(q, "ramp", "write")
     /\ LET from == at[q].body.from
            Closed(v) == IF v.to = Forever /\ v.from < from THEN [v EXCEPT !.to = from - 1] ELSE v
        IN Put(q, [Current(q) EXCEPT !.versions = {Closed(v) : v \in @}], "insert")
  \/ /\ Doing(q, "ramp", "insert")
     /\ Pass(q, [db EXCEPT !.ramp[at[q].key].versions =
                   @ \cup {[n |-> Cardinality(@) + 1, from |-> at[q].body.from, to |-> Forever]}], "audit")

-----------------------------------------------------------------------------
(* Documents: the bytes, the media row, the link.                           *)

\* createDocument with persistMedia; the store may refuse the bytes.
CreateDocument(q) ==
  \/ \E d \in DOMAIN db.document : Unused("document", d) /\ Begin(q, "document", "document", d, <<>>)
  \/ Doing(q, "document", "write") /\ (Throw(q) \/ Put(q, [status |-> "stored"], "media"))
  \/ Doing(q, "document", "media") /\ Pass(q, [db EXCEPT !.document[at[q].key].status = "media"], "link")
  \/ Doing(q, "document", "link") /\ Pass(q, [db EXCEPT !.document[at[q].key].status = "linked"], "audit")

\* deleteDocument: the link is no longer active; the bytes stay.
DeleteDocument(q) ==
  LET May(row, body) == row.status = "linked"
      New(read, row, body) == [status |-> "hidden"]
  IN Handler(q, "undocument", "document", {<<>>}, May, New)

-----------------------------------------------------------------------------
(* Trackers: daily distances and remote power.                              *)

\* upsertRecord for ingestDaily and manualRecord: the day's figure replaces
\* what is there.
UpsertRecord(q) ==
  LET New(row, body) == [status |-> body.source]
  IN Upsert(q, "capture", "distance", [source : {"live", "manual"}], New)

\* backfillMissing: days without a record when the records were listed, before
\* the vendor was asked.
BackfillMissing(q) ==
  LET May(row, body) == ~Live(row)
      New(read, row, body) == [status |-> "backfill"]
  IN Handler(q, "backfill", "distance", {<<>>}, May, New)

\* What the vendor last reported of a bike: riding, still, or nothing of the
\* last ten minutes.
Ride ==
  /\ "power" \in focus
  /\ \E v \in DOMAIN db.bike, seen \in {"riding", "still", "old"} :
       db.bike[v].seen # seen /\ db' = [db EXCEPT !.bike[v].seen = seen]
  /\ UNCHANGED <<focus, at, begun, stale, untold, cut, restarts>>

\* controlBattery: the movement check, the command to the vendor, the record of
\* it, the audit entry.  The command is out before the record is written; a
\* vendor's error ends the request.
ControlBattery(q) ==
  \/ \E v \in DOMAIN db.bike, stolen \in BOOLEAN, status \in {"on", "off"} :
       /\ status = "on" \/ stolen \/ db.bike[v].seen # "riding"
       /\ Begin(q, "power", "bike", v, [status |-> status])
  \/ /\ Doing(q, "power", "write")
     /\ \/ Throw(q)
        \/ Put(q, [Current(q) EXCEPT !.status = at[q].body.status, !.unrecorded = @ + 1], "record")
  \/ Doing(q, "power", "record") /\ Pass(q, [db EXCEPT !.bike[at[q].key].unrecorded = @ - 1], "audit")

FieldWorkNext ==
  \/ Ride
  \/ \E q \in Requests :
       \/ CreateIncident(q) \/ AcknowledgeIncident(q) \/ UpdateIncidentDetails(q) \/ ResolveIncident(q)
       \/ CreateInspection(q) \/ ReviewInspection(q)
       \/ CreateMaintenanceReport(q) \/ UpdateMaintenanceStatus(q)
       \/ RequestCheckin(q) \/ DecideCheckin(q)
       \/ CreateSupervisorOnboarding(q) \/ AdvanceSupervisorPhase(q) \/ GraduateSupervisor(q)
       \/ CreateRampProfile(q)
       \/ CreateDocument(q) \/ DeleteDocument(q)
       \/ UpsertRecord(q) \/ BackfillMissing(q) \/ ControlBattery(q)
=============================================================================
