------------------------------- MODULE Books -------------------------------
(***************************************************************************)
(* The records the office keeps (ops.service, depth.service,                *)
(* onboarding.service): daily figures of a platform and their corrections,  *)
(* cash adjustments and closeouts, daily reports, dated policies, shared    *)
(* settings, fuel, expenses, transfers, platforms.  Amounts are kept where  *)
(* a property compares them; texts and validations of format are left out.  *)
(***************************************************************************)
EXTENDS Handlers

CONSTANTS
  Figures,    \* what a day may amount to
  Shares,     \* what a weight of the leaderboard may be
  Whole,      \* what the weights add up to
  LastRevision \* bound: revisions of a report

ASSUME BooksAssumption ==
  Figures \subseteq Nat /\ Shares \subseteq Nat /\ Whole \in Nat /\ LastRevision \in Nat \ {0}

Kept == [status |-> "kept"]
NoVersion == [status |-> "kept", versions |-> 0]

DailyTables ==
  [daily |-> [d \in {"day"} |-> Absent],
   images |-> [d \in {"day"} |-> [status |-> "kept", of |-> {}]],
   runs |-> [r \in {"running"} |-> [status |-> "kept", open |-> 0]]]
CashTables ==
  [period |-> [d \in {"day"} |-> [status |-> "open", booked |-> 0]], closeout |-> [d \in {"day"} |-> Absent]]
ReportTable ==
  [report |-> [a \in {"company", "amoeba"} |-> [status |-> "kept", of |-> [r \in 1..LastRevision |-> IF r = 1 THEN 1 ELSE 0]]]]
PolicyTables ==
  [policy |-> [p \in {"pace", "efficiency"} |-> NoVersion], cohort |-> [c \in {"week"} |-> NoVersion],
   fuel |-> [f \in {"f1"} |-> Absent]]
SettingTables ==
  [weights |-> [w \in {"board"} |-> [acceptance |-> Whole, online |-> 0, cash |-> 0]],
   terms |-> [t \in {"fleet", "pace", "platform", "ramp"} |-> [first |-> 0, second |-> 0]]]
EntryTables ==
  [total |-> [t \in {"payments", "performance", "ondemand"} |-> Absent],
   entry |-> [e \in {"transfer", "registration", "expense", "economics", "platform"} |-> Absent]]
AccountTable == [account |-> [o \in {"o1", "o2"} |-> [status |-> "none"]]]

BooksTables == {DailyTables, CashTables, ReportTable, PolicyTables, SettingTables, EntryTables, AccountTable}

-----------------------------------------------------------------------------
(* Daily figures.                                                           *)

Corrections == [source : {"manual"}, override : BOOLEAN] \cup [source : {"manual"}, override : BOOLEAN, trips : Figures]
Syncs == [source : {"live"}, trips : Figures]
Authoritative(row) == Live(row) /\ row.quality = "authoritative"

\* Mutant: the override is not asked for.
RefusesNothing(row, body) == FALSE

\* A correction of an authoritative record needs an override and its reason.
Refuses(row, body) == body.source = "manual" /\ Authoritative(row) /\ ~body.override

\* A manual correction that names no quality makes the record derived.
Figure(read, body) ==
  [status |-> "kept", source |-> body.source,
   trips |-> Given(body, "trips", IF Live(read) THEN read.trips ELSE 0),
   quality |-> IF body.source = "manual" THEN "derived" ELSE IF Live(read) THEN read.quality ELSE "authoritative"]

\* ingestDailyRecords for one record: the run is opened, the record of the day
\* read and judged; a correction keeps an image of what it read; the record is
\* written over; the run is closed.  A refused record is an error of the run.
IngestDailyRecords(q) ==
  \/ \E d \in DOMAIN db.daily, body \in Corrections \cup Syncs :
       /\ Enter(q, "ingest", "daily", d, body,
                IF Refuses(db.daily[d], body) THEN "failed"
                ELSE IF body.source = "manual" /\ Live(db.daily[d]) THEN "image" ELSE "overwrite")
       /\ db' = [db EXCEPT !.runs["running"].open = @ + 1]
  \/ /\ Doing(q, "ingest", "image")
     /\ Pass(q, [db EXCEPT !.images[at[q].key].of = @ \cup {[row |-> Read(q), forced |-> Authoritative(Read(q)) /\ at[q].body.override]}],
             "overwrite")
  \/ Doing(q, "ingest", "overwrite") /\ Store(q, Figure(Read(q), at[q].body), "close")
  \/ /\ at[q].op = "ingest" /\ at[q].do \in {"close", "failed"}
     /\ Pass(q, [db EXCEPT !.runs["running"].open = @ - 1], IF at[q].do = "close" THEN "audit" ELSE "end")

-----------------------------------------------------------------------------
(* Cash.                                                                     *)

\* Payments closes a day (outside this service).
ClosePeriod ==
  /\ "adjust" \in focus
  /\ \E d \in DOMAIN db.period :
       db.period[d].status = "open" /\ db' = [db EXCEPT !.period[d].status = "closed"]
  /\ UNCHANGED <<focus, at, begun, stale, untold, cut, restarts>>

\* Mutant: the period is not asked for.
AdjustAnyDay(row, body) == TRUE

\* isAccountingPeriodClosed: an error or a late answer counts as open.
OpenAsFarAsKnown(row, body) == body.heard => row.status = "open"

CreateCashAdjustment(q) ==
  LET New(read, row, body) == [row EXCEPT !.booked = @ + 1]
  IN Handler(q, "adjust", "period", [heard : BOOLEAN], OpenAsFarAsKnown, New)

\* createDailyCloseout: the cash of the day is summed up, then written; one
\* closeout a day, amoeba and supervisor, the last one stands.
CreateDailyCloseout(q) ==
  \/ \E d \in DOMAIN db.closeout : Begin(q, "closeout", "closeout", d, [cash |-> db.period[d].booked])
  \/ Doing(q, "closeout", "write") /\ Put(q, [status |-> "submitted", cash |-> at[q].body.cash], "audit")

\* One total for what it is about, replaced by the next.
Total(q, op, key) ==
  \/ \E amount \in Figures : Begin(q, op, "total", key, [amount |-> amount])
  \/ Doing(q, op, "write") /\ Put(q, [status |-> "kept", amount |-> at[q].body.amount], "audit")

UpsertPaymentRecord(q) == Total(q, "payment_record", "payments")
UpsertPerformanceCashRecord(q) == Total(q, "performance_record", "performance")
ConfirmNoOnDemand(q) == Total(q, "no_on_demand", "ondemand")

-----------------------------------------------------------------------------
(* Daily reports.                                                           *)

Revisions(row) == {r \in DOMAIN row.of : row.of[r] > 0}

\* Mutant: the reports are counted.
NextRevisionCounted(row) == Cardinality(Revisions(row)) + 1

\* MAX(revision) + 1 of the row read.
NextRevision(row) == Max(Revisions(row) \cup {0}) + 1

\* generateDailyReport; the unique constraint leaves out reports of no amoeba.
GenerateDailyReport(q) ==
  \/ \E a \in DOMAIN db.report :
       NextRevision(db.report[a]) <= LastRevision /\ Begin(q, "generate", "report", a, <<>>)
  \/ /\ Doing(q, "generate", "write")
     /\ LET next == NextRevision(Read(q)) IN
        IF at[q].key # "company" /\ next \in Revisions(Current(q)) THEN Throw(q)
        ELSE Store(q, [Current(q) EXCEPT !.of[next] = @ + 1], "audit")

\* deleteDailyReport: one that was there when it was looked up.
DeleteDailyReport(q) ==
  \/ \E a \in DOMAIN db.report : \E r \in Revisions(db.report[a]) : Begin(q, "ungenerate", "report", a, [revision |-> r])
  \/ /\ Doing(q, "ungenerate", "write")
     /\ Store(q, [Current(q) EXCEPT !.of[at[q].body.revision] = IF @ = 0 THEN 0 ELSE @ - 1], "audit")

-----------------------------------------------------------------------------
(* Dated policies and cohorts: looked up, then corrected in place or added;  *)
(* no constraint keeps a second one out.                                     *)

Version(q, op, table, key) ==
  \/ Begin(q, op, table, key, <<>>)
  \/ /\ Doing(q, op, "write")
     /\ Store(q, [Current(q) EXCEPT !.versions = IF Read(q).versions = 0 THEN @ + 1 ELSE @], "audit")

CreateRevenuePaceProfile(q) == Version(q, "pace", "policy", "pace")
CreateEfficiencyPolicy(q) == Version(q, "efficiency", "policy", "efficiency")
FindOrCreateCohort(q) == Version(q, "cohort", "cohort", "week")

-----------------------------------------------------------------------------
(* Shared settings: read, merged with what the caller names, written whole. *)

Some(fields, values) == UNION {[named -> values] : named \in SUBSET fields \ {{}}}
Merged(read, body) == [f \in DOMAIN read |-> Given(body, f, read[f])]
Total3(row) == FoldFunction(+, 0, row)

\* updateLeaderboardConfig: the weights, named or read, add up.
UpdateLeaderboardConfig(q) ==
  LET May(row, body) == Total3(Merged(row, body)) = Whole
      New(read, row, body) == Merged(read, body)
  IN Handler(q, "weights", "weights", Some({"acceptance", "online", "cash"}, Shares), May, New)

Terms(q, op, key) ==
  \/ \E body \in Some({"first", "second"}, {1}) : Begin(q, op, "terms", key, body)
  \/ Doing(q, op, "write") /\ Store(q, Merged(Read(q), at[q].body), "audit")

UpdateFleetPolicy(q) == Terms(q, "fleet_terms", "fleet")
UpdateRevenuePaceProfile(q) == Terms(q, "pace_terms", "pace")
UpdatePlatformAccount(q) == Terms(q, "platform_terms", "platform")
UpdateRampProfile(q) == Terms(q, "ramp_terms", "ramp")

-----------------------------------------------------------------------------
(* Fuel: the record, the audit entry, the alert of a price over the policy. *)

Dear == [status |-> "kept", over |-> TRUE, flagged |-> FALSE]

\* The audit entry, then the alert.
Flag(q, op) ==
  \/ Doing(q, op, "tell") /\ Tell(q, "flag")
  \/ /\ Doing(q, op, "flag")
     /\ Pass(q, IF at[q].body.over THEN [db EXCEPT !.fuel[at[q].key].flagged = TRUE] ELSE db, "end")

CreateFuelIssue(q) ==
  \/ \E f \in DOMAIN db.fuel, over \in BOOLEAN : Begin(q, "fuel", "fuel", f, [over |-> over])
  \/ /\ Doing(q, "fuel", "write")
     /\ IF Live(Current(q)) THEN Throw(q)
        ELSE Put(q, [status |-> "kept", over |-> at[q].body.over, flagged |-> FALSE], "tell")
  \/ Flag(q, "fuel")

\* Mutant: the price is compared only when the fuel is issued.
UpdateFuelIssueUnflagged(q) ==
  \/ \E f \in DOMAIN db.fuel, over \in BOOLEAN : Live(db.fuel[f]) /\ Begin(q, "fuel_cost", "fuel", f, [over |-> over])
  \/ Doing(q, "fuel_cost", "write") /\ Put(q, [Current(q) EXCEPT !.over = at[q].body.over], "audit")

UpdateFuelIssue(q) ==
  \/ \E f \in DOMAIN db.fuel, over \in BOOLEAN : Live(db.fuel[f]) /\ Begin(q, "fuel_cost", "fuel", f, [over |-> over])
  \/ Doing(q, "fuel_cost", "write") /\ Put(q, [Current(q) EXCEPT !.over = at[q].body.over], "tell")
  \/ Flag(q, "fuel_cost")

-----------------------------------------------------------------------------
(* Entries.                                                                 *)

\* An entry under an id made for it.
NewEntry(q, op) ==
  \/ Unused("entry", op) /\ Begin(q, op, "entry", op, <<>>)
  \/ Doing(q, op, "write") /\ Put(q, Kept, "audit")

CreateExpense(q) == NewEntry(q, "expense")
CreateEconomicsPolicy(q) == NewEntry(q, "economics")
CreatePlatformAccount(q) == NewEntry(q, "platform")

\* An entry under a name of the world's: a constraint refuses the second.
NamedEntry(q, op) ==
  \/ Begin(q, op, "entry", op, <<>>)
  \/ Doing(q, op, "write") /\ IF Live(Current(q)) THEN Throw(q) ELSE Put(q, Kept, "audit")

RegisterPlatform(q) == NamedEntry(q, "registration")

\* createTransferPriceEvent: an event that is known is the answer.
CreateTransferPriceEvent(q) ==
  (at[q] = Idle => ~Live(db.entry["transfer"])) /\ NamedEntry(q, "transfer")

\* assignMonnifyAccount: no other operator has it, then or when it is written.
AssignMonnifyAccount(q) ==
  LET Others(o) == {db.account[p].status : p \in DOMAIN db.account \ {o}}
  IN \/ \E o \in DOMAIN db.account, n \in {"a", "b"} :
          n \notin Others(o) /\ Begin(q, "account", "account", o, [number |-> n])
     \/ /\ Doing(q, "account", "write")
        /\ IF at[q].body.number \in Others(at[q].key) THEN Throw(q)
           ELSE Put(q, [status |-> at[q].body.number], "audit")

BooksNext ==
  \/ ClosePeriod
  \/ \E q \in Requests :
       \/ IngestDailyRecords(q) \/ CreateCashAdjustment(q) \/ CreateDailyCloseout(q)
       \/ UpsertPaymentRecord(q) \/ UpsertPerformanceCashRecord(q) \/ ConfirmNoOnDemand(q)
       \/ GenerateDailyReport(q) \/ DeleteDailyReport(q)
       \/ CreateRevenuePaceProfile(q) \/ CreateEfficiencyPolicy(q) \/ FindOrCreateCohort(q)
       \/ UpdateLeaderboardConfig(q) \/ UpdateFleetPolicy(q) \/ UpdateRevenuePaceProfile(q)
       \/ UpdatePlatformAccount(q) \/ UpdateRampProfile(q)
       \/ CreateFuelIssue(q) \/ UpdateFuelIssue(q)
       \/ CreateTransferPriceEvent(q) \/ RegisterPlatform(q) \/ CreateExpense(q)
       \/ CreateEconomicsPolicy(q) \/ CreatePlatformAccount(q) \/ AssignMonnifyAccount(q)
=============================================================================
