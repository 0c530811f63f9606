------------------------------ MODULE Consoles ------------------------------
(***************************************************************************)
(* The browser consoles and the operator PWA (apps/*/assets/app.js).  Each  *)
(* keeps a selection (date boxes, a row picked for a dialog), loads what it *)
(* shows in several requests, and sends what a button or form says.  All of *)
(* it runs in one page, where handlers interleave at every await: two loads *)
(* overlap, a dialog is opened while an answer is outstanding.              *)
(*                                                                         *)
(* The machine is the same for every console; the tables below say what a   *)
(* console and each of its handlers do.  One handler is watched at a time.  *)
(***************************************************************************)
EXTENDS OpsRoutes

CONSTANTS
  Watched,   \* the consoles looked at
  Audience,  \* [Watched -> profiles of the people the console is for]
  Things,    \* the days of the boxes, and the rows to act on: numbers from 1
  WithData,  \* sets of the days that may have data
  MaxLoads,  \* bound: neither user nor clock starts one more load than these
  MaxTaps,   \* bound: handlers started
  MaxFaults  \* bound: calls without an answer

------------------------------------------------------------------------------
(* What a handler does *)

\* A form: a fresh Idempotency-Key per call, everything read when it is
\* submitted, its button inactive until the next render, all loaded again.
Form == [
  key |-> "fresh",    \* the key is of the row, of what is selected late, or none is sent
  reads |-> "tap",    \* late: what it acts on is looked up after an await
  lock |-> "submit",  \* row: a button of the row; own: until the handler ends; render: until a render; none
  clear |-> "none",   \* a dialog forgets the row picked first, at the answer or at the end
  reload |-> "all",   \* kept: the range is not clamped; part: some lists; none
  waits |-> FALSE,    \* uploads or other calls come before the request
  day |-> FALSE,      \* acts on the date selected
  once |-> FALSE]     \* not offered for a row that is shown as done

Button == [Form EXCEPT !.lock = "none"]
Own    == [Form EXCEPT !.lock = "own"]
Row    == [Form EXCEPT !.lock = "row"]
Dialog == [Form EXCEPT !.lock = "none", !.clear = "end"]

Does(how, routes) == [how |-> how, routes |-> routes]

\* ops-console/assets/app.js
DecideCheckin    == Does(Button, {"decide_checkin"})
RunDeliveryImport == Does(Own, {"import_deliveries"})
MapCourier       == Does([Button EXCEPT !.reload = "part"], {"map_courier"})
IncidentForm     == Does([Form EXCEPT !.waits = TRUE], {"upload", "report_incident"})
ControlDialog    == Does([Dialog EXCEPT !.clear = "first"], {"control_battery"})
FuelIssueForm    == Does([Form EXCEPT !.day = TRUE], {"issue_fuel"})
ReceiptDialog    == Does([Dialog EXCEPT !.clear = "first", !.waits = TRUE], {"attach_document", "correct_fuel"})
BatchForm        == Does([Form EXCEPT !.day = TRUE], {"create_batch"})
ResetRiderPin    == Does([Row EXCEPT !.reload = "none"], {"reset_pin"})
ReviewButtons    == Does(Button, {"review_explanation", "progress_maintenance"})
AssignButtons    == Does(Button, {"assign_rider", "report_progress"})
ExceptionButton  == Does([Button EXCEPT !.waits = TRUE], {"upload", "raise_exception"})
ConfirmButtons   == Does(Button, {"resolve_exception", "confirm_assignment"})
ConfirmNoDemand  == Does([Button EXCEPT !.day = TRUE], {"confirm_no_on_demand"})
ManifestButton   == Does(Button, {"add_stops"})
CloseBatchButton == Does(Button, {"close_batch"})
CloseoutButton   == Does([Row EXCEPT !.day = TRUE], {"close_out"})
CockpitDialog    == Does(Dialog, {"acknowledge_alert", "resolve_alert", "escalate_alert",
                                  "acknowledge_incident", "resolve_incident"})
UploadForms      == Does([Form EXCEPT !.waits = TRUE], {"upload", "inspect", "report_maintenance"})

\* ops-admin-console/assets/app.js
RosterForms      == Does(Form, {"create_operator", "create_vehicle"})
PolicyForms      == Does(Form, {"create_pace", "create_efficiency", "create_economics", "set_fleet_policy",
                                "set_leaderboard"})
RevenueForm      == Does(Form, {"create_customer", "create_platform_account"})
DeletePrice      == Does(Button, {"delete_price"})
CustomerButtons  == Does(Button, {"delete_customer", "update_customer"})
PriceForm        == Does(Form, {"create_price"})
OnboardingForms  == Does(Form, {"create_ramp", "set_onboarding", "add_members", "train_supervisor"})
PhaseButtons     == Does(Button, {"advance_supervisor", "graduate_supervisor"})
AdminReportForm  == Does([Form EXCEPT !.day = TRUE], {"generate_report"})
CorrectionForm   == Does([Form EXCEPT !.waits = TRUE], {"ingest"})
PullButton       == Does([Form EXCEPT !.lock = "render"], {"pull_trackers"})
SnapshotButton   == Does(Button, {"delete_report"})
ReplayButton     == Does([Button EXCEPT !.day = TRUE], {"enqueue_job"})
SaveRiderButton  == Does(Button, {"update_operator"})
PlatformForm     == Does(Form, {"register_platform"})
DocumentForm     == Does([Form EXCEPT !.waits = TRUE, !.reload = "part"], {"attach_document"})
DocumentButton   == Does([Button EXCEPT !.reload = "part"], {"remove_document"})
ImportButtons    == Does([Own EXCEPT !.key = "none", !.waits = TRUE], {"import_operators", "import_vehicles"})
DiscoverButton   == Does([Button EXCEPT !.key = "none", !.waits = TRUE, !.reload = "none"], {"backfill_discover"})
MapRiderButton   == Does([Row EXCEPT !.reload = "none"], {"register_platform"})
BackfillButtons  == Does([Own EXCEPT !.key = "none", !.waits = TRUE], {"backfill_indrive", "backfill_platform"})
AdminDialog      == Does(Dialog, {"acknowledge_alert", "resolve_alert"})

\* finance-console/assets/app.js
AdjustmentForm   == Does([Form EXCEPT !.day = TRUE], {"adjust_cash"})
PaymentForm      == Does(Form, {"payment_record"})
PaymentCsv       == Does([Button EXCEPT !.waits = TRUE, !.reload = "kept"], {"payment_record"})
PerformanceCsv   == Does([Button EXCEPT !.waits = TRUE, !.reload = "kept"], {"performance_record"})
SandboxAccount   == Does([Button EXCEPT !.key = "row"], {"provision"})
SandboxDeposit   == Does([Button EXCEPT !.waits = TRUE], {"simulate", "reconcile"})
ClosePeriod      == Does([Button EXCEPT !.key = "late", !.waits = TRUE, !.day = TRUE, !.once = TRUE],
                         {"reconcile", "settle", "approve", "close_period"})

\* manager-console/assets/app.js
ManagerReportForm == Does([Form EXCEPT !.day = TRUE], {"generate_report"})
ManagerDialog    == Does(Dialog, {"acknowledge_alert", "resolve_alert", "acknowledge_incident", "resolve_incident"})
ExpenseForm      == Does([Form EXCEPT !.reload = "part"], {"book_expense"})

\* hr-admin-console/assets/app.js
PointsForm       == Does([Own EXCEPT !.reload = "part"], {"set_points"})
CreateForms      == Does(Own, {"person", "user", "access_grant", "amoeba", "site", "service_account"})
SaveButtons      == Does(Row, {"person", "user", "access_grant", "amoeba", "site"})
LifecycleDialog  == Does(Dialog, {"person", "user", "access_grant", "amoeba", "site"})
PinDialog        == Does([Dialog EXCEPT !.reload = "none"], {"user_pin"})
TokenButton      == Does([Button EXCEPT !.reload = "none"], {"service_token"})

\* operator-pwa/assets/app.js
CheckinButton    == Does([Row EXCEPT !.waits = TRUE, !.reload = "part"], {"check_in"})
RouteButtons     == Does(Button, {"report_progress"})
ArrivedButton    == Does(Button, {"report_stop"})
DeliveredDialog  == Does([Dialog EXCEPT !.waits = TRUE, !.reads = "late"], {"upload", "report_stop"})
FailedDialog     == DeliveredDialog
SupportDialog    == Does([Button EXCEPT !.waits = TRUE], {"upload", "report_incident"})
ExplainDialog    == Does([Dialog EXCEPT !.clear = "answer"], {"explain_alert"})
BreakdownForm    == Does([Button EXCEPT !.waits = TRUE, !.reload = "none"], {"upload", "report_maintenance"})

------------------------------------------------------------------------------
(* The consoles: which loads overtake each other, when the range selected is *)
(* replaced by the last day with data, and the reads none of which may fail. *)

Base == [ticket |-> FALSE,  \* a load overtaken by a later one is dropped
         early |-> FALSE,   \* the date acted on changes before the rows do
         clamp |-> "first", \* only at the first load; always; never; no boxes
         forgives |-> FALSE] \* a load that fails does not fail the handler

Console(base, hard, handlers) == [base |-> base, hard |-> hard, handlers |-> handlers]

OpsConsole ==
  Console(Base,
    {"people", "operators", "daily_performance", "team_board", "alerts", "fuel_issues", "mileage", "incidents",
     "inspections", "compliance", "maintenance", "vehicles"},
    {DecideCheckin, RunDeliveryImport, MapCourier, IncidentForm, ControlDialog, FuelIssueForm, ReceiptDialog,
     BatchForm, ResetRiderPin, ReviewButtons, AssignButtons, ExceptionButton, ConfirmButtons, ConfirmNoDemand,
     ManifestButton, CloseBatchButton, CloseoutButton, CockpitDialog, UploadForms})

OpsAdminConsole ==
  Console(Base,
    {"people", "amoebas", "sites", "operators", "vehicles", "platform_accounts", "alerts", "daily_performance",
     "pace_profiles", "economics", "efficiency", "scheduled_jobs", "job_runs", "notifications", "team_board",
     "ingestion_runs", "daily_reports"},
    {RosterForms, PolicyForms, RevenueForm, DeletePrice, CustomerButtons, PriceForm, OnboardingForms, PhaseButtons,
     AdminReportForm, CorrectionForm, PullButton, SnapshotButton, ReplayButton, SaveRiderButton, PlatformForm,
     DocumentForm, DocumentButton, ImportButtons, DiscoverButton, MapRiderButton, BackfillButtons, AdminDialog})

FinanceConsole ==
  Console([Base EXCEPT !.ticket = TRUE, !.clamp = "always"],
    {"people", "amoebas", "operators", "daily_performance", "mileage", "cash_status", "cash_adjustments", "closeouts"},
    {AdjustmentForm, PaymentForm, PaymentCsv, PerformanceCsv, SandboxAccount, SandboxDeposit, ClosePeriod})

ManagerConsole ==
  Console([Base EXCEPT !.early = TRUE],
    {"people", "amoebas", "operators", "daily_performance", "team_board", "alerts", "daily_reports", "escalations",
     "profit", "expenses", "leaderboard"},
    {ManagerReportForm, ManagerDialog, ExpenseForm})

HrConsole ==
  Console([Base EXCEPT !.clamp = "no_boxes", !.forgives = TRUE],
    {"people", "users", "access_grants", "amoebas", "sites", "service_accounts"},
    {PointsForm, CreateForms, SaveButtons, LifecycleDialog, PinDialog, TokenButton})

OperatorApp ==
  Console([Base EXCEPT !.clamp = "never"],
    {"me", "operators", "team_board", "daily_performance", "alerts", "mileage"},
    {CheckinButton, RouteButtons, ArrivedButton, DeliveredDialog, FailedDialog, SupportDialog, ExplainDialog,
     BreakdownForm})

\* Analytics only shows.
AnalyticsConsole ==
  Console([Base EXCEPT !.early = TRUE, !.clamp = "always"],
    {"people", "amoebas", "operators", "daily_performance", "economics", "team_board", "alerts", "cash_status"},
    {Does(Button, {})})

ConsoleOf(name) ==
  IF name = "ops" THEN OpsConsole ELSE IF name = "ops_admin" THEN OpsAdminConsole
  ELSE IF name = "finance" THEN FinanceConsole ELSE IF name = "manager" THEN ManagerConsole
  ELSE IF name = "hr" THEN HrConsole ELSE IF name = "operator" THEN OperatorApp ELSE AnalyticsConsole

\* In the finance console some handlers leave writing to Finance, others do not ask.
CanFinanceMutate(actor) == IsSystemAdmin(actor) \/ HasAssigned(actor, "finance")
Offers(handler, actor) ==
  handler \in {AdjustmentForm, SandboxAccount, SandboxDeposit, ClosePeriod} => CanFinanceMutate(actor)

RoutesNamed(names) == {r \in Routes : r.name \in names}

ASSUME EveryNameIsARoute ==
  \A name \in Watched : \A handler \in ConsoleOf(name).handlers :
    \A n \in ConsoleOf(name).hard \cup handler.routes : \E r \in Routes : r.name = n

\* Who a console is for (the role guides and acceptance tests).
MeantFor(name, actor) ==
  \/ IsSystemAdmin(actor)
  \/ name = "operator" /\ "operator" \in actor.roles
  \/ name = "ops" /\ (\/ HasAssigned(actor, "manager") \/ HasAssigned(actor, "supervisor")
                       \/ "supervisor" \in actor.roles)
  \/ name \in {"manager", "finance", "analytics"} /\ HasAssigned(actor, "manager")
  \/ name \in {"finance", "analytics"} /\ HasAssigned(actor, "finance")

\* They are logged in, and Foundation answers.
Viewers(name) == {Authenticate("session", TRUE, profile) : profile \in Audience[name]}

ASSUME ConsolesAssumption ==
  /\ Things \subseteq Nat \ {0}
  /\ \A name \in Watched : \A viewer \in Viewers(name) : viewer.type = "human" /\ MeantFor(name, viewer)

\* Where a console and the API disagree: the finance console reads the daily
\* closeouts, for supervisors and managers, before it shows anything, and three of
\* its handlers leave the refusal to the API; the ops console offers the power and
\* the receipt of every vehicle and fuel issue it shows.
Gap(name, handler, actor) ==
  \/ name = "finance" /\ ~Meets(actor, "supervisor")
  \/ name = "finance" /\ handler \in {PaymentForm, PaymentCsv, PerformanceCsv} /\ ~CanFinanceMutate(actor)
  \/ name = "ops" /\ handler = ControlDialog /\ ~DataScope(actor).all
  \/ name = "ops" /\ handler = ReceiptDialog /\ ~IsSystemAdmin(actor)

\* What of a console, a handler and a viewer makes a difference.
Look(name, handler, viewer) ==
  [base   |-> ConsoleOf(name).base, how |-> handler.how,
   keyed  |-> \A r \in RoutesNamed(handler.routes) : r.keyed,
   opens  |-> \A r \in RoutesNamed(ConsoleOf(name).hard) : Admits(viewer, r),
   acts   |-> handler.routes # {} /\ (name = "finance" => Offers(handler, viewer)),
   allows |-> \A r \in RoutesNamed(handler.routes) : Admits(viewer, r),
   denies |-> \E r \in RoutesNamed(handler.routes) : ~Admits(viewer, r) \/ MayRefuseRow(viewer, r),
   gap    |-> Gap(name, handler, viewer)]

Looks ==
  UNION {{Look(name, handler, viewer) : handler \in ConsoleOf(name).handlers, viewer \in Viewers(name)} :
           name \in Watched}

------------------------------------------------------------------------------
(* One page *)

VARIABLES
  look,     \* the console, the handler and the viewer watched
  data,     \* the days that have data
  boxes,    \* the day in the date boxes
  day,      \* state.operatingDate
  loads,    \* loads under way
  issued,   \* refreshSequence: loads begun
  shown,    \* the day and the rows on the screen
  open,     \* the row a dialog is open for
  pick,     \* the variable that holds it
  taps,     \* handlers under way
  tapped,   \* handlers begun
  locked,   \* rows whose button is inactive
  answered, \* Idempotency-Keys the API has remembered
  hits,     \* what the API has done, for each row
  told,     \* rows the user has been told are done
  marks,    \* what has happened on the way
  faults

vars == <<look, data, boxes, day, loads, issued, shown, open, pick, taps, tapped, locked, answered, hits, told,
          marks, faults>>
page == <<look, data>>

Nobody == 0 \* no row, or no handler
Untouched == [x \in Things |-> 0]
Latest == CHOOSE d \in data : \A e \in data : e <= d

Load(kind, by) ==
  [ticket |-> issued + 1, kind |-> kind, by |-> by, at |-> IF kind = "part" THEN "read" ELSE "range",
   range |-> day, rows |-> Untouched]

Init ==
  /\ look \in Looks /\ data \in WithData
  /\ boxes = 1 /\ day = 1
  /\ issued = 1 /\ hits = Untouched
  /\ loads = {[ticket |-> 1, kind |-> "first", by |-> Nobody, at |-> "range", range |-> 1, rows |-> Untouched]}
  /\ shown = [range |-> Nobody, rows |-> Untouched]
  /\ open = Nobody /\ pick = Nobody
  /\ taps = {} /\ tapped = 0 /\ locked = {}
  /\ answered = {} /\ told = {} /\ marks = {} /\ faults = 0

\* Loading

Begin(kind, by) == issued' = issued + 1 /\ loads' = loads \cup {Load(kind, by)}

Overtaken(l) == IF ~look.base.ticket /\ l.ticket < issued THEN {"overtaken"} ELSE {}
Current(l) == look.base.ticket => l.ticket = issued

\* The refresh button, the 20 s of ops-console, the 15 s of the operator's check-in.
Refresh ==
  /\ issued < MaxLoads /\ Begin("all", Nobody)
  /\ UNCHANGED <<page, boxes, day, shown, open, pick, taps, tapped, locked, answered, hits, told, marks, faults>>

\* A change of a date box loads at once.
Select(d) ==
  /\ issued < MaxLoads /\ look.base.clamp # "no_boxes" /\ d # boxes
  /\ boxes' = d /\ Begin("all", Nobody)
  /\ UNCHANGED <<page, day, shown, open, pick, taps, tapped, locked, answered, hits, told, marks, faults>>

MayClamp(l) ==
  \/ look.base.clamp = "always" /\ l.kind # "kept"
  \/ look.base.clamp = "first" /\ l.kind = "first"

\* The first answers are there: the boxes are read, or put to the latest day with data.
FixRange(l) ==
  /\ l.at = "range" /\ Current(l)
  /\ LET range == IF MayClamp(l) /\ boxes \notin data THEN Latest ELSE boxes IN
     /\ boxes' = range
     /\ day' = IF look.base.early THEN range ELSE day
     /\ loads' = (loads \ {l}) \cup {[l EXCEPT !.at = "read", !.range = range]}
  /\ marks' = marks \cup Overtaken(l)
  /\ UNCHANGED <<page, issued, shown, open, pick, taps, tapped, locked, answered, hits, told, faults>>

\* The API reads the rows.
ReadRows(l) ==
  /\ l.at = "read" /\ look.opens
  /\ loads' = (loads \ {l}) \cup {[l EXCEPT !.at = "show", !.rows = hits]}
  /\ UNCHANGED <<page, boxes, day, issued, shown, open, pick, taps, tapped, locked, answered, hits, told, marks, faults>>

By(l) == {t \in taps : t.id = l.by}

\* Mutant: a dialog that forgets its row first forgets the next one at the end too.
FinishForgetting(ts, well) ==
  /\ taps' = taps \ ts
  /\ told' = IF well THEN told \cup {t.want : t \in ts} ELSE told
  /\ pick' = IF ts # {} THEN Nobody ELSE pick

\* A handler ends; if all went well it says so.
Finish(ts, well) ==
  /\ taps' = taps \ ts
  /\ told' = IF well THEN told \cup {t.want : t \in ts} ELSE told
  /\ pick' = IF ts # {} /\ look.how.clear = "end" THEN Nobody ELSE pick

AfterEnd(ts) ==
  IF ts = {} \/ look.how.lock \in {"none", "render"} THEN locked
  ELSE IF look.how.lock = "row" THEN locked \ {t.want : t \in ts} ELSE {}

\* A render makes the buttons new; a handler other than its own is still under way.
Rendered == look.how.lock \in {"submit", "row", "render"}
Unlocking(ts) == IF locked # {} /\ taps # ts THEN {"unlocked"} ELSE {}

\* Mutant: a load overtaken by a later one is shown.
ShowRowsLate(l) ==
  /\ l.at = "show"
  /\ shown' = IF l.kind = "part" THEN shown ELSE [range |-> l.range, rows |-> l.rows]
  /\ day' = IF look.base.early \/ l.kind = "part" THEN day ELSE l.range
  /\ loads' = loads \ {l}
  /\ Finish(By(l), TRUE)
  /\ locked' = IF Rendered THEN {} ELSE AfterEnd(By(l))
  /\ marks' = marks \cup Overtaken(l) \cup (IF Rendered THEN Unlocking(By(l)) ELSE {})
  /\ UNCHANGED <<page, boxes, issued, open, tapped, answered, hits, faults>>

ShowRows(l) ==
  /\ l.at = "show" /\ Current(l)
  /\ shown' = IF l.kind = "part" THEN shown ELSE [range |-> l.range, rows |-> l.rows]
  /\ day' = IF look.base.early \/ l.kind = "part" THEN day ELSE l.range
  /\ loads' = loads \ {l}
  /\ Finish(By(l), TRUE)
  /\ locked' = IF Rendered THEN {} ELSE AfterEnd(By(l))
  /\ marks' = marks \cup Overtaken(l) \cup (IF Rendered THEN Unlocking(By(l)) ELSE {})
  /\ UNCHANGED <<page, boxes, issued, open, tapped, answered, hits, faults>>

\* A load that has been overtaken returns where it looks at its ticket.
DropLoad(l) ==
  /\ l.at \in {"range", "show"} /\ ~Current(l)
  /\ loads' = loads \ {l} /\ UNCHANGED day
  /\ Finish(By(l), TRUE) /\ locked' = AfterEnd(By(l))
  /\ UNCHANGED <<page, boxes, issued, shown, open, tapped, answered, hits, marks, faults>>

\* The error notice unlocks the forms.
Freeing(ts) == IF look.how.lock = "submit" THEN Unlocking(ts) ELSE {}

\* A read is refused or gets no answer.
FailLoad(l) ==
  /\ \/ l.at = "read" /\ ~look.opens /\ marks' = marks \cup {"refused"} \cup Freeing(By(l)) /\ UNCHANGED faults
     \/ l.at \in {"range", "read"} /\ faults < MaxFaults /\ faults' = faults + 1
        /\ marks' = marks \cup Freeing(By(l))
  /\ loads' = loads \ {l} /\ UNCHANGED day
  /\ Finish(By(l), look.base.forgives)
  /\ locked' = IF look.how.lock = "submit" THEN {} ELSE AfterEnd(By(l))
  /\ UNCHANGED <<page, boxes, issued, shown, open, tapped, answered, hits>>

------------------------------------------------------------------------------
(* Handlers *)

\* Mutant: no button goes inactive.
LockingNothing(x) == {}

\* The buttons that go inactive when x is acted on.
Locking(x) ==
  IF look.how.lock = "none" THEN {} ELSE IF look.how.lock = "row" THEN {x} ELSE Things

\* Mutant: what a request acts on is looked up in the page when it is sent.
MeantLate(t) == IF look.how.clear = "none" THEN t.want ELSE pick

\* The row a request acts on: the one meant, or the one the page has by now.
Meant(t) == IF look.how.reads = "late" THEN pick ELSE t.want

KeyRow(x) == IF look.how.key = "row" THEN x ELSE IF look.how.key = "late" THEN day ELSE Nobody

Asked(t) == [t EXCEPT !.at = "sent", !.names = Meant(t), !.key = KeyRow(t.want)]

Started(x) == [id |-> tapped + 1, want |-> x, names |-> x, key |-> Nobody, at |-> "before"]

\* A handler runs up to its first await: the request, or what comes before it.
Start(x) ==
  /\ tapped < MaxTaps /\ tapped' = tapped + 1
  /\ taps' = taps \cup {IF look.how.waits THEN Started(x) ELSE Asked(Started(x))}
  /\ locked' = locked \cup Locking(x)

\* A button or a form. Nobody repeats what he was told is done.
Tap(x) ==
  /\ look.acts /\ look.how.clear = "none" /\ shown.range # Nobody
  /\ x \notin locked /\ x \notin told
  /\ look.how.day => x = day
  /\ look.how.once => shown.rows[x] = 0
  /\ Start(x)
  /\ UNCHANGED <<page, boxes, day, loads, issued, shown, open, pick, answered, hits, told, marks, faults>>

\* A dialog is opened for a row: nothing but an open dialog keeps the user from the next one.
Open(x) ==
  /\ look.acts /\ look.how.clear # "none" /\ shown.range # Nobody
  /\ open = Nobody /\ x \notin told /\ tapped < MaxTaps
  /\ open' = x /\ pick' = x
  /\ UNCHANGED <<page, boxes, day, loads, issued, shown, taps, tapped, locked, answered, hits, told, marks, faults>>

Cancel ==
  /\ open # Nobody /\ open' = Nobody
  /\ UNCHANGED <<page, boxes, day, loads, issued, shown, pick, taps, tapped, locked, answered, hits, told, marks, faults>>

\* A dialog confirmed does nothing when its row has been forgotten meanwhile.
Confirm ==
  /\ open # Nobody /\ open' = Nobody
  /\ \/ pick = Nobody /\ marks' = marks \cup {"dropped"} /\ UNCHANGED <<pick, taps, tapped, locked>>
     \/ /\ pick # Nobody /\ Start(open) /\ UNCHANGED marks
        /\ pick' = IF look.how.clear = "first" THEN Nobody ELSE pick
  /\ UNCHANGED <<page, boxes, day, loads, issued, shown, answered, hits, told, faults>>

\* A handler fails: its error notice unlocks the forms.
Fail(t) ==
  /\ Finish({t}, FALSE)
  /\ locked' = IF look.how.lock = "submit" THEN {} ELSE AfterEnd({t})
  /\ UNCHANGED <<page, boxes, day, loads, issued, shown, open, tapped>>

\* The uploads are through. Nothing is done when the row has been forgotten.
Send(t) ==
  /\ t.at = "before"
  /\ \/ /\ Meant(t) # Nobody /\ taps' = (taps \ {t}) \cup {Asked(t)}
        /\ UNCHANGED <<page, boxes, day, loads, issued, shown, open, pick, tapped, locked, told, marks>>
     \/ Meant(t) = Nobody /\ Fail(t) /\ marks' = marks \cup Freeing({t})
  /\ UNCHANGED <<answered, hits, faults>>

\* The API does it, or answers a key it remembers from the first answer.
Effect(t) ==
  /\ t.at = "sent" /\ look.allows
  /\ hits' = IF t.key \in answered THEN hits ELSE [hits EXCEPT ![t.names] = @ + 1]
  /\ answered' = IF look.keyed /\ t.key # Nobody THEN answered \cup {t.key} ELSE answered
  /\ taps' = (taps \ {t}) \cup {[t EXCEPT !.at = "answered"]}
  /\ UNCHANGED <<page, boxes, day, loads, issued, shown, open, pick, tapped, locked, told, marks, faults>>

Refused(t) ==
  /\ t.at = "sent" /\ look.denies
  /\ Fail(t) /\ marks' = marks \cup {"refused"} \cup Freeing({t})
  /\ UNCHANGED <<answered, hits, faults>>

\* No answer, whether or not it was done.
Lose(t) ==
  /\ t.at # "loading" /\ faults < MaxFaults /\ faults' = faults + 1
  /\ Fail(t) /\ marks' = marks \cup Freeing({t})
  /\ UNCHANGED <<answered, hits>>

\* The answer: the handler loads again, or is done. A file of payments selects its own dates.
Reply(t) ==
  /\ t.at = "answered"
  /\ \/ /\ look.how.reload = "none" /\ Finish({t}, TRUE) /\ locked' = AfterEnd({t})
        /\ UNCHANGED <<boxes, loads, issued>>
     \/ /\ look.how.reload # "none" /\ Begin(look.how.reload, t.id)
        /\ taps' = (taps \ {t}) \cup {[t EXCEPT !.at = "loading"]}
        /\ boxes' = IF look.how.reload = "kept" THEN t.names ELSE boxes
        /\ pick' = IF look.how.clear = "answer" THEN Nobody ELSE pick
        /\ UNCHANGED <<told, locked>>
  /\ UNCHANGED <<page, day, shown, open, tapped, answered, hits, marks, faults>>

\* 15 s after the submit a form is active again.
Timeout ==
  /\ look.how.lock = "submit" /\ locked # {} /\ locked' = {}
  /\ marks' = marks \cup Unlocking({})
  /\ UNCHANGED <<page, boxes, day, loads, issued, shown, open, pick, taps, tapped, answered, hits, told, faults>>

Next ==
  \/ Refresh \/ Cancel \/ Confirm \/ Timeout
  \/ \E x \in Things : Select(x) \/ Tap(x) \/ Open(x)
  \/ \E l \in loads : FixRange(l) \/ ReadRows(l) \/ ShowRows(l) \/ DropLoad(l) \/ FailLoad(l)
  \/ \E t \in taps : Send(t) \/ Effect(t) \/ Refused(t) \/ Lose(t) \/ Reply(t)

Spec == Init /\ [][Next]_vars

------------------------------------------------------------------------------
(* Properties *)

AtRest == loads = {} /\ taps = {}

\* When all has come to rest the screen shows the range in the boxes, the date
\* acted on is the one selected, and what the API has done is on the screen:
\* unless a call failed, or, in a console that does not count its loads
\* (refreshSequence), a load was overtaken by a later one.
ScreenAgrees ==
  AtRest /\ faults = 0 /\ marks \cap {"overtaken", "refused"} = {} =>
    /\ shown.range = boxes /\ day = boxes
    /\ look.how.reload \in {"all", "kept"} => shown.rows = hits

\* What has an Idempotency-Key of its row is done once whatever happens. What
\* goes inactive when it is sent is done once unless a call got no answer or
\* its button was made active early: by the 15 s of the double-submit guard or
\* by a render that another load or handler caused.
SavedOnce ==
  \A x \in Things : hits[x] > 1 =>
    /\ look.how.key # "row"
    /\ look.how.lock # "none" => faults > 0 \/ "unlocked" \in marks

\* What the user has been told is done is done, to the row he meant, however
\* many dialogs and handlers were open at once; not so where the row
\* (activeStopId of the PWA) or the key (the close of a period) is read late.
ToldIsDone ==
  look.how.reads = "tap" /\ look.how.key # "late" => \A x \in told : hits[x] > 0

\* A confirmed dialog acts, whatever else is under way, when its handler
\* forgets the row before its first await.
NothingDropped == "dropped" \in marks => look.how.clear # "first"

\* A console opens for the people it is for, and offers them nothing that the
\* API then refuses them for who they are: but for the payment forms of the
\* finance console, which a manager is offered too, and which as a whole does
\* not open for somebody of Finance alone; and for power commands and receipts.
ConsoleWorks == "refused" \in marks => look.gap
=============================================================================
