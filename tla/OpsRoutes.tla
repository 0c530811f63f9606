------------------------------ MODULE OpsRoutes ------------------------------
(***************************************************************************)
(* Callers of the Ops API and its routes: what a caller is by his roles and *)
(* assignments (apps/ops-api/src/auth.service.ts), and what each route asks *)
(* of him (the four controllers, and the servers of Foundation and Payments).*)
(***************************************************************************)
EXTENDS Naturals, FiniteSets

CONSTANT NoOne \* nobody: the person of a service, a missing supervisor

------------------------------------------------------------------------------
(* Callers *)

Service == [type |-> "service", person |-> NoOne, roles |-> {}, grants |-> {}]
Grant(role, type, id) == [role |-> role, type |-> type, id |-> id]

Refuse(code) == [type |-> "refused", code |-> code]

\* The token is the development token, or Foundation says whose it is.
Authenticate(token, foundationUp, profile) ==
  IF token = "none" THEN Refuse("401")
  ELSE IF token = "development" THEN Service
  ELSE IF ~foundationUp THEN Refuse("503")
  ELSE IF profile.status = "unknown" THEN Refuse("401")
  ELSE IF profile.type = "service" THEN IF profile.opsScope THEN Service ELSE Refuse("403")
  ELSE IF profile.status # "active" THEN Refuse("403")
  ELSE [type |-> "human", person |-> profile.person, roles |-> profile.roles, grants |-> profile.grants]

IsSystemAdmin(actor) == actor.type = "service" \/ actor.roles \cap {"owner", "admin"} # {}
HasAssigned(actor, role) == \E g \in actor.grants : g.role = role

\* Mutant: supervisors by role are forgotten.
MeetsAssigned(actor, need) ==
  \/ need = "any"
  \/ need = "service" /\ actor.type = "service"
  \/ need # "service" /\ IsSystemAdmin(actor)
  \/ need \in {"oversight", "supervisor"} /\ HasAssigned(actor, "manager")
  \/ need \in {"oversight", "finance"} /\ HasAssigned(actor, "finance")
  \/ need = "supervisor" /\ HasAssigned(actor, "supervisor")

Meets(actor, need) ==
  \/ need = "any"
  \/ need = "service" /\ actor.type = "service"
  \/ need # "service" /\ IsSystemAdmin(actor)
  \/ need \in {"oversight", "supervisor"} /\ HasAssigned(actor, "manager")
  \/ need \in {"oversight", "finance"} /\ HasAssigned(actor, "finance")
  \/ need = "supervisor" /\ (HasAssigned(actor, "supervisor") \/ "supervisor" \in actor.roles)

Nothing    == [all |-> FALSE, self |-> {}, own |-> {}, teams |-> {}, amoebas |-> {}, sites |-> {}]
Everything == [Nothing EXCEPT !.all = TRUE]
Named(actor, type) == {g.id : g \in {x \in actor.grants : x.type = type}}
Granted(actor) == [Nothing EXCEPT !.amoebas = Named(actor, "amoeba"), !.sites = Named(actor, "site"),
                                  !.teams = Named(actor, "team")]

\* Mutant: a caller without any assignment is not refused.
HasScopeAlways(actor) == TRUE

HasScope(actor) ==
  IsSystemAdmin(actor) \/ actor.grants # {} \/ actor.roles \cap {"supervisor", "operator"} # {}

DataScope(actor) ==
  IF IsSystemAdmin(actor) \/ Named(actor, "company") # {} THEN Everything
  ELSE IF Granted(actor) # Nothing THEN Granted(actor)
  ELSE IF "supervisor" \in actor.roles THEN [Nothing EXCEPT !.own = {actor.person}]
  ELSE IF "operator" \in actor.roles THEN [Nothing EXCEPT !.self = {actor.person}]
  ELSE Nothing

\* What the services of the vehicles' trackers look at: an own team, named
\* amoebas.  Of teams and sites assigned by name they know nothing.
Narrowed(scope) == ~scope.all /\ scope.own \cup scope.amoebas # {}

------------------------------------------------------------------------------
(* The routes: what the caller must be, whose rows are shown or may be acted *)
(* on, and whether a repeated key is answered from the first answer.         *)

Route(need, rows, keyed, names) ==
  {[name |-> n, need |-> need, rows |-> rows, keyed |-> keyed] : n \in names}
Reads(need, rows, names)  == Route(need, rows, FALSE, names)
Writes(need, rows, names) == Route(need, rows, TRUE, names)

OperatorRoutes ==
  Reads("any", "operators", {"operators"})
  \cup Writes("admin", "all", {"create_operator", "update_operator"})
  \cup Writes("supervisor", "operators", {"reset_pin"})

ImportRoutes ==
  Route("admin", "all", FALSE, {"import_operators", "import_vehicles", "backfill_discover",
    "backfill_platform", "backfill_indrive"})

CashRoutes ==
  Reads("any", "operators", {"operator_cash", "cash_transactions"})
  \cup Reads("oversight", "operators", {"cash_status", "cash_adjustments"})
  \cup Writes("finance", "operators", {"adjust_cash"})
  \cup Writes("service", "all", {"map_account"})

PositionRoutes ==
  Reads("oversight", "all", {"tracker_devices", "tracker_records"})
  \cup Reads("supervisor", "all", {"integration_status", "control_actions"})
  \cup Reads("supervisor", "positions", {"vehicle_positions"})
  \cup Writes("supervisor", "commands", {"control_battery"})
  \cup Writes("admin", "all", {"pull_trackers", "tracker_record"})

MoneyRoutes ==
  Reads("oversight", "operators", {"payment_records", "performance_cash"})
  \cup Writes("finance", "all", {"payment_record", "performance_record"})
  \cup Reads("supervisor", "operators", {"closeouts"})
  \cup Writes("supervisor", "operators", {"close_out"})
  \cup Writes("service", "all", {"cash_transaction"})

AccountRoutes ==
  Writes("admin", "all", {"register_platform", "create_vehicle", "update_vehicle",
    "create_platform_account", "update_platform_account"})
  \cup Reads("admin", "all", {"platform_accounts"})
  \cup Reads("any", "fleet", {"vehicles"})

PolicyRoutes ==
  Reads("any", "all", {"pace_profiles", "economics", "efficiency"})
  \cup Writes("admin", "all", {"create_pace", "update_pace", "create_economics", "create_efficiency"})

FuelRoutes ==
  Reads("any", "operators", {"fuel_issues", "mileage"})
  \cup Writes("supervisor", "operators", {"issue_fuel", "correct_fuel"})

RecordRoutes ==
  Reads("admin", "all", {"ingestion_runs"})
  \cup Writes("admin", "all", {"ingest"})
  \cup Reads("any", "operators", {"daily_performance", "overrides", "amoeba_rollup", "pacing"})

OnboardingRoutes ==
  Reads("any", "all", {"ramp_profiles", "cohorts", "onboarding_settings", "cohort_board", "operator_onboarding"})
  \cup Writes("admin", "all", {"create_ramp", "update_ramp", "create_cohort", "set_onboarding", "add_members"})

TrainingRoutes ==
  Reads("any", "all", {"supervisor_onboardings", "accommodation", "accommodation_units"})
  \cup Writes("admin", "all", {"train_supervisor", "advance_supervisor", "graduate_supervisor",
    "create_unit", "update_unit", "delete_unit"})

ReportRoutes ==
  Reads("any", "operators", {"team_board"})
  \cup Reads("any", "reports", {"daily_reports", "daily_report"})
  \cup Writes("supervisor", "reports", {"generate_report"})
  \cup Writes("admin", "all", {"delete_report"})

HealthRoutes ==
  Reads("admin", "all", {"scheduled_jobs", "job_runs", "notifications"})
  \cup Writes("admin", "all", {"enqueue_job", "complete_job_run"})

AlertRoutes ==
  Reads("any", "operators", {"alerts"})
  \cup Writes("supervisor", "operators", {"acknowledge_alert", "resolve_alert"})

AttendanceRoutes ==
  Reads("any", "register", {"checkins"})
  \cup Reads("admin", "all", {"audit"})
  \cup Writes("any", "own", {"check_in"})
  \cup Writes("supervisor", "register", {"decide_checkin"})

PaperRoutes ==
  Writes("any", "all", {"upload"})
  \cup Writes("any", "documents", {"attach_document"})
  \cup Reads("any", "documents", {"documents"})
  \cup Route("any", "documents", FALSE, {"remove_document"})

DeviationRoutes ==
  Reads("any", "all", {"reason_codes"})
  \cup Writes("any", "operators", {"explain_alert"})
  \cup Writes("supervisor", "operators", {"review_explanation", "escalate_alert"})

IncidentRoutes ==
  Reads("any", "operators", {"incidents"})
  \cup Writes("any", "operators", {"report_incident"})
  \cup Writes("supervisor", "all", {"acknowledge_incident", "edit_incident", "resolve_incident"})

InspectionRoutes ==
  Reads("any", "amoebas", {"inspections", "compliance"})
  \cup Writes("supervisor", "all", {"inspect"})
  \cup Writes("oversight", "all", {"review_inspection"})

UpkeepRoutes ==
  Reads("any", "amoebas", {"maintenance"})
  \cup Writes("any", "all", {"report_maintenance"})
  \cup Writes("supervisor", "all", {"progress_maintenance"})

ProfitRoutes ==
  Reads("oversight", "amoebas", {"expenses", "transfer_prices", "profit"})
  \cup Writes("oversight", "all", {"book_expense", "book_transfer"})

BoardRoutes ==
  Reads("any", "operators", {"leaderboard"})
  \cup Reads("any", "all", {"fleet_policy", "leaderboard_config"})
  \cup Reads("oversight", "amoebas", {"escalations"})
  \cup Writes("admin", "all", {"set_fleet_policy", "set_leaderboard"})
  \cup Writes("supervisor", "all", {"confirm_no_on_demand"})

CustomerRoutes ==
  Reads("supervisor", "all", {"revenue_sources", "customers", "allocated_prices"})
  \cup Writes("admin", "all", {"create_customer", "update_customer", "delete_customer",
    "create_price", "delete_price"})

CourierRoutes ==
  Reads("supervisor", "all", {"couriers", "aliases", "delivery_imports"})
  \cup Writes("supervisor", "all", {"map_courier"})
  \cup Writes("supervisor", "batches", {"import_deliveries"})
  \cup Writes("admin", "all", {"pull_deliveries"})

BatchRoutes ==
  Reads("supervisor", "batches", {"batches"})
  \cup Writes("supervisor", "batches", {"create_batch"})
  \cup Writes("supervisor", "all", {"set_counts", "close_batch", "assign_rider"})

StopRoutes ==
  Writes("any", "own", {"report_progress", "report_stop"})
  \cup Reads("any", "register", {"assignments"})
  \cup Reads("any", "batches", {"stops"})
  \cup Writes("supervisor", "all", {"add_stops", "confirm_assignment"})

ExceptionRoutes ==
  Writes("supervisor", "all", {"raise_exception", "resolve_exception"})
  \cup Reads("supervisor", "batches", {"exceptions", "delivery_summary"})

PointsRoutes ==
  Reads("any", "own", {"my_points"})
  \cup Reads("supervisor", "operators", {"points"})
  \cup Reads("any", "all", {"points_config"})
  \cup Writes("admin", "all", {"set_points"})

\* Foundation asks for an administrator where access is given, Payments for
\* Finance where money is moved.
FoundationRoutes ==
  Reads("any", "all", {"me", "people", "users", "amoebas", "sites", "service_accounts"})
  \cup Writes("any", "all", {"person", "user", "amoeba", "site", "service_account", "service_token"})
  \cup Reads("admin", "all", {"access_grants"})
  \cup Writes("admin", "all", {"access_grant", "user_pin"})

PaymentRoutes ==
  Reads("any", "all", {"accounts", "events", "transactions", "reconciliations", "closes"})
  \cup Writes("any", "all", {"verify", "reconcile"})
  \cup Writes("finance", "all", {"provision", "simulate", "settle", "approve", "close_period"})

Routes ==
  UNION {OperatorRoutes, ImportRoutes, CashRoutes, PositionRoutes, MoneyRoutes, AccountRoutes, PolicyRoutes,
    FuelRoutes, RecordRoutes, OnboardingRoutes, TrainingRoutes, ReportRoutes, HealthRoutes, AlertRoutes,
    AttendanceRoutes, PaperRoutes, DeviationRoutes, IncidentRoutes, InspectionRoutes, UpkeepRoutes,
    ProfitRoutes, BoardRoutes, CustomerRoutes, CourierRoutes, BatchRoutes, StopRoutes, ExceptionRoutes,
    PointsRoutes, FoundationRoutes, PaymentRoutes}

\* Routes that ask for the caller's scope refuse one who has none, and power
\* commands one who has teams or sites only.
Admits(actor, route) ==
  /\ Meets(actor, route.need)
  /\ route.rows \in {"all", "own", "documents"} \/ HasScope(actor)
  /\ route.rows = "commands" => DataScope(actor).all \/ Narrowed(DataScope(actor))

\* And these go by the row once more, though it was shown: a command by the team
\* and amoeba of the rider on the vehicle now (the list is up to 60 s old, and has
\* the vehicle's amoeba), a paper by who leads the amoeba.
MayRefuseRow(actor, route) ==
  \/ route.rows = "commands" /\ ~DataScope(actor).all
  \/ route.rows = "documents" /\ ~IsSystemAdmin(actor)
=============================================================================
