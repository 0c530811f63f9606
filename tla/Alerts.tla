-------------------------------- MODULE Alerts --------------------------------
(***************************************************************************)
(* Operational alerts: the evaluations that raise them (ensureAlert, run by *)
(* alert-watchdog and by fuel issues), the supervisors and managers who act *)
(* on them, and the notices they put into the outbox of module Outbox.      *)
(*                                                                         *)
(* An episode is one value of the unique index idx_ops_alerts_dedup; its    *)
(* alert has one notice to the supervisor and, for an overdue inspection,   *)
(* one to the managers, who are taken together.  Notes are left out, and so *)
(* is "snoozed", which nothing in the code sets.                            *)
(***************************************************************************)
EXTENDS Outbox

CONSTANTS
  Episodes,
  Overdue,      \* the episodes of an overdue inspection
  NoEpisode,
  Watchers,     \* evaluations in progress
  Officers,     \* requests of supervisors and managers
  MaxDeaths     \* bound: deaths of evaluations

ForSupervisor(e) == <<e, "supervisor">>
ForManagers(e)   == <<e, "managers">>

ASSUME AlertsAssumption ==
  /\ Overdue \subseteq Episodes
  /\ NoEpisode \notin Episodes
  /\ MaxDeaths \in Nat
  /\ Notices = {ForSupervisor(e) : e \in Episodes} \cup {ForManagers(e) : e \in Overdue}

VARIABLES
  alert,     \* [Episodes -> AlertStatus], resolution_status
  review,    \* [Episodes -> ReviewStatus], deviation_review_status
  wpc,       \* what each evaluation does next
  raising,   \* [Watchers -> Episodes \cup {NoEpisode}]
  handling,  \* [Officers -> the alert and the operation of the request]
  overtaken, \* history: the requests that had read an alert another has since written
  deaths     \* of evaluations, up to MaxDeaths

alertVars    == <<alert, review>>
evaluateVars == <<wpc, raising, deaths>>
officeVars   == <<handling, overtaken>>
vars == <<alertVars, evaluateVars, officeVars, outboxVars>>

AlertStatus  == {"absent", "open", "acknowledged", "escalated", "resolved"}
ReviewStatus == {"none", "pending", "accepted", "rejected"}
Operations   == {"acknowledge", "resolve", "escalate", "submit", "accept", "reject"}
Nothing      == [episode |-> NoEpisode, operation |-> "none"]

Init ==
  /\ alert = [e \in Episodes |-> "absent"]
  /\ review = [e \in Episodes |-> "none"]
  /\ wpc = [w \in Watchers |-> "idle"]
  /\ raising = [w \in Watchers |-> NoEpisode]
  /\ handling = [o \in Officers |-> Nothing]
  /\ overtaken = {}
  /\ deaths = 0
  /\ OutboxInit

WGoto(w, from, to) == wpc[w] = from /\ wpc' = [wpc EXCEPT ![w] = to]
Done(w) == raising' = [raising EXCEPT ![w] = NoEpisode]

-----------------------------------------------------------------------------
(* ensureAlert, and what evaluateAlerts does with an overdue inspection.    *)

\* The condition of an alert is met and no alert of its episode was found.
Evaluate(w, e) ==
  /\ WGoto(w, "idle", "insert")
  /\ alert[e] = "absent"
  /\ raising' = [raising EXCEPT ![w] = e]
  /\ UNCHANGED <<alertVars, deaths, officeVars, outboxVars>>

Raise(w) ==
  /\ WGoto(w, "insert", "supervisor")
  /\ alert[raising[w]] = "absent"
  /\ alert' = [alert EXCEPT ![raising[w]] = "open"]
  /\ UNCHANGED <<review, raising, deaths, officeVars, outboxVars>>

\* The unique index refuses the second row, and the evaluation throws.
RaisedByAnother(w) ==
  /\ WGoto(w, "insert", "idle")
  /\ alert[raising[w]] # "absent"
  /\ Done(w)
  /\ UNCHANGED <<alertVars, deaths, officeVars, outboxVars>>

\* Mutant: an overdue inspection is announced to the managers only.
TellManagersOnly(w) ==
  LET e == raising[w] IN
  /\ WGoto(w, "supervisor", "idle")
  /\ Queue(IF e \in Overdue THEN ForManagers(e) ELSE ForSupervisor(e))
  /\ Done(w)
  /\ UNCHANGED <<alertVars, deaths, officeVars>>

\* Mutant: the evaluation ends with the notice to the supervisor.
TellSupervisorOnly(w) ==
  /\ WGoto(w, "supervisor", "idle")
  /\ Queue(ForSupervisor(raising[w]))
  /\ Done(w)
  /\ UNCHANGED <<alertVars, deaths, officeVars>>

TellSupervisor(w) ==
  LET e == raising[w] IN
  /\ WGoto(w, "supervisor", IF e \in Overdue THEN "managers" ELSE "idle")
  /\ Queue(ForSupervisor(e))
  /\ IF e \in Overdue THEN UNCHANGED raising ELSE Done(w)
  /\ UNCHANGED <<alertVars, deaths, officeVars>>

TellManagers(w) ==
  /\ WGoto(w, "managers", "idle")
  /\ Queue(ForManagers(raising[w]))
  /\ Done(w)
  /\ UNCHANGED <<alertVars, deaths, officeVars>>

\* The process dies between two statements, or a statement fails.
WatcherDies(w) ==
  /\ wpc[w] # "idle"
  /\ deaths < MaxDeaths
  /\ deaths' = deaths + 1
  /\ wpc' = [wpc EXCEPT ![w] = "idle"]
  /\ Done(w)
  /\ UNCHANGED <<alertVars, officeVars, outboxVars>>

GoesOn(w) == Raise(w) \/ RaisedByAnother(w) \/ TellSupervisor(w) \/ TellManagers(w)

-----------------------------------------------------------------------------
(* acknowledgeAlert, resolveAlert, escalateAlert, submitDeviationReason and *)
(* reviewDeviationReason: each reads the alert, then writes it.             *)

\* Mutant: the state of the alert is not asked for.
MayAlways(operation, e) == alert[e] # "absent"

May(operation, e) ==
  /\ alert[e] # "absent"
  /\ operation = "acknowledge" => alert[e] \in {"open", "escalated"}
  /\ operation \in {"escalate", "submit"} => alert[e] # "resolved"
  /\ operation \in {"accept", "reject"} => review[e] = "pending"

ReadAlert(o) ==
  /\ handling[o] = Nothing
  /\ \E e \in Episodes, op \in Operations :
       /\ May(op, e)
       /\ handling' = [handling EXCEPT ![o] = [episode |-> e, operation |-> op]]
  /\ UNCHANGED <<alertVars, evaluateVars, overtaken, outboxVars>>

\* The columns each operation writes, whatever they hold by then.
NewStatus(operation, status) ==
  CASE operation = "acknowledge" -> "acknowledged"
    [] operation = "resolve"     -> "resolved"
    [] operation = "escalate"    -> "escalated"
    [] operation \in {"submit", "accept", "reject"} -> status

NewReview(operation, status) ==
  CASE operation = "submit" -> "pending"
    [] operation = "accept" -> "accepted"
    [] operation = "reject" -> "rejected"
    [] operation \in {"acknowledge", "resolve", "escalate"} -> status

\* The other requests at work on this alert.
Others(o) ==
  {p \in Officers \ {o} : handling[p].episode = handling[o].episode}

WriteAlert(o) ==
  LET e == handling[o].episode
      op == handling[o].operation
  IN
  /\ handling[o] # Nothing
  /\ alert' = [alert EXCEPT ![e] = NewStatus(op, @)]
  /\ review' = [review EXCEPT ![e] = NewReview(op, @)]
  /\ handling' = [handling EXCEPT ![o] = Nothing]
  /\ overtaken' = (overtaken \cup Others(o)) \ {o}
  /\ UNCHANGED <<evaluateVars, outboxVars>>

Next ==
  \/ \E w \in Watchers :
       GoesOn(w) \/ WatcherDies(w) \/ \E e \in Episodes : Evaluate(w, e)
  \/ \E o \in Officers : ReadAlert(o) \/ WriteAlert(o)
  \/ Dispatch /\ UNCHANGED <<alertVars, evaluateVars, officeVars>>

Spec == Init /\ [][Next]_vars

\* An evaluation goes on once it has begun and the outbox is drained; nobody has
\* to act on an alert.
Fairness ==
  /\ \A w \in Watchers : WF_vars(GoesOn(w))
  /\ \A d \in Dispatchers :
       WF_vars(DispatchStep(d) /\ UNCHANGED <<alertVars, evaluateVars, officeVars>>)
  /\ \A n \in Notices :
       WF_vars(Elapse(n) /\ UNCHANGED <<alertVars, evaluateVars, officeVars>>)
FairSpec == Spec /\ Fairness

-----------------------------------------------------------------------------
TypeOK ==
  /\ alert \in [Episodes -> AlertStatus]
  /\ review \in [Episodes -> ReviewStatus]
  /\ wpc \in [Watchers -> {"idle", "insert", "supervisor", "managers"}]
  /\ raising \in [Watchers -> Episodes \cup {NoEpisode}]
  /\ handling \in [Officers ->
                     {Nothing} \cup [episode : Episodes, operation : Operations]]
  /\ overtaken \subseteq Officers
  /\ deaths \in Nat
  /\ OutboxTypeOK

\* An alert is in the outbox for everybody who has to hear of it, or the
\* evaluation that raised it is about to put it there.
Announced(e) ==
  /\ \/ notice[ForSupervisor(e)] # "absent"
     \/ \E w \in Watchers : raising[w] = e /\ wpc[w] = "supervisor"
  /\ \/ e \notin Overdue
     \/ notice[ForManagers(e)] # "absent"
     \/ \E w \in Watchers : raising[w] = e /\ wpc[w] \in {"supervisor", "managers"}

\* Every death of an evaluation leaves one alert unannounced at most, the one
\* it had just raised; a second evaluation that met the same episode neither
\* repeats nor prevents its notices.
UnannouncedByDeathsOnly ==
  Cardinality({e \in Episodes : alert[e] # "absent" /\ ~Announced(e)}) <= deaths

\* An episode raises one alert: however evaluations overlap and whatever became
\* of the alert, it is never opened a second time (idx_ops_alerts_dedup).
RaisedOnce ==
  [][\A e \in Episodes : alert[e] # "absent" => alert'[e] \notin {"absent", "open"} \/ alert'[e] = alert[e]]_alert

\* A resolved alert stays resolved, and the decision on a deviation reason
\* stands until another reason is submitted, however many officers are at work:
\* only a request that had read the alert before another request wrote it can
\* undo either, each such request once.
DecisionStands ==
  [][\A e \in Episodes :
       \/ \E o \in overtaken : handling[o].episode = e /\ WriteAlert(o)
       \/ /\ alert[e] = "resolved" => alert'[e] = "resolved"
          /\ review[e] \in {"accepted", "rejected"} => review'[e] \in {review[e], "pending"}
    ]_<<alert, review>>

\* The notices an alert takes: the managers hear of an overdue inspection too.
NoticesOf(e) == {ForSupervisor(e)} \cup {ForManagers(e) : x \in Overdue \cap {e}}

\* No evaluation is left that would put this notice into the outbox.
Dropped(e, n) ==
  /\ notice[n] = "absent"
  /\ \A w \in Watchers : raising[w] = e => wpc[w] \notin {"supervisor", "managers"}

\* Whoever has to hear of an alert is told, the supervisor and the managers each,
\* or the outbox gives up on the notice or strands it.  Only the death of an
\* evaluation can lose a notice, and not the overlap of two evaluations.
AlertsAreTold ==
  \A e \in Episodes : \A n \in NoticesOf(e) :
    alert[e] # "absent"
      ~> notice[n] \in {"delivered", "failed"} \/ Stranded(n) \/ (Dropped(e, n) /\ deaths > 0)
=============================================================================
