------------------------------- MODULE Payments -------------------------------
(***************************************************************************)
(* The deposit pipeline of apps/payments-integration/server.mjs together    *)
(* with the cash endpoint of the Ops API it delivers to.                    *)
(*                                                                         *)
(* Every db.query of the service is one autocommit statement, so a request  *)
(* is a sequence of steps, one per statement or HTTP call, and the steps of *)
(* different requests interleave at the awaits.  pc names the statement a   *)
(* request is about to issue.  A request that throws goes back to "idle";   *)
(* what it had already written stays written.                               *)
(***************************************************************************)
EXTENDS Naturals, FiniteSets

CONSTANTS
  Refs,         \* transaction references
  Events,       \* provider event references
  Webhooks,     \* request slots, one per handler that may be in flight;
  Verifies,     \*   a slot may be used again once its request has ended
  Settles,
  Approvals,
  Reconciles,
  Closes,
  RefOf,        \* the transaction a deposit request is about
  EventOf,      \* the provider event a webhook request carries
  WindowOf,     \* the deposits whose paid_at falls in a report's period
  Mapped,       \* references whose account number has a reserved-account row
  Assigned,     \* those whose Ops operator carries that same account number
  Simulated,    \* providerMode = "simulated"
  MaxInFlight,  \* bound: requests in flight at the same time
  MayRestart,   \* whether the payments process may die and come back
  MaxFaults,    \* bound: process deaths, time-outs and provider refusals
  MaxReports,   \* bound: stored reconciliation runs and period closes
  MaxCredits    \* bound: credits are counted up to this number, and no further

DepositRequests == Webhooks \cup Verifies
Transitions     == Settles \cup Approvals
Reports         == Reconciles \cup Closes
Requests        == DepositRequests \cup Transitions \cup Reports

ASSUME ConstantsAssumption ==
  /\ RefOf \in [DepositRequests \cup Transitions -> Refs]
  /\ EventOf \in [Webhooks -> Events]
  /\ \A w, x \in Webhooks : EventOf[w] = EventOf[x] => RefOf[w] = RefOf[x]
  /\ WindowOf \in [Reports -> SUBSET Refs]
  /\ Mapped \subseteq Refs
  /\ Assigned \subseteq Mapped
  /\ Simulated \in BOOLEAN /\ MayRestart \in BOOLEAN
  /\ MaxInFlight \in Nat /\ MaxFaults \in Nat /\ MaxReports \in Nat
  /\ MaxCredits \in Nat \ {0, 1}

ASSUME SlotsAssumption ==
  /\ Webhooks \cap Verifies = {}
  /\ Settles \cap Approvals = {}
  /\ Reconciles \cap Closes = {}
  /\ DepositRequests \cap Transitions = {}
  /\ (DepositRequests \cup Transitions) \cap Reports = {}

-----------------------------------------------------------------------------

(* The columns of payment_deposit_transactions that control flow reads.     *)
DepositStatus == {"matched", "delivered_to_ops", "reconciled", "settled",
                  "finance_approved"}
Absent == "absent"
RowStatus == DepositStatus \cup {Absent}

(* Statuses verifyMatchAndDeliver takes as already delivered, and those the *)
(* reconciliation and close summaries count as reconciled.                  *)
DeliveredStatus  == DepositStatus \ {"matched"}
ReconciledStatus == {"reconciled", "settled", "finance_approved"}

(* provider_payload: the fleximos_balance mark and the fleximos_workflow    *)
(* entries the service merges into the provider's own JSON.                 *)
Workflow == {"settled", "finance_approved"}
Marks    == {"counted"} \cup Workflow

EventStatus == {"absent", "received", "rejected", "quarantined", "delivered"}

WebhookPC  == {"event_lookup", "event_insert", "event_account", "event_quarantine"}
VerifyPC   == {"verify", "find_account", "find_deposit", "insert", "update",
               "reread", "credit", "mark", "deliver", "wait", "delivered",
               "finish"}
PC         == {"idle", "read", "write", "recon_update", "tally", "store"}
                \cup WebhookPC \cup VerifyPC
OpsPC      == {"idle", "cached", "lookup", "insert", "remember", "ok", "failed"}

NoRows == [r \in Refs |-> Absent]
Report == [slot : Reports, snap : [Refs -> RowStatus], opsExceptions : BOOLEAN]

VARIABLES
  status,       \* [Refs -> RowStatus], the status column
  stamps,       \* [Refs -> SUBSET DepositStatus], the *_at columns that are set
  payload,      \* [Refs -> SUBSET Marks], provider_payload
  credited,     \* [Refs -> 0 .. MaxCredits], how often the amount is in the account balance
  event,        \* [Events -> EventStatus], payment_webhook_events
  books,        \* stored reconciliation runs and period closes
  pc,           \* the statement each request issues next
  seenStatus,   \* the status of the row a request read last
  seenPayload,  \* the provider_payload it read last, off the row or the provider
  snap,         \* what a report's SELECT returned
  ledger,       \* Ops: transaction_refs with a row in ops_cash_transactions
  opsKeys,      \* Ops: remembered keys monnify-cash-<ref>
  ops,          \* Ops: the handler of each deposit request's delivery call
  faults        \* faults so far, against MaxFaults

deposits == <<status, stamps, payload, credited>>
locals   == <<seenStatus, seenPayload, snap>>
opsVars  == <<ledger, opsKeys, ops>>
vars     == <<deposits, event, books, pc, locals, opsVars, faults>>

Init ==
  /\ status = [r \in Refs |-> Absent]
  /\ stamps = [r \in Refs |-> {}]
  /\ payload = [r \in Refs |-> {}]
  /\ credited = [r \in Refs |-> 0]
  /\ event = [e \in Events |-> "absent"]
  /\ books = {}
  /\ pc = [q \in Requests |-> "idle"]
  /\ seenStatus = [q \in Requests |-> Absent]
  /\ seenPayload = [q \in Requests |-> {}]
  /\ snap = [q \in Requests |-> NoRows]
  /\ ledger = {}
  /\ opsKeys = {}
  /\ ops = [q \in DepositRequests |-> "idle"]
  /\ faults = 0

Move(q, from, to) == pc[q] = from /\ pc' = [pc EXCEPT ![q] = to]

\* What a request has read is gone when it returns or throws.
Goto(q, from, to) ==
  /\ Move(q, from, to)
  /\ IF to = "idle"
       THEN /\ seenStatus' = [seenStatus EXCEPT ![q] = Absent]
            /\ seenPayload' = [seenPayload EXCEPT ![q] = {}]
            /\ snap' = [snap EXCEPT ![q] = NoRows]
       ELSE UNCHANGED locals

InFlight == {q \in Requests : pc[q] # "idle"}
Start(q, to) == Goto(q, "idle", to) /\ Cardinality(InFlight) < MaxInFlight

Fault == faults < MaxFaults /\ faults' = faults + 1

-----------------------------------------------------------------------------
(* processWebhook.                                                          *)

StartWebhook(q) ==
  /\ ops[q] = "idle"
  /\ Start(q, "event_lookup")
  /\ UNCHANGED <<deposits, event, books, opsVars, faults>>

\* An event reference seen before is answered as a duplicate, whatever became
\* of it.
EventLookup(q) ==
  /\ Goto(q, "event_lookup",
          IF event[EventOf[q]] = "absent" THEN "event_insert" ELSE "idle")
  /\ UNCHANGED <<deposits, event, books, opsVars, faults>>

\* The row is stored as "rejected" when the signature does not match, and the
\* request ends; a row that got in first makes the INSERT fail.
EventInsert(q) ==
  /\ \/ /\ event[EventOf[q]] # "absent"
        /\ Goto(q, "event_insert", "idle")
        /\ UNCHANGED event
     \/ /\ event[EventOf[q]] = "absent"
        /\ \/ /\ Goto(q, "event_insert", "event_account")
              /\ event' = [event EXCEPT ![EventOf[q]] = "received"]
           \/ /\ Goto(q, "event_insert", "idle")
              /\ event' = [event EXCEPT ![EventOf[q]] = "rejected"]
  /\ UNCHANGED <<deposits, books, opsVars, faults>>

\* Unknown account, or a payload without reference, amount or date.
EventAccount(q) ==
  /\ \/ RefOf[q] \in Mapped /\ Goto(q, "event_account", "verify")
     \/ Goto(q, "event_account", "event_quarantine")
  /\ UNCHANGED <<deposits, event, books, opsVars, faults>>

EventQuarantine(q) ==
  /\ Goto(q, "event_quarantine", "idle")
  /\ event' = [event EXCEPT ![EventOf[q]] = "quarantined"]
  /\ UNCHANGED <<deposits, books, opsVars, faults>>

-----------------------------------------------------------------------------
(* verifyMatchAndDeliver, reached from a webhook or from POST .../verify.   *)

StartVerify(q) ==
  /\ ops[q] = "idle"
  /\ Start(q, "verify")
  /\ UNCHANGED <<deposits, event, books, opsVars, faults>>

\* The simulated provider answers from the local row, marks included, or from
\* the webhook's own payload; the real one answers with a payload of its own,
\* which never carries the service's marks.
VerifyPaid(q) ==
  /\ Move(q, "verify", "find_account")
  /\ Simulated /\ status[RefOf[q]] = Absent => q \in Webhooks
  /\ seenPayload' = [seenPayload EXCEPT ![q] =
               IF Simulated /\ status[RefOf[q]] # Absent
                 THEN payload[RefOf[q]] ELSE {}]
  /\ UNCHANGED <<deposits, event, books, seenStatus, snap, opsVars, faults>>

\* A manual verification of a reference the simulator has no row for.
VerifyIncomplete(q) ==
  /\ Simulated /\ status[RefOf[q]] = Absent /\ q \in Verifies
  /\ Goto(q, "verify", "idle")
  /\ UNCHANGED <<deposits, event, books, opsVars, faults>>

\* The provider times out, refuses, or does not report the transaction paid.
VerifyRefused(q) ==
  /\ ~Simulated
  /\ Goto(q, "verify", "idle")
  /\ Fault
  /\ UNCHANGED <<deposits, event, books, opsVars>>

FindAccount(q) ==
  /\ Goto(q, "find_account",
          IF RefOf[q] \in Mapped THEN "find_deposit" ELSE "idle")
  /\ UNCHANGED <<deposits, event, books, opsVars, faults>>

\* Mutant: a reference with a row is a duplicate, and the request ends.
FindDepositOnce(q) ==
  /\ Goto(q, "find_deposit",
          IF status[RefOf[q]] = Absent THEN "insert" ELSE "idle")
  /\ UNCHANGED <<deposits, event, books, opsVars, faults>>

FindDeposit(q) ==
  /\ Goto(q, "find_deposit",
          IF status[RefOf[q]] = Absent THEN "insert" ELSE "update")
  /\ UNCHANGED <<deposits, event, books, opsVars, faults>>

\* transaction_reference is UNIQUE: the second INSERT throws.
InsertDeposit(q) ==
  LET r == RefOf[q] IN
  /\ \/ /\ status[r] # Absent
        /\ Goto(q, "insert", "idle")
        /\ UNCHANGED deposits
     \/ /\ status[r] = Absent
        /\ Goto(q, "insert", "reread")
        /\ status' = [status EXCEPT ![r] = "matched"]
        /\ stamps' = [stamps EXCEPT ![r] = {"matched"}]
        /\ payload' = [payload EXCEPT ![r] = seenPayload[q]]
        /\ UNCHANGED credited
  /\ UNCHANGED <<event, books, opsVars, faults>>

\* Mutant: a second verification starts the row afresh.
UpdateDepositAfresh(q) ==
  LET r == RefOf[q] IN
  /\ Goto(q, "update", "reread")
  /\ stamps' = [stamps EXCEPT ![r] = {"matched"}]
  /\ payload' = [payload EXCEPT ![r] = seenPayload[q]]
  /\ UNCHANGED <<status, credited, event, books, opsVars, faults>>

\* No row is ever written as 'received' or 'verified', so the CASE keeps the
\* status; provider_payload is overwritten with what the provider answered.
UpdateDeposit(q) ==
  LET r == RefOf[q] IN
  /\ Goto(q, "update", "reread")
  /\ stamps' = [stamps EXCEPT ![r] = @ \cup {"matched"}]
  /\ payload' = [payload EXCEPT ![r] = seenPayload[q]]
  /\ UNCHANGED <<status, credited, event, books, opsVars, faults>>

\* Mutant: delivers without passing the balance.
RereadAndDeliver(q) ==
  LET r == RefOf[q] IN
  /\ Move(q, "reread", "deliver")
  /\ seenStatus' = [seenStatus EXCEPT ![q] = status[r]]
  /\ seenPayload' = [seenPayload EXCEPT ![q] = payload[r]]
  /\ UNCHANGED <<deposits, event, books, snap, opsVars, faults>>

Reread(q) ==
  LET r == RefOf[q] IN
  /\ Move(q, "reread", "credit")
  /\ seenStatus' = [seenStatus EXCEPT ![q] = status[r]]
  /\ seenPayload' = [seenPayload EXCEPT ![q] = payload[r]]
  /\ UNCHANGED <<deposits, event, books, snap, opsVars, faults>>

AfterCredit(q) == IF seenStatus[q] \in DeliveredStatus THEN "finish" ELSE "deliver"

\* applyDepositToReservedAccount, first UPDATE: the balance.
Credit(q) ==
  /\ IF "counted" \in seenPayload[q]
       THEN /\ Goto(q, "credit", AfterCredit(q))
            /\ UNCHANGED credited
       ELSE /\ Goto(q, "credit", "mark")
            /\ credited' = [credited EXCEPT ![RefOf[q]] =
                              IF @ < MaxCredits THEN @ + 1 ELSE @]
  /\ UNCHANGED <<status, stamps, payload, event, books, opsVars, faults>>

\* ... second UPDATE: the counted_at mark.
Mark(q) ==
  /\ Goto(q, "mark", AfterCredit(q))
  /\ payload' = [payload EXCEPT ![RefOf[q]] = @ \cup {"counted"}]
  /\ UNCHANGED <<status, stamps, credited, event, books, opsVars, faults>>

\* deliverToOps: POST /ops/v1/cash/transactions with key monnify-cash-<ref>.
Deliver(q) ==
  /\ Goto(q, "deliver", "wait")
  /\ ops' = [ops EXCEPT ![q] = "cached"]
  /\ UNCHANGED <<deposits, event, books, ledger, opsKeys, faults>>

\* Mutant: any answer of Ops is taken for a success.
DeliverReplyUnchecked(q) ==
  /\ ops[q] \in {"ok", "failed"}
  /\ Goto(q, "wait", "delivered")
  /\ ops' = [ops EXCEPT ![q] = "idle"]
  /\ UNCHANGED <<deposits, event, books, ledger, opsKeys, faults>>

DeliverReply(q) ==
  /\ ops[q] \in {"ok", "failed"}
  /\ Goto(q, "wait", IF ops[q] = "ok" THEN "delivered" ELSE "idle")
  /\ ops' = [ops EXCEPT ![q] = "idle"]
  /\ UNCHANGED <<deposits, event, books, ledger, opsKeys, faults>>

\* AbortSignal.timeout: the caller gives up, the Ops handler runs on.
DeliverTimeout(q) ==
  /\ Goto(q, "wait", "idle")
  /\ Fault
  /\ UNCHANGED <<deposits, event, books, opsVars>>

\* The UPDATE names the reference only, not the status it expects.
MarkDelivered(q) ==
  LET r == RefOf[q] IN
  /\ Goto(q, "delivered", "finish")
  /\ status' = [status EXCEPT ![r] = "delivered_to_ops"]
  /\ stamps' = [stamps EXCEPT ![r] = @ \cup {"delivered_to_ops"}]
  /\ UNCHANGED <<payload, credited, event, books, opsVars, faults>>

Finish(q) ==
  /\ Goto(q, "finish", "idle")
  /\ event' = IF q \in Webhooks
                THEN [event EXCEPT ![EventOf[q]] = "delivered"] ELSE event
  /\ UNCHANGED <<deposits, books, opsVars, faults>>

-----------------------------------------------------------------------------
(* The Ops API: mutate around createCashTransaction.                        *)

OpsGoto(q, from, to) == ops[q] = from /\ ops' = [ops EXCEPT ![q] = to]

OpsCached(q) ==
  /\ OpsGoto(q, "cached", IF RefOf[q] \in opsKeys THEN "ok" ELSE "lookup")
  /\ UNCHANGED <<deposits, event, books, pc, locals, ledger, opsKeys, faults>>

\* The account must match the operator's; an existing row is returned as is.
OpsLookup(q) ==
  /\ \/ RefOf[q] \notin Assigned /\ OpsGoto(q, "lookup", "failed")
     \/ RefOf[q] \in Assigned \cap ledger /\ OpsGoto(q, "lookup", "remember")
     \/ RefOf[q] \in Assigned \ ledger /\ OpsGoto(q, "lookup", "insert")
  /\ UNCHANGED <<deposits, event, books, pc, locals, ledger, opsKeys, faults>>

OpsInsert(q) ==
  /\ OpsGoto(q, "insert", IF RefOf[q] \in ledger THEN "failed" ELSE "remember")
  /\ ledger' = ledger \cup {RefOf[q]}
  /\ UNCHANGED <<deposits, event, books, pc, locals, opsKeys, faults>>

OpsRemember(q) ==
  /\ OpsGoto(q, "remember", IF RefOf[q] \in opsKeys THEN "failed" ELSE "ok")
  /\ opsKeys' = opsKeys \cup {RefOf[q]}
  /\ UNCHANGED <<deposits, event, books, pc, locals, ledger, faults>>

\* The answer to a caller that no longer waits is dropped.
OpsDrop(q) ==
  /\ ops[q] \in {"ok", "failed"}
  /\ pc[q] # "wait"
  /\ ops' = [ops EXCEPT ![q] = "idle"]
  /\ UNCHANGED <<deposits, event, books, pc, locals, ledger, opsKeys, faults>>

\* The Ops process dies: every connection to it breaks.
OpsCrash ==
  /\ \E q \in DepositRequests : ops[q] \notin {"idle", "ok", "failed"}
  /\ ops' = [q \in DepositRequests |->
               IF ops[q] \in {"idle", "ok"} THEN ops[q] ELSE "failed"]
  /\ Fault
  /\ UNCHANGED <<deposits, event, books, pc, locals, ledger, opsKeys>>

-----------------------------------------------------------------------------
(* transitionDeposit: POST .../settle and POST .../finance-approve.         *)

TargetOf(q) == IF q \in Settles THEN "settled" ELSE "finance_approved"
AllowedFrom(next) ==
  IF next = "settled" THEN {"reconciled", "settled", "finance_approved"}
                      ELSE {"settled", "finance_approved"}

StartTransition(q) ==
  /\ Start(q, "read")
  /\ UNCHANGED <<deposits, event, books, opsVars, faults>>

ReadDeposit(q) ==
  LET current == status[RefOf[q]]
      changes == current \in AllowedFrom(TargetOf(q)) \ {TargetOf(q), "finance_approved"}
  IN
  /\ \/ /\ changes
        /\ Move(q, "read", "write")
        /\ seenStatus' = [seenStatus EXCEPT ![q] = current]
        /\ seenPayload' = [seenPayload EXCEPT ![q] = payload[RefOf[q]]]
        /\ UNCHANGED snap
     \/ ~changes /\ Goto(q, "read", "idle")
  /\ UNCHANGED <<deposits, event, books, opsVars, faults>>

\* Decided on the row as read, written to the row as it is now.
WriteTransition(q) ==
  LET r == RefOf[q] IN
  /\ Goto(q, "write", "idle")
  /\ status' = [status EXCEPT ![r] = TargetOf(q)]
  /\ stamps' = [stamps EXCEPT ![r] = @ \cup {TargetOf(q)}]
  /\ payload' = [payload EXCEPT ![r] =
       (@ \ Workflow) \cup (seenPayload[q] \cap Workflow) \cup {TargetOf(q)}]
  /\ UNCHANGED <<credited, event, books, opsVars, faults>>

-----------------------------------------------------------------------------
(* POST /reconciliation-runs and POST /accounting-period-closes.            *)

StartReport(q) ==
  /\ Cardinality(books) < MaxReports
  /\ Start(q, IF q \in Reconciles THEN "recon_update" ELSE "tally")
  /\ UNCHANGED <<deposits, event, books, opsVars, faults>>

\* Mutant: reconciles every deposit of the window, delivered or not.
ReconUpdateAll(q) ==
  LET present == {r \in WindowOf[q] : status[r] \in {"matched", "delivered_to_ops"}} IN
  /\ Goto(q, "recon_update", "tally")
  /\ status' = [r \in Refs |-> IF r \in present THEN "reconciled" ELSE status[r]]
  /\ stamps' = [r \in Refs |-> IF r \in present THEN stamps[r] \cup {"reconciled"}
                                                 ELSE stamps[r]]
  /\ UNCHANGED <<payload, credited, event, books, opsVars, faults>>

ReconUpdate(q) ==
  LET delivered == {r \in WindowOf[q] : status[r] = "delivered_to_ops"} IN
  /\ Goto(q, "recon_update", "tally")
  /\ status' = [r \in Refs |-> IF r \in delivered THEN "reconciled" ELSE status[r]]
  /\ stamps' = [r \in Refs |-> IF r \in delivered THEN stamps[r] \cup {"reconciled"}
                                                   ELSE stamps[r]]
  /\ UNCHANGED <<payload, credited, event, books, opsVars, faults>>

Tally(q) ==
  /\ Move(q, "tally", "store")
  /\ snap' = [snap EXCEPT ![q] =
       [r \in Refs |-> IF r \in WindowOf[q] THEN status[r] ELSE Absent]]
  /\ UNCHANGED <<deposits, event, books, seenStatus, seenPayload, opsVars,
                 faults>>

\* A close also carries the exception count the console sends for Ops.
Store(q) ==
  /\ Goto(q, "store", "idle")
  /\ \E x \in IF q \in Closes THEN BOOLEAN ELSE {FALSE} :
       books' = books \cup {[slot |-> q, snap |-> snap[q], opsExceptions |-> x]}
  /\ UNCHANGED <<deposits, event, opsVars, faults>>

-----------------------------------------------------------------------------
\* The payments process dies and comes back: what the requests in flight held
\* is lost, and the start-up UPDATE sets every balance to the sum of the
\* deposits on the account.
Restart ==
  /\ MayRestart
  /\ Fault
  /\ pc' = [q \in Requests |-> "idle"]
  /\ seenStatus' = [q \in Requests |-> Absent]
  /\ seenPayload' = [q \in Requests |-> {}]
  /\ snap' = [q \in Requests |-> NoRows]
  /\ credited' = [r \in Refs |-> IF status[r] = Absent THEN 0 ELSE 1]
  /\ UNCHANGED <<status, stamps, payload, event, books, opsVars>>

WebhookStep(q) ==
  EventLookup(q) \/ EventInsert(q) \/ EventAccount(q) \/ EventQuarantine(q)

VerifyStep(q) ==
  \/ VerifyPaid(q) \/ VerifyIncomplete(q) \/ FindAccount(q) \/ FindDeposit(q)
  \/ InsertDeposit(q) \/ UpdateDeposit(q) \/ Reread(q) \/ Credit(q) \/ Mark(q)
  \/ Deliver(q) \/ DeliverReply(q) \/ MarkDelivered(q) \/ Finish(q)

OpsStep(q) ==
  OpsCached(q) \/ OpsLookup(q) \/ OpsInsert(q) \/ OpsRemember(q) \/ OpsDrop(q)

TransitionStep(q) == ReadDeposit(q) \/ WriteTransition(q)

ReportStep(q) == ReconUpdate(q) \/ Tally(q) \/ Store(q)

Next ==
  \/ \E q \in Webhooks : StartWebhook(q) \/ WebhookStep(q)
  \/ \E q \in Verifies : StartVerify(q)
  \/ \E q \in DepositRequests :
       VerifyStep(q) \/ VerifyRefused(q) \/ DeliverTimeout(q) \/ OpsStep(q)
  \/ \E q \in Transitions : StartTransition(q) \/ TransitionStep(q)
  \/ \E q \in Reports : StartReport(q) \/ ReportStep(q)
  \/ OpsCrash
  \/ Restart

Spec == Init /\ [][Next]_vars

\* Requests in flight are driven by the event loop, one await after another;
\* Finance keeps verifying a deposit that has not reached Ops.  Faults are
\* bounded by MaxFaults, so they stop.
HandlersRun ==
  /\ \A q \in DepositRequests : WF_vars(VerifyStep(q)) /\ WF_vars(OpsStep(q))
  /\ \A q \in Webhooks : WF_vars(WebhookStep(q))
  /\ \A q \in Transitions : WF_vars(TransitionStep(q))
  /\ \A q \in Reports : WF_vars(ReportStep(q))

FairSpec == Spec /\ HandlersRun /\ \A q \in Verifies : SF_vars(StartVerify(q))

-----------------------------------------------------------------------------
TypeOK ==
  /\ status \in [Refs -> RowStatus]
  /\ stamps \in [Refs -> SUBSET DepositStatus]
  /\ payload \in [Refs -> SUBSET Marks]
  /\ credited \in [Refs -> 0 .. MaxCredits]
  /\ event \in [Events -> EventStatus]
  /\ books \in SUBSET Report
  /\ pc \in [Requests -> PC]
  /\ seenStatus \in [Requests -> RowStatus]
  /\ seenPayload \in [Requests -> SUBSET Marks]
  /\ snap \in [Requests -> [Refs -> RowStatus]]
  /\ ledger \in SUBSET Refs
  /\ opsKeys \in SUBSET Refs
  /\ ops \in [DepositRequests -> OpsPC]
  /\ faults \in Nat

\* A deposit the service has ever recorded as delivered (delivered_at is set)
\* is in the Ops cash ledger, whatever time-outs, retries, crashes and
\* concurrent deliveries came in between (deliverToOps, createCashTransaction).
DeliveredIsBooked ==
  \A r \in Refs : "delivered_to_ops" \in stamps[r] => r \in ledger

\* The *_at columns fill up in the order of the documented state sequence:
\* finance_approved_at implies settled_at, implies reconciled_at, implies
\* delivered_at, implies matched_at, although the status a transition was
\* decided on may be stale when it is written (transitionDeposit).
InOrder(r) ==
  /\ "finance_approved" \in stamps[r] => "settled" \in stamps[r]
  /\ "settled" \in stamps[r] => "reconciled" \in stamps[r]
  /\ "reconciled" \in stamps[r] => "delivered_to_ops" \in stamps[r]
  /\ "delivered_to_ops" \in stamps[r] => "matched" \in stamps[r]
StampsInOrder == \A r \in Refs : InOrder(r)

\* No deposit reaches Ops without having been added to the balance of its
\* reserved account (applyDepositToReservedAccount runs before deliverToOps,
\* and a restart recomputes the balance from the deposits).
DeliveredIsCredited ==
  \A r \in Refs : r \in ledger => credited[r] > 0

\* A deposit that a stored reconciliation run or period close counted as
\* reconciled is in the Ops cash ledger and carries reconciled_at.
ReportsAreBacked ==
  \A b \in books : \A r \in Refs :
    b.snap[r] \in ReconciledStatus => r \in ledger /\ "reconciled" \in stamps[r]

\* A webhook event marked delivered stands for a deposit that is in the Ops
\* ledger (processWebhook marks the event last).
DeliveredEventIsBooked ==
  \A w \in Webhooks : event[EventOf[w]] = "delivered" => RefOf[w] \in ledger

\* What the rows say about each other at every moment: the status is one of
\* the stamps, a row exists exactly when it is stamped, and everything Ops
\* booked or remembered and every counted_at mark is about an existing row
\* whose amount is in the balance.
RowAgrees(r) ==
  /\ status[r] = Absent => stamps[r] = {} /\ payload[r] = {} /\ credited[r] = 0
  /\ status[r] # Absent => {status[r], "matched"} \subseteq stamps[r]
  /\ "counted" \in payload[r] => credited[r] > 0
  /\ r \in ledger => credited[r] > 0
RowsAgree == (\A r \in Refs : RowAgrees(r)) /\ opsKeys \subseteq ledger

\* What a request in flight may rely on at each statement, although other
\* requests write between its read and its write and the caller of an Ops
\* handler may have given up: by the time the balance is passed the deposit is
\* counted, by the time the answer of Ops is acted on it is booked, and the
\* row a transition was decided on had been through the stage before.
DepositFacts(q) == LET r == RefOf[q] IN
  /\ "counted" \in seenPayload[q] => credited[r] > 0
  /\ pc[q] \in {"update", "reread", "credit"} => status[r] # Absent
  /\ pc[q] \in {"mark", "deliver", "wait", "delivered", "finish"} => credited[r] > 0
  /\ pc[q] = "delivered" => r \in ledger
  /\ pc[q] = "finish" => "delivered_to_ops" \in stamps[r]
  /\ seenStatus[q] \in DeliveredStatus => "delivered_to_ops" \in stamps[r]
  /\ ops[q] # "idle" => credited[r] > 0
  /\ ops[q] \in {"remember", "ok"} => r \in ledger
TransitionFacts(q) ==
  pc[q] = "write" =>
    (IF q \in Settles THEN "reconciled" ELSE "settled") \in stamps[RefOf[q]]
ReportFacts(q) ==
  \A r \in Refs : snap[q][r] \in ReconciledStatus => "reconciled" \in stamps[r]
RequestsRelyOnFacts ==
  /\ \A q \in DepositRequests : DepositFacts(q)
  /\ \A q \in Transitions : TransitionFacts(q)
  /\ \A q \in Reports : ReportFacts(q)

\* The inductive invariant of PaymentsProofs.
IInv ==
  /\ TypeOK
  /\ RowsAgree
  /\ StampsInOrder
  /\ DeliveredIsBooked
  /\ RequestsRelyOnFacts
  /\ ReportsAreBacked
  /\ DeliveredEventIsBooked

\* The current balance contains each deposit at most once.
CountedOnce == \A r \in Refs : credited[r] <= 1

\* Once a deposit row exists for an account both services know, and Finance
\* keeps verifying, the deposit is delivered to Ops.
DepositsReachOps ==
  \A v \in Verifies :
    RefOf[v] \in Assigned =>
      (status[RefOf[v]] # Absent ~> "delivered_to_ops" \in stamps[RefOf[v]])

-----------------------------------------------------------------------------
\* What the deposits go through, by the columns that are never cleared: the
\* abstract lifecycle this module implements.
StageOf(r) ==
  IF "finance_approved" \in stamps[r] THEN 6
  ELSE IF "settled" \in stamps[r] THEN 5
  ELSE IF "reconciled" \in stamps[r] THEN 4
  ELSE IF "delivered_to_ops" \in stamps[r] THEN 3
  ELSE IF r \in ledger THEN 2
  ELSE IF "matched" \in stamps[r] THEN 1
  ELSE 0

Lifecycle == INSTANCE DepositLifecycle WITH stage <- [r \in Refs |-> StageOf(r)]
ImplementsLifecycle == Lifecycle!Spec
=============================================================================
