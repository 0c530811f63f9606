---------------------------- MODULE PaymentsProofs ----------------------------
(***************************************************************************)
(* Proofs about Payments, for any set of transactions, events and requests  *)
(* and any bounds.                                                          *)
(***************************************************************************)
EXTENDS Payments, TLAPS

\* The empty table is a table, whatever the references.
LEMMA NoRowsType == NoRows \in [Refs -> RowStatus]
  BY DEF NoRows, RowStatus

\* Moving a request on keeps the types of pc and of what requests have read.
LEMMA GotoType ==
  ASSUME TypeOK, NEW q \in Requests, NEW from, NEW to \in PC, Goto(q, from, to)
  PROVE  /\ pc' \in [Requests -> PC]
         /\ seenStatus' \in [Requests -> RowStatus]
         /\ seenPayload' \in [Requests -> SUBSET Marks]
         /\ snap' \in [Requests -> [Refs -> RowStatus]]
  <1>1. pc' \in [Requests -> PC]
    BY DEF TypeOK, Goto, Move
  <1>2. CASE to = "idle"
    BY <1>1, <1>2, NoRowsType DEF TypeOK, Goto, Move, RowStatus
  <1>3. CASE to # "idle"
    BY <1>1, <1>3 DEF TypeOK, Goto, Move, locals
  <1>4. QED
    BY <1>2, <1>3

\* The same for an Ops handler.
LEMMA OpsGotoType ==
  ASSUME TypeOK, NEW q \in DepositRequests, NEW from, NEW to \in OpsPC,
         OpsGoto(q, from, to)
  PROVE  ops' \in [DepositRequests -> OpsPC]
  BY DEF TypeOK, OpsGoto

\* Requests are told apart by kind, and every kind has a reference.
LEMMA RequestKinds ==
  /\ Webhooks \subseteq DepositRequests /\ Verifies \subseteq DepositRequests
  /\ Settles \subseteq Transitions /\ Approvals \subseteq Transitions
  /\ DepositRequests \subseteq Requests /\ Transitions \subseteq Requests
  /\ Reports \subseteq Requests
  /\ \A q \in DepositRequests \cup Transitions : RefOf[q] \in Refs
  /\ \A q \in Webhooks : EventOf[q] \in Events
  BY ConstantsAssumption DEF DepositRequests, Transitions, Reports, Requests

-----------------------------------------------------------------------------
\* Type correctness, action by action.

LEMMA WebhookType ==
  ASSUME TypeOK, NEW q \in Webhooks, StartWebhook(q) \/ WebhookStep(q)
  PROVE  TypeOK'
  <1>0. q \in Requests /\ EventOf[q] \in Events
    BY RequestKinds
  <1>1. {"idle", "event_lookup", "event_insert", "event_account",
         "event_quarantine", "verify"} \subseteq PC
    BY DEF PC, WebhookPC, VerifyPC
  <1>2. {"received", "rejected", "quarantined"} \subseteq EventStatus
    BY DEF EventStatus
  <1>3. PICK to \in PC : Goto(q, pc[q], to)
    BY <1>1 DEF StartWebhook, Start, WebhookStep, EventLookup, EventInsert,
                EventAccount, EventQuarantine, Goto, Move
  <1>4. /\ pc' \in [Requests -> PC]
        /\ seenStatus' \in [Requests -> RowStatus]
        /\ seenPayload' \in [Requests -> SUBSET Marks]
        /\ snap' \in [Requests -> [Refs -> RowStatus]]
    BY <1>0, <1>3, GotoType
  <1>5. event' \in [Events -> EventStatus]
    BY <1>0, <1>2 DEF TypeOK, StartWebhook, WebhookStep, EventLookup, EventInsert,
                EventAccount, EventQuarantine
  <1>6. UNCHANGED <<deposits, books, opsVars, faults>>
    BY DEF StartWebhook, WebhookStep, EventLookup, EventInsert,
           EventAccount, EventQuarantine
  <1>7. QED
    BY <1>4, <1>5, <1>6 DEF TypeOK, deposits, opsVars

LEMMA VerifyType ==
  ASSUME TypeOK, NEW q \in DepositRequests,
         \/ q \in Verifies /\ StartVerify(q)
         \/ VerifyStep(q) \/ VerifyRefused(q) \/ DeliverTimeout(q)
  PROVE  TypeOK'
  <1>0. q \in Requests /\ RefOf[q] \in Refs /\ (q \in Webhooks => EventOf[q] \in Events)
    BY RequestKinds
  <1>. DEFINE r == RefOf[q]
  <1>pc. VerifyPC \cup {"idle"} \subseteq PC
    BY DEF PC
  <1>go. ASSUME NEW to \in VerifyPC \cup {"idle"}, Goto(q, pc[q], to)
         PROVE  /\ pc' \in [Requests -> PC]
                /\ seenStatus' \in [Requests -> RowStatus]
                /\ seenPayload' \in [Requests -> SUBSET Marks]
                /\ snap' \in [Requests -> [Refs -> RowStatus]]
    BY <1>0, <1>pc, <1>go, GotoType
  <1>1. CASE \/ StartVerify(q) \/ VerifyIncomplete(q) \/ VerifyRefused(q)
             \/ FindAccount(q) \/ FindDeposit(q) \/ DeliverTimeout(q)
    <2>1. PICK to \in VerifyPC \cup {"idle"} : Goto(q, pc[q], to)
      BY <1>1 DEF StartVerify, Start, VerifyIncomplete, VerifyRefused, FindAccount,
                  FindDeposit, DeliverTimeout, Goto, Move, VerifyPC
    <2>2. UNCHANGED <<deposits, event, books, opsVars>> /\ faults' \in Nat
      BY <1>1 DEF StartVerify, VerifyIncomplete, VerifyRefused, FindAccount,
                  FindDeposit, DeliverTimeout, Fault, TypeOK
    <2>3. QED
      BY <1>go, <2>1, <2>2 DEF TypeOK, deposits, opsVars
  <1>2. CASE VerifyPaid(q)
    <2>1. /\ pc' \in [Requests -> PC]
          /\ seenPayload' \in [Requests -> SUBSET Marks]
      BY <1>0, <1>2 DEF TypeOK, VerifyPaid, Move, PC, VerifyPC
    <2>2. QED
      BY <1>2, <2>1 DEF TypeOK, VerifyPaid, deposits, opsVars
  <1>3. CASE InsertDeposit(q)
    <2>1. PICK to \in VerifyPC \cup {"idle"} : Goto(q, pc[q], to)
      BY <1>3 DEF InsertDeposit, Goto, Move, VerifyPC
    <2>2. /\ status' \in [Refs -> RowStatus]
          /\ stamps' \in [Refs -> SUBSET DepositStatus]
          /\ payload' \in [Refs -> SUBSET Marks]
          /\ credited' = credited
      <3>1. CASE UNCHANGED deposits
        BY <3>1 DEF TypeOK, deposits
      <3>2. CASE /\ status' = [status EXCEPT ![r] = "matched"]
                 /\ stamps' = [stamps EXCEPT ![r] = {"matched"}]
                 /\ payload' = [payload EXCEPT ![r] = seenPayload[q]]
                 /\ UNCHANGED credited
        BY <1>0, <3>2 DEF TypeOK, RowStatus, DepositStatus
      <3>3. QED
        BY <1>3, <3>1, <3>2 DEF InsertDeposit
    <2>3. QED
      BY <1>3, <1>go, <2>1, <2>2 DEF TypeOK, InsertDeposit, opsVars
  <1>4. CASE UpdateDeposit(q)
    <2>1. PICK to \in VerifyPC \cup {"idle"} : Goto(q, pc[q], to)
      BY <1>4 DEF UpdateDeposit, Goto, Move, VerifyPC
    <2>2. /\ stamps' \in [Refs -> SUBSET DepositStatus]
          /\ payload' \in [Refs -> SUBSET Marks]
      BY <1>0, <1>4 DEF TypeOK, UpdateDeposit, DepositStatus
    <2>3. QED
      BY <1>4, <1>go, <2>1, <2>2 DEF TypeOK, UpdateDeposit, opsVars
  <1>5. CASE Reread(q)
    <2>1. /\ pc' \in [Requests -> PC]
          /\ seenStatus' \in [Requests -> RowStatus]
          /\ seenPayload' \in [Requests -> SUBSET Marks]
      BY <1>0, <1>5 DEF TypeOK, Reread, Move, PC, VerifyPC
    <2>2. QED
      BY <1>5, <2>1 DEF TypeOK, Reread, deposits, opsVars
  <1>6. CASE Credit(q)
    <2>1. PICK to \in VerifyPC \cup {"idle"} : Goto(q, pc[q], to)
      BY <1>6 DEF Credit, AfterCredit, Goto, Move, VerifyPC
    <2>2. credited' \in [Refs -> 0 .. MaxCredits]
      BY <1>0, <1>6, ConstantsAssumption DEF TypeOK, Credit
    <2>3. QED
      BY <1>6, <1>go, <2>1, <2>2 DEF TypeOK, Credit, opsVars
  <1>7. CASE Mark(q)
    <2>1. PICK to \in VerifyPC \cup {"idle"} : Goto(q, pc[q], to)
      <3>1. AfterCredit(q) \in VerifyPC
        BY DEF AfterCredit, VerifyPC
      <3>2. Goto(q, "mark", AfterCredit(q)) /\ pc[q] = "mark"
        BY <1>7 DEF Mark, Goto, Move
      <3>3. QED
        BY <3>1, <3>2
    <2>2. payload' \in [Refs -> SUBSET Marks]
      BY <1>0, <1>7 DEF TypeOK, Mark, Marks
    <2>3. QED
      BY <1>7, <1>go, <2>1, <2>2 DEF TypeOK, Mark, opsVars
  <1>8. CASE Deliver(q) \/ DeliverReply(q)
    <2>1. PICK to \in VerifyPC \cup {"idle"} : Goto(q, pc[q], to)
      BY <1>8 DEF Deliver, DeliverReply, Goto, Move, VerifyPC
    <2>2. ops' \in [DepositRequests -> OpsPC]
      BY <1>8 DEF TypeOK, Deliver, DeliverReply, OpsPC
    <2>3. UNCHANGED <<deposits, event, books, ledger, opsKeys, faults>>
      BY <1>8 DEF Deliver, DeliverReply
    <2>4. QED
      BY <1>go, <2>1, <2>2, <2>3 DEF TypeOK, deposits
  <1>9. CASE MarkDelivered(q)
    <2>1. PICK to \in VerifyPC \cup {"idle"} : Goto(q, pc[q], to)
      BY <1>9 DEF MarkDelivered, Goto, Move, VerifyPC
    <2>2. /\ status' \in [Refs -> RowStatus]
          /\ stamps' \in [Refs -> SUBSET DepositStatus]
      BY <1>0, <1>9 DEF TypeOK, MarkDelivered, RowStatus, DepositStatus
    <2>3. QED
      BY <1>9, <1>go, <2>1, <2>2 DEF TypeOK, MarkDelivered, opsVars
  <1>10. CASE Finish(q)
    <2>1. PICK to \in VerifyPC \cup {"idle"} : Goto(q, pc[q], to)
      BY <1>10 DEF Finish, Goto, Move, VerifyPC
    <2>2. event' \in [Events -> EventStatus]
      BY <1>0, <1>10 DEF TypeOK, Finish, EventStatus
    <2>3. QED
      BY <1>10, <1>go, <2>1, <2>2 DEF TypeOK, Finish, deposits, opsVars
  <1>11. QED
    BY <1>1, <1>2, <1>3, <1>4, <1>5, <1>6, <1>7, <1>8, <1>9, <1>10 DEF VerifyStep

LEMMA OpsType ==
  ASSUME TypeOK, NEW q \in DepositRequests, OpsStep(q)
  PROVE  TypeOK'
  <1>0. RefOf[q] \in Refs
    BY RequestKinds
  <1>1. ops' \in [DepositRequests -> OpsPC]
    BY DEF TypeOK, OpsStep, OpsCached, OpsLookup, OpsInsert, OpsRemember, OpsDrop,
           OpsGoto, OpsPC
  <1>2. ledger' \in SUBSET Refs /\ opsKeys' \in SUBSET Refs
    BY <1>0 DEF TypeOK, OpsStep, OpsCached, OpsLookup, OpsInsert, OpsRemember, OpsDrop
  <1>3. UNCHANGED <<deposits, event, books, pc, locals, faults>>
    BY DEF OpsStep, OpsCached, OpsLookup, OpsInsert, OpsRemember, OpsDrop
  <1>4. QED
    BY <1>1, <1>2, <1>3 DEF TypeOK, deposits, locals

LEMMA TransitionType ==
  ASSUME TypeOK, NEW q \in Transitions, StartTransition(q) \/ TransitionStep(q)
  PROVE  TypeOK'
  <1>0. q \in Requests /\ RefOf[q] \in Refs
    BY RequestKinds
  <1>1. CASE StartTransition(q)
    <2>1. /\ pc' \in [Requests -> PC]
          /\ UNCHANGED locals
      BY <1>0, <1>1 DEF StartTransition, Start, Goto, Move, TypeOK, PC
    <2>2. QED
      BY <1>1, <2>1 DEF StartTransition, TypeOK, deposits, opsVars, locals
  <1>2. CASE ReadDeposit(q)
    <2>1. /\ pc' \in [Requests -> PC]
          /\ seenStatus' \in [Requests -> RowStatus]
          /\ seenPayload' \in [Requests -> SUBSET Marks]
          /\ snap' \in [Requests -> [Refs -> RowStatus]]
      <3>1. CASE Goto(q, "read", "idle")
        <4>1. "idle" \in PC
          BY DEF PC
        <4>2. QED
          BY <1>0, <3>1, <4>1, GotoType
      <3>2. CASE /\ Move(q, "read", "write")
                 /\ seenStatus' = [seenStatus EXCEPT ![q] = status[RefOf[q]]]
                 /\ seenPayload' = [seenPayload EXCEPT ![q] = payload[RefOf[q]]]
                 /\ UNCHANGED snap
        BY <1>0, <3>2 DEF TypeOK, Move, PC
      <3>3. QED
        BY <1>2, <3>1, <3>2 DEF ReadDeposit
    <2>2. QED
      BY <1>2, <2>1 DEF ReadDeposit, TypeOK, deposits, opsVars
  <1>3. CASE WriteTransition(q)
    <2>1. /\ pc' \in [Requests -> PC]
          /\ seenStatus' \in [Requests -> RowStatus]
          /\ seenPayload' \in [Requests -> SUBSET Marks]
          /\ snap' \in [Requests -> [Refs -> RowStatus]]
      BY <1>0, <1>3, GotoType DEF WriteTransition, PC
    <2>2. TargetOf(q) \in Workflow
      BY DEF TargetOf, Workflow
    <2>3. /\ status' \in [Refs -> RowStatus]
          /\ stamps' \in [Refs -> SUBSET DepositStatus]
          /\ payload' \in [Refs -> SUBSET Marks]
      BY <1>0, <1>3, <2>2 DEF TypeOK, WriteTransition, RowStatus, DepositStatus,
                              Marks, Workflow
    <2>4. QED
      BY <1>3, <2>1, <2>3 DEF WriteTransition, TypeOK, opsVars
  <1>4. QED
    BY <1>1, <1>2, <1>3 DEF TransitionStep

LEMMA ReportType ==
  ASSUME TypeOK, NEW q \in Reports, StartReport(q) \/ ReportStep(q)
  PROVE  TypeOK'
  <1>0. q \in Requests
    BY RequestKinds
  <1>1. CASE StartReport(q)
    <2>1. /\ pc' \in [Requests -> PC]
          /\ UNCHANGED locals
      BY <1>0, <1>1 DEF StartReport, Start, Goto, Move, TypeOK, PC
    <2>2. QED
      BY <1>1, <2>1 DEF StartReport, TypeOK, deposits, opsVars, locals
  <1>2. CASE ReconUpdate(q)
    <2>1. /\ pc' \in [Requests -> PC]
          /\ UNCHANGED locals
      BY <1>0, <1>2 DEF ReconUpdate, Goto, Move, TypeOK, PC
    <2>2. /\ status' \in [Refs -> RowStatus]
          /\ stamps' \in [Refs -> SUBSET DepositStatus]
      BY <1>2 DEF TypeOK, ReconUpdate, RowStatus, DepositStatus
    <2>3. QED
      BY <1>2, <2>1, <2>2 DEF ReconUpdate, TypeOK, opsVars, locals
  <1>3. CASE Tally(q)
    <2>1. /\ pc' \in [Requests -> PC]
          /\ snap' \in [Requests -> [Refs -> RowStatus]]
      BY <1>0, <1>3 DEF Tally, Move, TypeOK, PC, RowStatus
    <2>2. QED
      BY <1>3, <2>1 DEF Tally, TypeOK, deposits, opsVars
  <1>4. CASE Store(q)
    <2>1. /\ pc' \in [Requests -> PC]
          /\ seenStatus' \in [Requests -> RowStatus]
          /\ seenPayload' \in [Requests -> SUBSET Marks]
          /\ snap' \in [Requests -> [Refs -> RowStatus]]
      BY <1>0, <1>4, GotoType DEF Store, PC
    <2>2. PICK x \in BOOLEAN :
            books' = books \cup {[slot |-> q, snap |-> snap[q], opsExceptions |-> x]}
      BY <1>4 DEF Store
    <2>3. [slot |-> q, snap |-> snap[q], opsExceptions |-> x] \in Report
      BY <1>0 DEF TypeOK, Report
    <2>4. books' \in SUBSET Report
      BY <2>2, <2>3 DEF TypeOK
    <2>5. QED
      BY <1>4, <2>1, <2>4 DEF Store, TypeOK, deposits, opsVars
  <1>5. QED
    BY <1>1, <1>2, <1>3, <1>4 DEF ReportStep

LEMMA ProcessDeathType ==
  ASSUME TypeOK, OpsCrash \/ Restart
  PROVE  TypeOK'
  <1>1. CASE OpsCrash
    <2>1. ops' \in [DepositRequests -> OpsPC] /\ faults' \in Nat
      BY <1>1 DEF OpsCrash, Fault, TypeOK, OpsPC
    <2>2. QED
      BY <1>1, <2>1 DEF OpsCrash, TypeOK, deposits, locals
  <1>2. CASE Restart
    <2>1. /\ pc' \in [Requests -> PC]
          /\ seenStatus' \in [Requests -> RowStatus]
          /\ seenPayload' \in [Requests -> SUBSET Marks]
          /\ snap' \in [Requests -> [Refs -> RowStatus]]
      BY <1>2, NoRowsType DEF Restart, PC, RowStatus
    <2>2. credited' \in [Refs -> 0 .. MaxCredits] /\ faults' \in Nat
      BY <1>2, ConstantsAssumption DEF Restart, Fault, TypeOK
    <2>3. QED
      BY <1>2, <2>1, <2>2 DEF Restart, TypeOK, opsVars
  <1>3. QED
    BY <1>1, <1>2

LEMMA TypeStep == TypeOK /\ [Next]_vars => TypeOK'
  <1>1. ASSUME TypeOK, Next PROVE TypeOK'
    <2>1. CASE \E q \in Webhooks : StartWebhook(q) \/ WebhookStep(q)
      BY <1>1, <2>1, WebhookType
    <2>2. CASE \/ \E q \in Verifies : StartVerify(q)
               \/ \E q \in DepositRequests :
                    VerifyStep(q) \/ VerifyRefused(q) \/ DeliverTimeout(q)
      BY <1>1, <2>2, VerifyType, RequestKinds
    <2>3. CASE \E q \in DepositRequests : OpsStep(q)
      BY <1>1, <2>3, OpsType
    <2>4. CASE \E q \in Transitions : StartTransition(q) \/ TransitionStep(q)
      BY <1>1, <2>4, TransitionType
    <2>5. CASE \E q \in Reports : StartReport(q) \/ ReportStep(q)
      BY <1>1, <2>5, ReportType
    <2>6. CASE OpsCrash \/ Restart
      BY <1>1, <2>6, ProcessDeathType
    <2>7. QED
      BY <1>1, <2>1, <2>2, <2>3, <2>4, <2>5, <2>6 DEF Next
  <1>2. TypeOK /\ UNCHANGED vars => TypeOK'
    BY DEF TypeOK, vars, deposits, locals, opsVars
  <1>3. QED
    BY <1>1, <1>2

LEMMA InitType == Init => TypeOK
  BY NoRowsType, ConstantsAssumption
     DEF Init, TypeOK, RowStatus, PC, OpsPC, EventStatus

\* Every reachable state has the types of the tables and of the requests.
THEOREM TypeCorrect == Spec => []TypeOK
  BY InitType, TypeStep, PTL DEF Spec

-----------------------------------------------------------------------------
\* The inductive invariant.

\* What holds of one reference.
RowFacts(r) ==
  /\ RowAgrees(r)
  /\ InOrder(r)
  /\ "delivered_to_ops" \in stamps[r] => r \in ledger

\* No step takes back what the requests in flight rely on.
Grows ==
  /\ \A r \in Refs :
       /\ stamps[r] \subseteq stamps'[r]
       /\ credited[r] > 0 => credited'[r] > 0
       /\ status[r] # Absent => status'[r] # Absent
  /\ ledger \subseteq ledger'

LocalUnchanged(q) == UNCHANGED <<pc[q], seenStatus[q], seenPayload[q]>>

\* A step keeps the invariant when it grows the tables, keeps the facts about
\* every row, and establishes the facts of the requests it moves.
LEMMA Frame ==
  ASSUME IInv, TypeOK', Grows,
         \A r \in Refs : RowFacts(r)',
         opsKeys' \subseteq ledger',
         \A q \in DepositRequests :
           DepositFacts(q)' \/ (LocalUnchanged(q) /\ ops'[q] = ops[q]),
         \A q \in Transitions : TransitionFacts(q)' \/ LocalUnchanged(q),
         \A q \in Reports : ReportFacts(q)' \/ snap'[q] = snap[q],
         \A b \in books' : b \in books \/
           \A r \in Refs : b.snap[r] \in ReconciledStatus => "reconciled" \in stamps[r],
         \A w \in Webhooks : event'[EventOf[w]] = "delivered" =>
           event[EventOf[w]] = "delivered" \/ RefOf[w] \in ledger'
  PROVE  IInv'
  <1>1. RowsAgree' /\ StampsInOrder' /\ DeliveredIsBooked'
    BY DEF RowFacts, RowsAgree, StampsInOrder, DeliveredIsBooked
  <1>2. \A q \in DepositRequests : DepositFacts(q)'
    <2>1. SUFFICES ASSUME NEW q \in DepositRequests, LocalUnchanged(q),
                          ops'[q] = ops[q]
                   PROVE  DepositFacts(q)'
      OBVIOUS
    <2>2. RefOf[q] \in Refs /\ DepositFacts(q)
      BY RequestKinds DEF IInv, RequestsRelyOnFacts
    <2>3. QED
      BY <2>1, <2>2 DEF DepositFacts, LocalUnchanged, Grows
  <1>3. \A q \in Transitions : TransitionFacts(q)'
    <2>1. SUFFICES ASSUME NEW q \in Transitions, LocalUnchanged(q)
                   PROVE  TransitionFacts(q)'
      OBVIOUS
    <2>2. RefOf[q] \in Refs /\ TransitionFacts(q)
      BY RequestKinds DEF IInv, RequestsRelyOnFacts
    <2>3. QED
      BY <2>1, <2>2 DEF TransitionFacts, LocalUnchanged, Grows
  <1>4. \A q \in Reports : ReportFacts(q)'
    BY DEF IInv, RequestsRelyOnFacts, ReportFacts, Grows
  <1>5. \A b \in books', r \in Refs :
           b.snap[r] \in ReconciledStatus => "reconciled" \in stamps'[r]
    BY DEF IInv, ReportsAreBacked, Grows
  <1>6. ReportsAreBacked'
    BY <1>1, <1>5 DEF ReportsAreBacked, StampsInOrder, InOrder, DeliveredIsBooked
  <1>7. DeliveredEventIsBooked'
    BY DEF IInv, DeliveredEventIsBooked, Grows
  <1>8. QED
    BY <1>1, <1>2, <1>3, <1>4, <1>6, <1>7 DEF IInv, RequestsRelyOnFacts

\* Rows nobody writes keep their facts.
LEMMA RowsUnchanged ==
  ASSUME IInv, UNCHANGED <<deposits, ledger>>
  PROVE  Grows /\ \A r \in Refs : RowFacts(r)'
  BY DEF IInv, RowsAgree, StampsInOrder, DeliveredIsBooked, RowFacts, RowAgrees,
         InOrder, Grows, deposits

\* What Goto does to a request and what it leaves alone.
LEMMA GotoFacts ==
  ASSUME TypeOK, NEW q \in Requests, NEW from, NEW to, Goto(q, from, to)
  PROVE  /\ pc[q] = from /\ pc'[q] = to
         /\ seenStatus'[q] \in {seenStatus[q], Absent}
         /\ seenPayload'[q] \subseteq seenPayload[q]
         /\ snap'[q] \in {snap[q], NoRows}
         /\ \A p \in Requests \ {q} : LocalUnchanged(p) /\ snap'[p] = snap[p]
  <1>1. CASE to = "idle"
    BY <1>1 DEF TypeOK, Goto, Move, LocalUnchanged
  <1>2. CASE to # "idle"
    BY <1>2 DEF TypeOK, Goto, Move, LocalUnchanged, locals
  <1>3. QED
    BY <1>1, <1>2

\* A request of one kind is not one of another.
LEMMA KindsApart ==
  /\ \A q \in DepositRequests : q \notin Transitions /\ q \notin Reports
  /\ \A q \in Transitions : q \notin DepositRequests /\ q \notin Reports
  /\ \A q \in Reports : q \notin DepositRequests /\ q \notin Transitions
  BY SlotsAssumption

\* The frame for a step of one request.
LEMMA FrameOne ==
  ASSUME IInv, TypeOK', Grows,
         \A r \in Refs : RowFacts(r)',
         opsKeys' \subseteq ledger',
         NEW q \in Requests,
         \A p \in Requests \ {q} : LocalUnchanged(p) /\ snap'[p] = snap[p],
         \A p \in DepositRequests \ {q} : ops'[p] = ops[p],
         q \in DepositRequests => DepositFacts(q)',
         q \in Transitions => TransitionFacts(q)',
         q \in Reports => ReportFacts(q)',
         \A b \in books' : b \in books \/
           \A r \in Refs : b.snap[r] \in ReconciledStatus => "reconciled" \in stamps[r],
         \A w \in Webhooks : event'[EventOf[w]] = "delivered" =>
           event[EventOf[w]] = "delivered" \/ RefOf[w] \in ledger'
  PROVE  IInv'
  <1>1. \A p \in DepositRequests :
           DepositFacts(p)' \/ (LocalUnchanged(p) /\ ops'[p] = ops[p])
    <2>1. TAKE p \in DepositRequests
    <2>2. CASE p = q
      BY <2>2
    <2>3. CASE p # q
      BY <2>3, RequestKinds
    <2>4. QED
      BY <2>2, <2>3
  <1>2. \A p \in Transitions : TransitionFacts(p)' \/ LocalUnchanged(p)
    <2>1. TAKE p \in Transitions
    <2>2. CASE p = q
      BY <2>2
    <2>3. CASE p # q
      BY <2>3, RequestKinds
    <2>4. QED
      BY <2>2, <2>3
  <1>3. \A p \in Reports : ReportFacts(p)' \/ snap'[p] = snap[p]
    <2>1. TAKE p \in Reports
    <2>2. CASE p = q
      BY <2>2
    <2>3. CASE p # q
      BY <2>3, RequestKinds
    <2>4. QED
      BY <2>2, <2>3
  <1>4. QED
    BY <1>1, <1>2, <1>3, Frame

LEMMA WebhookInv ==
  ASSUME IInv, TypeOK', NEW q \in Webhooks, StartWebhook(q) \/ WebhookStep(q)
  PROVE  IInv'
  <1>. DEFINE r == RefOf[q]
  <1>0. q \in DepositRequests /\ q \in Requests /\ TypeOK /\ DepositFacts(q)
        /\ r \in Refs /\ EventOf[q] \in Events
    BY RequestKinds DEF IInv, RequestsRelyOnFacts
  <1>1. PICK to \in {"idle", "event_lookup", "event_insert", "event_account",
                     "event_quarantine", "verify"} : Goto(q, pc[q], to)
    BY DEF StartWebhook, Start, WebhookStep, EventLookup, EventInsert,
           EventAccount, EventQuarantine, Goto, Move
  <1>2. UNCHANGED <<deposits, books, opsVars>>
    BY DEF StartWebhook, WebhookStep, EventLookup, EventInsert,
           EventAccount, EventQuarantine
  <1>3. Grows /\ (\A s \in Refs : RowFacts(s)') /\ opsKeys' \subseteq ledger'
    BY <1>2, RowsUnchanged DEF opsVars, IInv, RowsAgree
  <1>4. DepositFacts(q)'
    <2>1. /\ pc'[q] = to
          /\ seenStatus'[q] \in {seenStatus[q], Absent}
          /\ seenPayload'[q] \subseteq seenPayload[q]
      BY <1>0, <1>1, GotoFacts
    <2>2. UNCHANGED <<stamps, credited, status, ledger, ops>>
      BY <1>2 DEF deposits, opsVars
    <2>3. QED
      BY <1>0, <2>1, <2>2 DEF DepositFacts, DeliveredStatus, DepositStatus, Absent
  <1>5. \A w \in Webhooks : event'[EventOf[w]] = "delivered" =>
           event[EventOf[w]] = "delivered"
    <2>1. event' = event \/ \E s \in {"received", "rejected", "quarantined"} :
                               event' = [event EXCEPT ![EventOf[q]] = s]
      BY DEF StartWebhook, WebhookStep, EventLookup, EventInsert,
             EventAccount, EventQuarantine
    <2>2. event \in [Events -> EventStatus] /\ \A w \in Webhooks : EventOf[w] \in Events
      BY <1>0, RequestKinds DEF TypeOK
    <2>3. QED
      BY <2>1, <2>2
  <1>6. \A p \in Requests \ {q} : LocalUnchanged(p) /\ snap'[p] = snap[p]
    BY <1>0, <1>1, GotoFacts
  <1>7. ops' = ops /\ books' = books /\ q \notin Transitions /\ q \notin Reports
    BY <1>0, <1>2, KindsApart DEF opsVars
  <1>8. QED
    BY <1>0, <1>3, <1>4, <1>5, <1>6, <1>7, FrameOne

\* What a request changes when it moves on without writing a row.
LEMMA QuietDeposit ==
  ASSUME IInv, TypeOK', NEW q \in DepositRequests,
         UNCHANGED <<deposits, books, ledger, opsKeys>>,
         \A p \in Requests \ {q} : LocalUnchanged(p) /\ snap'[p] = snap[p],
         \A p \in DepositRequests \ {q} : ops'[p] = ops[p],
         event' = event,
         DepositFacts(q)'
  PROVE  IInv'
  <1>1. Grows /\ (\A s \in Refs : RowFacts(s)') /\ opsKeys' \subseteq ledger'
    BY RowsUnchanged DEF IInv, RowsAgree
  <1>2. q \in Requests /\ q \notin Transitions /\ q \notin Reports
    BY RequestKinds, KindsApart
  <1>3. QED
    BY <1>1, <1>2, FrameOne

\* The steps of a deposit request that only read, wait or give up.
LEMMA VerifyQuietInv ==
  ASSUME IInv, TypeOK', NEW q \in DepositRequests,
         \/ StartVerify(q) \/ VerifyIncomplete(q) \/ VerifyRefused(q)
         \/ FindAccount(q) \/ FindDeposit(q)
         \/ Deliver(q) \/ DeliverReply(q) \/ DeliverTimeout(q)
  PROVE  IInv'
  <1>. DEFINE r == RefOf[q]
  <1>0. q \in Requests /\ TypeOK /\ DepositFacts(q) /\ r \in Refs
    BY RequestKinds DEF IInv, RequestsRelyOnFacts
  <1>1. UNCHANGED <<deposits, books, ledger, opsKeys>> /\ event' = event
    BY DEF StartVerify, VerifyIncomplete, VerifyRefused, FindAccount, FindDeposit,
           Deliver, DeliverReply, DeliverTimeout, opsVars
  <1>2. UNCHANGED <<stamps, credited, status, ledger>>
    BY <1>1 DEF deposits
  <1>3. ops \in [DepositRequests -> OpsPC] /\ ops' \in [DepositRequests -> OpsPC]
    BY <1>0 DEF TypeOK
  <1>4. CASE StartVerify(q) \/ VerifyIncomplete(q) \/ VerifyRefused(q)
             \/ FindAccount(q) \/ DeliverTimeout(q)
    <2>1. PICK to \in {"idle", "verify", "find_deposit"} : Goto(q, pc[q], to)
      BY <1>4 DEF StartVerify, Start, VerifyIncomplete, VerifyRefused, FindAccount,
                  DeliverTimeout, Goto, Move
    <2>2. ops' = ops
      BY <1>4 DEF StartVerify, VerifyIncomplete, VerifyRefused, FindAccount,
                  DeliverTimeout, opsVars
    <2>3. /\ pc'[q] = to /\ seenStatus'[q] \in {seenStatus[q], Absent}
          /\ seenPayload'[q] \subseteq seenPayload[q]
          /\ \A p \in Requests \ {q} : LocalUnchanged(p) /\ snap'[p] = snap[p]
      BY <1>0, <2>1, GotoFacts
    <2>4. DepositFacts(q)'
      BY <1>0, <1>2, <2>2, <2>3 DEF DepositFacts, DeliveredStatus, DepositStatus, Absent
    <2>5. QED
      BY <1>1, <2>2, <2>3, <2>4, QuietDeposit
  <1>5. CASE FindDeposit(q)
    <2>1. PICK to \in {"insert", "update"} :
            Goto(q, "find_deposit", to) /\ (to = "update" => status[r] # Absent)
      BY <1>5 DEF FindDeposit
    <2>2. ops' = ops
      BY <1>5 DEF FindDeposit, opsVars
    <2>3. /\ pc'[q] = to /\ seenStatus'[q] \in {seenStatus[q], Absent}
          /\ seenPayload'[q] \subseteq seenPayload[q]
          /\ \A p \in Requests \ {q} : LocalUnchanged(p) /\ snap'[p] = snap[p]
      BY <1>0, <2>1, GotoFacts
    <2>4. DepositFacts(q)'
      BY <1>0, <1>2, <2>1, <2>2, <2>3 DEF DepositFacts, DeliveredStatus, DepositStatus, Absent
    <2>5. QED
      BY <1>1, <2>2, <2>3, <2>4, QuietDeposit
  <1>6. CASE Deliver(q) \/ DeliverReply(q)
    <2>1. PICK to \in {"wait", "delivered", "idle"} :
            /\ Goto(q, pc[q], to)
            /\ to = "wait" => pc[q] = "deliver" /\ ops' = [ops EXCEPT ![q] = "cached"]
            /\ to # "wait" => ops' = [ops EXCEPT ![q] = "idle"]
            /\ to = "delivered" => pc[q] = "wait" /\ ops[q] = "ok"
      BY <1>6 DEF Deliver, DeliverReply, Goto, Move
    <2>2. /\ \A p \in DepositRequests \ {q} : ops'[p] = ops[p]
          /\ to = "wait" => ops'[q] = "cached"
          /\ to # "wait" => ops'[q] = "idle"
      BY <2>1, <1>3
    <2>3. /\ pc'[q] = to /\ seenStatus'[q] \in {seenStatus[q], Absent}
          /\ seenPayload'[q] \subseteq seenPayload[q]
          /\ \A p \in Requests \ {q} : LocalUnchanged(p) /\ snap'[p] = snap[p]
      BY <1>0, <2>1, GotoFacts
    <2>4. DepositFacts(q)'
      BY <1>0, <1>2, <2>1, <2>2, <2>3 DEF DepositFacts, DeliveredStatus, DepositStatus, Absent
    <2>5. QED
      BY <1>1, <2>2, <2>3, <2>4, QuietDeposit
  <1>7. QED
    BY <1>4, <1>5, <1>6

\* What the provider answers, and what the row says.
LEMMA ReadInv ==
  ASSUME IInv, TypeOK', NEW q \in DepositRequests, VerifyPaid(q) \/ Reread(q)
  PROVE  IInv'
  <1>. DEFINE r == RefOf[q]
  <1>0. q \in Requests /\ TypeOK /\ DepositFacts(q) /\ r \in Refs /\ RowFacts(r)
    BY RequestKinds DEF IInv, RequestsRelyOnFacts, RowFacts, RowsAgree, StampsInOrder,
       DeliveredIsBooked
  <1>1. UNCHANGED <<deposits, books, ledger, opsKeys>> /\ event' = event /\ ops' = ops
    BY DEF VerifyPaid, Reread, opsVars
  <1>2. UNCHANGED <<stamps, credited, status, ledger>>
    BY <1>1 DEF deposits
  <1>3. \A p \in Requests \ {q} : LocalUnchanged(p) /\ snap'[p] = snap[p]
    BY <1>0 DEF TypeOK, VerifyPaid, Reread, Move, LocalUnchanged
  <1>4. /\ pc'[q] \in {"find_account", "credit"}
        /\ pc'[q] = "credit" => pc[q] = "reread"
        /\ seenStatus'[q] \in {seenStatus[q], status[r]}
        /\ seenPayload'[q] \in {{}, payload[r]}
    BY <1>0 DEF TypeOK, VerifyPaid, Reread, Move
  <1>5. "counted" \in payload[r] => credited[r] > 0
    BY <1>0 DEF RowFacts, RowAgrees
  <1>6. status[r] \in DeliveredStatus => "delivered_to_ops" \in stamps[r]
    BY <1>0 DEF RowFacts, RowAgrees, InOrder, DeliveredStatus, DepositStatus, Absent
  <1>7. DepositFacts(q)'
    BY <1>0, <1>1, <1>2, <1>4, <1>5, <1>6 DEF DepositFacts
  <1>8. QED
    BY <1>1, <1>3, <1>7, QuietDeposit

\* The statements that write a deposit row, the account balance or the event.
\* The row is the request's own; the other rows stay as they are.
LEMMA WriteDeposit ==
  ASSUME IInv, TypeOK', NEW q \in DepositRequests,
         NEW from, NEW to, Goto(q, from, to),
         UNCHANGED <<books, ledger, opsKeys, ops>>,
         \A s \in Refs \ {RefOf[q]} :
           UNCHANGED <<status[s], stamps[s], payload[s], credited[s]>>,
         stamps[RefOf[q]] \subseteq stamps'[RefOf[q]],
         credited[RefOf[q]] > 0 => credited'[RefOf[q]] > 0,
         status[RefOf[q]] # Absent => status'[RefOf[q]] # Absent,
         RowFacts(RefOf[q])',
         event' = event \/ (/\ event' = [event EXCEPT ![EventOf[q]] = "delivered"]
                            /\ q \in Webhooks
                            /\ RefOf[q] \in ledger),
         DepositFacts(q)'
  PROVE  IInv'
  <1>0. /\ q \in Requests /\ q \notin Transitions /\ q \notin Reports
        /\ TypeOK /\ RefOf[q] \in Refs
    BY RequestKinds, KindsApart DEF IInv
  <1>1. \A s \in Refs : RowFacts(s)
    BY DEF IInv, RowsAgree, StampsInOrder, DeliveredIsBooked, RowFacts
  <1>2. \A s \in Refs : RowFacts(s)'
    <2>1. TAKE s \in Refs
    <2>2. CASE s = RefOf[q]
      BY <2>2
    <2>3. CASE s # RefOf[q]
      BY <1>1, <2>3 DEF RowFacts, RowAgrees, InOrder
    <2>4. QED
      BY <2>2, <2>3
  <1>3. Grows
    <2>1. \A s \in Refs :
            /\ stamps[s] \subseteq stamps'[s]
            /\ credited[s] > 0 => credited'[s] > 0
            /\ status[s] # Absent => status'[s] # Absent
      <3>1. TAKE s \in Refs
      <3>2. CASE s = RefOf[q]
        BY <3>2
      <3>3. CASE s # RefOf[q]
        BY <3>3
      <3>4. QED
        BY <3>2, <3>3
    <2>2. QED
      BY <2>1 DEF Grows
  <1>4. \A p \in Requests \ {q} : LocalUnchanged(p) /\ snap'[p] = snap[p]
    BY <1>0, GotoFacts
  <1>5. \A w \in Webhooks : event'[EventOf[w]] = "delivered" =>
           event[EventOf[w]] = "delivered" \/ RefOf[w] \in ledger'
    <2>1. event \in [Events -> EventStatus] /\ \A w \in Webhooks : EventOf[w] \in Events
      BY <1>0, RequestKinds DEF TypeOK
    <2>2. \A w \in Webhooks : q \in Webhooks /\ EventOf[w] = EventOf[q] => RefOf[w] = RefOf[q]
      BY ConstantsAssumption
    <2>3. QED
      BY <2>1, <2>2
  <1>6. opsKeys' \subseteq ledger'
    BY DEF IInv, RowsAgree
  <1>7. QED
    BY <1>0, <1>2, <1>3, <1>4, <1>5, <1>6, FrameOne

LEMMA InsertUpdateInv ==
  ASSUME IInv, TypeOK', NEW q \in DepositRequests,
         InsertDeposit(q) \/ UpdateDeposit(q)
  PROVE  IInv'
  <1>. DEFINE r == RefOf[q]
  <1>0. q \in Requests /\ TypeOK /\ DepositFacts(q) /\ r \in Refs /\ RowFacts(r)
    BY RequestKinds DEF IInv, RequestsRelyOnFacts, RowFacts, RowsAgree, StampsInOrder,
       DeliveredIsBooked
  <1>1. /\ UNCHANGED <<books, ledger, opsKeys, ops>> /\ event' = event
        /\ credited' = credited
    BY DEF InsertDeposit, UpdateDeposit, opsVars, deposits
  <1>2. PICK to \in {"idle", "reread"} :
          Goto(q, pc[q], to) /\ (to = "reread" => status'[r] # Absent)
    <2>1. CASE InsertDeposit(q) /\ status[r] # Absent
      BY <2>1 DEF InsertDeposit, Goto, Move
    <2>2. CASE InsertDeposit(q) /\ status[r] = Absent
      <3>1. Goto(q, pc[q], "reread") /\ status' = [status EXCEPT ![r] = "matched"]
        BY <2>2 DEF InsertDeposit, Goto, Move
      <3>2. QED
        BY <1>0, <3>1 DEF TypeOK, Absent
    <2>3. CASE UpdateDeposit(q)
      <3>1. Goto(q, pc[q], "reread") /\ status' = status /\ pc[q] = "update"
        BY <2>3 DEF UpdateDeposit, Goto, Move
      <3>2. QED
        BY <1>0, <3>1 DEF DepositFacts
    <2>4. QED
      BY <2>1, <2>2, <2>3
  <1>3. /\ pc'[q] = to
        /\ seenStatus'[q] \in {seenStatus[q], Absent}
        /\ seenPayload'[q] \subseteq seenPayload[q]
    BY <1>0, <1>2, GotoFacts
  <1>4. /\ \A s \in Refs \ {r} :
             UNCHANGED <<status[s], stamps[s], payload[s], credited[s]>>
        /\ stamps[r] \subseteq stamps'[r]
        /\ status[r] # Absent => status'[r] # Absent
        /\ RowFacts(r)'
    <2>1. CASE UNCHANGED deposits
      BY <2>1, <1>0, <1>1 DEF deposits, RowFacts, RowAgrees, InOrder
    <2>2. CASE InsertDeposit(q) /\ status[r] = Absent
      <3>1. /\ status' = [status EXCEPT ![r] = "matched"]
            /\ stamps' = [stamps EXCEPT ![r] = {"matched"}]
            /\ payload' = [payload EXCEPT ![r] = seenPayload[q]]
        BY <2>2 DEF InsertDeposit
      <3>2. /\ \A s \in Refs \ {r} :
                 UNCHANGED <<status[s], stamps[s], payload[s], credited[s]>>
            /\ status'[r] = "matched" /\ stamps'[r] = {"matched"}
            /\ payload'[r] = seenPayload[q] /\ stamps[r] = {}
        BY <1>0, <1>1, <2>2, <3>1 DEF TypeOK, RowFacts, RowAgrees
      <3>3. "counted" \in payload'[r] => credited'[r] > 0
        BY <1>0, <1>1, <3>2 DEF DepositFacts
      <3>4. QED
        BY <1>0, <1>1, <2>2, <3>2, <3>3 DEF RowFacts, RowAgrees, InOrder, Absent
    <2>3. CASE UpdateDeposit(q)
      <3>1. /\ stamps' = [stamps EXCEPT ![r] = @ \cup {"matched"}]
            /\ payload' = [payload EXCEPT ![r] = seenPayload[q]]
            /\ status' = status
            /\ pc[q] = "update"
        BY <2>3 DEF UpdateDeposit, Goto, Move
      <3>2. /\ \A s \in Refs \ {r} :
                 UNCHANGED <<status[s], stamps[s], payload[s], credited[s]>>
            /\ status'[r] = status[r] /\ stamps'[r] = stamps[r] \cup {"matched"}
            /\ payload'[r] = seenPayload[q]
        BY <1>0, <1>1, <3>1 DEF TypeOK
      <3>3. status[r] # Absent /\ ("counted" \in payload'[r] => credited'[r] > 0)
        BY <1>0, <1>1, <3>1, <3>2 DEF DepositFacts
      <3>4. QED
        BY <1>0, <1>1, <3>2, <3>3 DEF RowFacts, RowAgrees, InOrder, Absent
    <2>4. QED
      BY <2>1, <2>2, <2>3 DEF InsertDeposit
  <1>5. DepositFacts(q)'
    BY <1>0, <1>1, <1>2, <1>3, <1>4 DEF DepositFacts, DeliveredStatus, DepositStatus, Absent
  <1>6. QED
    BY <1>1, <1>2, <1>4, <1>5, WriteDeposit

LEMMA CreditMarkInv ==
  ASSUME IInv, TypeOK', NEW q \in DepositRequests, Credit(q) \/ Mark(q)
  PROVE  IInv'
  <1>. DEFINE r == RefOf[q]
  <1>0. q \in Requests /\ TypeOK /\ DepositFacts(q) /\ r \in Refs /\ RowFacts(r)
    BY RequestKinds DEF IInv, RequestsRelyOnFacts, RowFacts, RowsAgree, StampsInOrder,
       DeliveredIsBooked
  <1>1. /\ UNCHANGED <<books, ledger, opsKeys, ops, status, stamps>> /\ event' = event
    BY DEF Credit, Mark, opsVars
  <1>2. PICK to \in {"mark", "finish", "deliver"} :
          /\ Goto(q, pc[q], to)
          /\ to = "finish" => "delivered_to_ops" \in stamps[r]
    <2>1. AfterCredit(q) \in {"finish", "deliver"}
          /\ (AfterCredit(q) = "finish" => "delivered_to_ops" \in stamps[r])
      BY <1>0 DEF AfterCredit, DepositFacts
    <2>2. Goto(q, pc[q], "mark") \/ Goto(q, pc[q], AfterCredit(q))
      BY DEF Credit, Mark, Goto, Move
    <2>3. QED
      BY <2>1, <2>2
  <1>3. /\ pc'[q] = to
        /\ seenStatus'[q] \in {seenStatus[q], Absent}
        /\ seenPayload'[q] \subseteq seenPayload[q]
    BY <1>0, <1>2, GotoFacts
  <1>4. /\ credited' = credited \/ credited' = [credited EXCEPT ![r] =
                                       IF @ < MaxCredits THEN @ + 1 ELSE @]
        /\ credited'[r] > 0
        /\ \A s \in Refs \ {r} : UNCHANGED <<credited[s]>>
    <2>1. credited \in [Refs -> 0 .. MaxCredits] /\ MaxCredits \in Nat \ {0, 1}
      BY <1>0, ConstantsAssumption DEF TypeOK
    <2>2. CASE Credit(q) /\ "counted" \in seenPayload[q]
      BY <1>0, <2>1, <2>2 DEF Credit, DepositFacts
    <2>3. CASE Credit(q) /\ "counted" \notin seenPayload[q]
      <3>1. credited' = [credited EXCEPT ![r] = IF @ < MaxCredits THEN @ + 1 ELSE @]
        BY <2>3 DEF Credit
      <3>2. credited[r] \in 0 .. MaxCredits
        BY <1>0, <2>1
      <3>3. credited'[r] = IF credited[r] < MaxCredits THEN credited[r] + 1 ELSE credited[r]
        BY <1>0, <2>1, <3>1
      <3>4. credited'[r] > 0
        BY <2>1, <3>2, <3>3
      <3>5. QED
        BY <2>1, <3>1, <3>4
    <2>4. CASE Mark(q)
      BY <1>0, <2>4 DEF Mark, Goto, Move, DepositFacts
    <2>5. QED
      BY <2>2, <2>3, <2>4
  <1>5. /\ payload'[r] \subseteq payload[r] \cup {"counted"}
        /\ \A s \in Refs \ {r} : UNCHANGED <<payload[s]>>
        /\ status[r] # Absent
    <2>1. payload' = payload \/ payload' = [payload EXCEPT ![r] = @ \cup {"counted"}]
      BY DEF Credit, Mark
    <2>2. pc[q] = "credit" \/ pc[q] = "mark"
      BY DEF Credit, Mark, Goto, Move
    <2>3. status[r] # Absent
      BY <1>0, <2>2, ConstantsAssumption DEF DepositFacts, RowFacts, RowAgrees, TypeOK
    <2>4. QED
      BY <1>0, <2>1, <2>3 DEF TypeOK
  <1>6. RowFacts(r)'
    BY <1>0, <1>1, <1>4, <1>5 DEF RowFacts, RowAgrees, InOrder
  <1>7. DepositFacts(q)'
    BY <1>0, <1>1, <1>2, <1>3, <1>4 DEF DepositFacts, DeliveredStatus, DepositStatus, Absent
  <1>8. QED
    BY <1>1, <1>2, <1>4, <1>5, <1>6, <1>7, WriteDeposit

LEMMA MarkDeliveredInv ==
  ASSUME IInv, TypeOK', NEW q \in DepositRequests, MarkDelivered(q)
  PROVE  IInv'
  <1>. DEFINE r == RefOf[q]
  <1>0. q \in Requests /\ TypeOK /\ DepositFacts(q) /\ r \in Refs /\ RowFacts(r)
    BY RequestKinds DEF IInv, RequestsRelyOnFacts, RowFacts, RowsAgree, StampsInOrder,
       DeliveredIsBooked
  <1>1. /\ UNCHANGED <<books, ledger, opsKeys, ops, payload, credited>>
        /\ event' = event /\ Goto(q, "delivered", "finish") /\ pc[q] = "delivered"
    BY DEF MarkDelivered, opsVars, Goto, Move
  <1>2. credited[r] > 0 /\ r \in ledger /\ status[r] # Absent
    BY <1>0, <1>1, ConstantsAssumption DEF DepositFacts, RowFacts, RowAgrees, TypeOK
  <1>3. /\ status'[r] = "delivered_to_ops"
        /\ stamps'[r] = stamps[r] \cup {"delivered_to_ops"}
        /\ \A s \in Refs \ {r} : UNCHANGED <<status[s], stamps[s]>>
    BY <1>0 DEF MarkDelivered, TypeOK
  <1>4. RowFacts(r)'
    BY <1>0, <1>1, <1>2, <1>3 DEF RowFacts, RowAgrees, InOrder, Absent
  <1>5. /\ pc'[q] = "finish"
        /\ seenStatus'[q] \in {seenStatus[q], Absent}
        /\ seenPayload'[q] \subseteq seenPayload[q]
    BY <1>0, <1>1, GotoFacts
  <1>6. DepositFacts(q)'
    BY <1>0, <1>1, <1>2, <1>3, <1>5 DEF DepositFacts, DeliveredStatus, DepositStatus, Absent
  <1>7. QED
    BY <1>1, <1>3, <1>4, <1>6, WriteDeposit DEF Absent

LEMMA FinishInv ==
  ASSUME IInv, TypeOK', NEW q \in DepositRequests, Finish(q)
  PROVE  IInv'
  <1>. DEFINE r == RefOf[q]
  <1>0. q \in Requests /\ TypeOK /\ DepositFacts(q) /\ r \in Refs /\ RowFacts(r)
    BY RequestKinds DEF IInv, RequestsRelyOnFacts, RowFacts, RowsAgree, StampsInOrder,
       DeliveredIsBooked
  <1>1. /\ UNCHANGED <<books, ledger, opsKeys, ops, status, stamps, payload, credited>>
        /\ Goto(q, "finish", "idle") /\ pc[q] = "finish"
    BY DEF Finish, opsVars, deposits, Goto, Move
  <1>2. r \in ledger
    BY <1>0, <1>1 DEF DepositFacts, RowFacts
  <1>3. event' = event \/ (/\ event' = [event EXCEPT ![EventOf[q]] = "delivered"]
                           /\ q \in Webhooks /\ r \in ledger)
    BY <1>2 DEF Finish
  <1>4. RowFacts(r)'
    BY <1>0, <1>1 DEF RowFacts, RowAgrees, InOrder
  <1>5. /\ pc'[q] = "idle"
        /\ seenStatus'[q] \in {seenStatus[q], Absent}
        /\ seenPayload'[q] \subseteq seenPayload[q]
    BY <1>0, <1>1, GotoFacts
  <1>6. DepositFacts(q)'
    BY <1>0, <1>1, <1>5 DEF DepositFacts, DeliveredStatus, DepositStatus, Absent
  <1>7. QED
    BY <1>1, <1>3, <1>4, <1>6, WriteDeposit

LEMMA VerifyInv ==
  ASSUME IInv, TypeOK', NEW q \in DepositRequests,
         StartVerify(q) \/ VerifyStep(q) \/ VerifyRefused(q) \/ DeliverTimeout(q)
  PROVE  IInv'
  BY VerifyQuietInv, ReadInv, InsertUpdateInv, CreditMarkInv, MarkDeliveredInv,
     FinishInv DEF VerifyStep

\* The Ops handler of a delivery call.
LEMMA OpsInv ==
  ASSUME IInv, TypeOK', NEW q \in DepositRequests, OpsStep(q)
  PROVE  IInv'
  <1>. DEFINE r == RefOf[q]
  <1>0. /\ q \in Requests /\ TypeOK /\ DepositFacts(q) /\ r \in Refs
        /\ opsKeys \subseteq ledger /\ q \notin Transitions /\ q \notin Reports
    BY RequestKinds, KindsApart DEF IInv, RequestsRelyOnFacts, RowsAgree
  <1>1. UNCHANGED <<deposits, books, pc, locals>> /\ event' = event
    BY DEF OpsStep, OpsCached, OpsLookup, OpsInsert, OpsRemember, OpsDrop
  <1>2. UNCHANGED <<status, stamps, payload, credited, seenStatus, seenPayload, snap>>
    BY <1>1 DEF deposits, locals
  <1>3. PICK to \in OpsPC :
          /\ ops[q] # "idle" \/ to = "idle"
          /\ ops' = [ops EXCEPT ![q] = to]
          /\ to \in {"remember", "ok"} => r \in ledger'
    <2>1. CASE OpsCached(q)
      <3>1. CASE r \in opsKeys
        BY <1>0, <2>1, <3>1 DEF OpsCached, OpsGoto, OpsPC
      <3>2. CASE r \notin opsKeys
        BY <2>1, <3>2 DEF OpsCached, OpsGoto, OpsPC
      <3>3. QED
        BY <3>1, <3>2
    <2>2. CASE OpsLookup(q)
      BY <2>2 DEF OpsLookup, OpsGoto, OpsPC
    <2>3. CASE OpsInsert(q)
      <3>1. CASE r \in ledger
        BY <2>3, <3>1 DEF OpsInsert, OpsGoto, OpsPC
      <3>2. CASE r \notin ledger
        BY <2>3, <3>2 DEF OpsInsert, OpsGoto, OpsPC
      <3>3. QED
        BY <3>1, <3>2
    <2>4. CASE OpsRemember(q)
      <3>1. r \in ledger' /\ ops[q] = "remember"
        BY <1>0, <2>4 DEF OpsRemember, OpsGoto, DepositFacts
      <3>2. ops' = [ops EXCEPT ![q] = "failed"] \/ ops' = [ops EXCEPT ![q] = "ok"]
        BY <2>4 DEF OpsRemember, OpsGoto
      <3>3. QED
        BY <3>1, <3>2 DEF OpsPC
    <2>5. CASE OpsDrop(q)
      BY <2>5 DEF OpsDrop, OpsPC
    <2>6. QED
      BY <2>1, <2>2, <2>3, <2>4, <2>5 DEF OpsStep
  <1>4. /\ ops'[q] = to
        /\ \A p \in DepositRequests \ {q} : ops'[p] = ops[p]
    BY <1>0, <1>3 DEF TypeOK
  <1>5. /\ ledger' = ledger \/ (ledger' = ledger \cup {r} /\ credited[r] > 0)
        /\ opsKeys' \subseteq ledger'
    <2>1. CASE OpsInsert(q)
      BY <1>0, <2>1 DEF OpsInsert, OpsGoto, DepositFacts
    <2>2. CASE OpsRemember(q)
      BY <1>0, <2>2 DEF OpsRemember, OpsGoto, DepositFacts
    <2>3. CASE OpsCached(q) \/ OpsLookup(q) \/ OpsDrop(q)
      BY <1>0, <2>3 DEF OpsCached, OpsLookup, OpsDrop
    <2>4. QED
      BY <2>1, <2>2, <2>3 DEF OpsStep
  <1>6. Grows /\ \A s \in Refs : RowFacts(s)'
    <2>1. \A s \in Refs : RowFacts(s)
      BY DEF IInv, RowsAgree, StampsInOrder, DeliveredIsBooked, RowFacts
    <2>2. QED
      BY <1>2, <1>5, <2>1 DEF Grows, RowFacts, RowAgrees, InOrder
  <1>7. DepositFacts(q)'
    BY <1>0, <1>2, <1>1, <1>3, <1>4, <1>5 DEF DepositFacts
  <1>8. \A p \in Requests \ {q} : LocalUnchanged(p) /\ snap'[p] = snap[p]
    BY <1>1, <1>2 DEF LocalUnchanged
  <1>9. QED
    BY <1>0, <1>1, <1>4, <1>5, <1>6, <1>7, <1>8, FrameOne

\* Settlement and approval: the row may have changed since it was read, but a
\* stamp is never cleared, so the stage before is still on it.
LEMMA TransitionInv ==
  ASSUME IInv, TypeOK', NEW q \in Transitions,
         StartTransition(q) \/ TransitionStep(q)
  PROVE  IInv'
  <1>. DEFINE r == RefOf[q]
              before == IF q \in Settles THEN "reconciled" ELSE "settled"
  <1>0. /\ q \in Requests /\ q \notin DepositRequests /\ q \notin Reports
        /\ TypeOK /\ TransitionFacts(q) /\ r \in Refs
    BY RequestKinds, KindsApart DEF IInv, RequestsRelyOnFacts
  <1>1. UNCHANGED <<event, books, opsVars, credited, ledger, opsKeys, ops>>
    BY DEF StartTransition, TransitionStep, ReadDeposit, WriteTransition, opsVars, deposits
  <1>2. \A s \in Refs : RowFacts(s)
    BY DEF IInv, RowsAgree, StampsInOrder, DeliveredIsBooked, RowFacts
  <1>3. /\ \A p \in Requests \ {q} : LocalUnchanged(p) /\ snap'[p] = snap[p]
        /\ TransitionFacts(q)'
        /\ Grows
        /\ \A s \in Refs : RowFacts(s)'
    <2>1. CASE StartTransition(q)
      <3>1. Goto(q, "idle", "read") /\ UNCHANGED <<status, stamps, payload>>
        BY <2>1 DEF StartTransition, Start, deposits
      <3>2. /\ pc'[q] = "read"
            /\ \A p \in Requests \ {q} : LocalUnchanged(p) /\ snap'[p] = snap[p]
        BY <1>0, <3>1, GotoFacts
      <3>3. TransitionFacts(q)'
        BY <3>2 DEF TransitionFacts
      <3>4. QED
        BY <1>1, <3>1, <3>2, <3>3, RowsUnchanged DEF deposits
    <2>2. CASE ReadDeposit(q)
      <3>1. UNCHANGED <<status, stamps, payload>>
        BY <2>2 DEF ReadDeposit, deposits
      <3>2. /\ \A p \in Requests \ {q} : LocalUnchanged(p) /\ snap'[p] = snap[p]
            /\ pc'[q] = "write" => status[r] \in AllowedFrom(TargetOf(q)) \ {TargetOf(q), "finance_approved"}
        <4>1. CASE Goto(q, "read", "idle")
          BY <1>0, <4>1, GotoFacts
        <4>2. CASE ~Goto(q, "read", "idle")
          BY <1>0, <2>2, <4>2 DEF ReadDeposit, Move, LocalUnchanged, TypeOK
        <4>3. QED
          BY <4>1, <4>2
      <3>3. pc'[q] = "write" => status[r] = before
        BY <1>0, <3>2 DEF AllowedFrom, TargetOf
      <3>4. status[r] = before => before \in stamps[r]
        BY <1>0, <1>2 DEF RowFacts, RowAgrees, Absent
      <3>5. TransitionFacts(q)'
        BY <3>1, <3>3, <3>4 DEF TransitionFacts
      <3>6. QED
        BY <1>1, <3>1, <3>2, <3>5, RowsUnchanged DEF deposits
    <2>3. CASE WriteTransition(q)
      <3>1. Goto(q, "write", "idle") /\ pc[q] = "write"
        BY <2>3 DEF WriteTransition, Goto, Move
      <3>2. /\ pc'[q] = "idle"
            /\ \A p \in Requests \ {q} : LocalUnchanged(p) /\ snap'[p] = snap[p]
        BY <1>0, <3>1, GotoFacts
      <3>3. TransitionFacts(q)'
        BY <3>2 DEF TransitionFacts
      <3>4. /\ status'[r] = TargetOf(q)
            /\ stamps'[r] = stamps[r] \cup {TargetOf(q)}
            /\ "counted" \in payload'[r] => "counted" \in payload[r]
            /\ \A s \in Refs \ {r} : UNCHANGED <<status[s], stamps[s], payload[s]>>
        BY <1>0, <2>3 DEF WriteTransition, TypeOK, Workflow, TargetOf
      <3>5. before \in stamps[r]
        BY <1>0, <3>1 DEF TransitionFacts
      <3>6. RowFacts(r)'
        <4>1. CASE q \in Settles
          BY <1>0, <1>1, <1>2, <3>4, <3>5, <4>1
             DEF TargetOf, RowFacts, RowAgrees, InOrder, Absent
        <4>2. CASE q \notin Settles
          BY <1>0, <1>1, <1>2, <3>4, <3>5, <4>2
             DEF TargetOf, RowFacts, RowAgrees, InOrder, Absent
        <4>3. QED
          BY <4>1, <4>2
      <3>7. \A s \in Refs : RowFacts(s)'
        BY <1>1, <1>2, <3>4, <3>6 DEF RowFacts, RowAgrees, InOrder
      <3>8. Grows
        BY <1>1, <3>4 DEF Grows, TargetOf, Absent
      <3>9. QED
        BY <3>2, <3>3, <3>7, <3>8
    <2>4. QED
      BY <2>1, <2>2, <2>3 DEF TransitionStep
  <1>4. opsKeys' \subseteq ledger'
    BY <1>1 DEF IInv, RowsAgree
  <1>5. QED
    BY <1>0, <1>1, <1>3, <1>4, FrameOne

\* Reconciliation runs and period closes.
LEMMA ReportInv ==
  ASSUME IInv, TypeOK', NEW q \in Reports, StartReport(q) \/ ReportStep(q)
  PROVE  IInv'
  <1>0. /\ q \in Requests /\ q \notin DepositRequests /\ q \notin Transitions
        /\ TypeOK /\ ReportFacts(q)
    BY RequestKinds, KindsApart DEF IInv, RequestsRelyOnFacts
  <1>1. UNCHANGED <<event, opsVars, credited, payload, ledger, opsKeys, ops>>
    BY DEF StartReport, ReportStep, ReconUpdate, Tally, Store, opsVars, deposits
  <1>2. \A s \in Refs : RowFacts(s)
    BY DEF IInv, RowsAgree, StampsInOrder, DeliveredIsBooked, RowFacts
  <1>3. /\ \A p \in Requests \ {q} : LocalUnchanged(p) /\ snap'[p] = snap[p]
        /\ Grows
        /\ \A s \in Refs : RowFacts(s)'
        /\ ReportFacts(q)'
        /\ \A b \in books' : b \in books \/
             \A s \in Refs : b.snap[s] \in ReconciledStatus => "reconciled" \in stamps[s]
    <2>1. CASE StartReport(q)
      <3>1. PICK to \in {"recon_update", "tally"} : Goto(q, "idle", to)
        BY <2>1 DEF StartReport, Start
      <3>2. UNCHANGED <<deposits, books>> /\ UNCHANGED stamps
        BY <2>1 DEF StartReport, deposits
      <3>3. /\ snap'[q] \in {snap[q], NoRows}
            /\ \A p \in Requests \ {q} : LocalUnchanged(p) /\ snap'[p] = snap[p]
        BY <1>0, <3>1, GotoFacts
      <3>4. ReportFacts(q)'
        BY <1>0, <3>2, <3>3 DEF ReportFacts, NoRows, Absent, ReconciledStatus
      <3>5. QED
        BY <1>1, <3>2, <3>3, <3>4, RowsUnchanged
    <2>2. CASE ReconUpdate(q)
      <3>1. Goto(q, "recon_update", "tally") /\ books' = books
        BY <2>2 DEF ReconUpdate
      <3>2. /\ snap'[q] \in {snap[q], NoRows}
            /\ \A p \in Requests \ {q} : LocalUnchanged(p) /\ snap'[p] = snap[p]
        BY <1>0, <3>1, GotoFacts
      <3>3. \A s \in Refs :
              \/ UNCHANGED <<status[s], stamps[s]>>
              \/ /\ status[s] = "delivered_to_ops" /\ status'[s] = "reconciled"
                 /\ stamps'[s] = stamps[s] \cup {"reconciled"}
        BY <2>2 DEF ReconUpdate
      <3>4. \A s \in Refs : RowFacts(s)'
        BY <1>1, <1>2, <3>3 DEF RowFacts, RowAgrees, InOrder, Absent
      <3>5. Grows
        BY <1>1, <3>3 DEF Grows, Absent
      <3>6. ReportFacts(q)'
        BY <1>0, <3>2, <3>5 DEF ReportFacts, NoRows, Absent, ReconciledStatus, Grows
      <3>7. QED
        BY <3>1, <3>2, <3>4, <3>5, <3>6
    <2>3. CASE Tally(q)
      <3>1. /\ UNCHANGED <<deposits, books, seenStatus, seenPayload>> /\ UNCHANGED stamps
            /\ pc' = [pc EXCEPT ![q] = "store"]
            /\ snap' = [snap EXCEPT ![q] =
                 [s \in Refs |-> IF s \in WindowOf[q] THEN status[s] ELSE Absent]]
        BY <2>3 DEF Tally, Move, deposits
      <3>2. \A p \in Requests \ {q} : LocalUnchanged(p) /\ snap'[p] = snap[p]
        BY <1>0, <3>1 DEF LocalUnchanged, TypeOK
      <3>3. \A s \in Refs : snap'[q][s] \in {status[s], Absent}
        BY <1>0, <3>1 DEF TypeOK
      <3>4. \A s \in Refs : status[s] \in ReconciledStatus => "reconciled" \in stamps[s]
        BY <1>2 DEF RowFacts, RowAgrees, InOrder, ReconciledStatus, Absent
      <3>5. ReportFacts(q)'
        BY <3>1, <3>3, <3>4 DEF ReportFacts, ReconciledStatus, Absent
      <3>6. QED
        BY <1>1, <3>1, <3>2, <3>5, RowsUnchanged
    <2>4. CASE Store(q)
      <3>1. Goto(q, "store", "idle") /\ UNCHANGED deposits /\ UNCHANGED stamps
        BY <2>4 DEF Store, deposits
      <3>2. \A b \in books' : b \in books \/ b.snap = snap[q]
        BY <2>4 DEF Store
      <3>3. /\ snap'[q] \in {snap[q], NoRows}
            /\ \A p \in Requests \ {q} : LocalUnchanged(p) /\ snap'[p] = snap[p]
        BY <1>0, <3>1, GotoFacts
      <3>4. ReportFacts(q)'
        BY <1>0, <3>1, <3>3 DEF ReportFacts, NoRows, Absent, ReconciledStatus
      <3>5. QED
        BY <1>0, <1>1, <3>1, <3>2, <3>3, <3>4, RowsUnchanged DEF ReportFacts
    <2>5. QED
      BY <2>1, <2>2, <2>3, <2>4 DEF ReportStep
  <1>4. opsKeys' \subseteq ledger'
    BY <1>1 DEF IInv, RowsAgree
  <1>5. QED
    BY <1>0, <1>1, <1>3, <1>4, FrameOne

\* A process dies: Ops handlers fail, or everything in flight at Payments is
\* forgotten and the balances are recomputed from the rows.
LEMMA ProcessDeathInv ==
  ASSUME IInv, TypeOK', OpsCrash \/ Restart
  PROVE  IInv'
  <1>0. TypeOK /\ RequestsRelyOnFacts /\ opsKeys \subseteq ledger
    BY DEF IInv, RowsAgree
  <1>1. UNCHANGED <<status, stamps, payload, event, books, ledger, opsKeys>>
    BY DEF OpsCrash, Restart, deposits, opsVars
  <1>2. \A s \in Refs : RowFacts(s)
    BY DEF IInv, RowsAgree, StampsInOrder, DeliveredIsBooked, RowFacts
  <1>3. CASE OpsCrash
    <2>1. UNCHANGED deposits /\ UNCHANGED <<pc, seenStatus, seenPayload, snap, credited>>
      BY <1>3 DEF OpsCrash, locals, deposits
    <2>2. \A q \in DepositRequests : ops'[q] = ops[q] \/ (ops'[q] = "failed" /\ ops[q] # "idle")
      BY <1>3 DEF OpsCrash
    <2>3. \A q \in DepositRequests : DepositFacts(q)'
      BY <1>0, <1>1, <2>1, <2>2 DEF RequestsRelyOnFacts, DepositFacts
    <2>4. QED
      BY <1>0, <1>1, <2>1, <2>3, Frame, RowsUnchanged DEF LocalUnchanged
  <1>4. CASE Restart
    <2>1. /\ \A q \in Requests : /\ pc'[q] = "idle" /\ seenStatus'[q] = Absent
                                 /\ seenPayload'[q] = {} /\ snap'[q] = NoRows
          /\ \A r \in Refs : credited'[r] = IF status[r] = Absent THEN 0 ELSE 1
          /\ ops' = ops
      BY <1>4 DEF Restart, opsVars
    <2>2. \A r \in Refs : credited[r] > 0 => status[r] # Absent
      BY <1>2, ConstantsAssumption DEF RowFacts, RowAgrees
    <2>3. \A r \in Refs : credited[r] > 0 => credited'[r] > 0
      BY <2>1, <2>2
    <2>4. Grows
      BY <1>1, <2>3 DEF Grows
    <2>5. \A r \in Refs : RowFacts(r)'
      BY <1>1, <1>2, <2>1, <2>3 DEF RowFacts, RowAgrees, InOrder
    <2>6. \A q \in DepositRequests : DepositFacts(q)'
      <3>1. TAKE q \in DepositRequests
      <3>2. q \in Requests /\ RefOf[q] \in Refs /\ DepositFacts(q)
        BY <1>0, RequestKinds DEF RequestsRelyOnFacts
      <3>3. QED
        BY <1>1, <2>1, <2>3, <3>2
           DEF DepositFacts, DeliveredStatus, DepositStatus, Absent
    <2>7. \A q \in Transitions : TransitionFacts(q)'
      BY <2>1, RequestKinds DEF TransitionFacts
    <2>8. \A q \in Reports : ReportFacts(q)'
      BY <2>1, RequestKinds DEF ReportFacts, NoRows, ReconciledStatus, Absent
    <2>9. QED
      BY <1>0, <1>1, <2>4, <2>5, <2>6, <2>7, <2>8, Frame
  <1>5. QED
    BY <1>3, <1>4

LEMMA InvInit == Init => IInv
  <1>1. SUFFICES ASSUME Init PROVE IInv
    OBVIOUS
  <1>2. TypeOK
    BY <1>1, InitType
  <1>3. \A r \in Refs : /\ status[r] = Absent /\ stamps[r] = {} /\ payload[r] = {}
                        /\ credited[r] = 0
    BY <1>1 DEF Init
  <1>4. ledger = {} /\ opsKeys = {} /\ books = {}
    BY <1>1 DEF Init
  <1>5. RowsAgree /\ StampsInOrder /\ DeliveredIsBooked /\ ReportsAreBacked
    BY <1>3, <1>4 DEF RowsAgree, RowAgrees, StampsInOrder, InOrder,
       DeliveredIsBooked, ReportsAreBacked
  <1>6. \A q \in DepositRequests : DepositFacts(q)
    <2>1. TAKE q \in DepositRequests
    <2>2. /\ pc[q] = "idle" /\ seenStatus[q] = Absent /\ seenPayload[q] = {}
          /\ ops[q] = "idle"
      BY <1>1, RequestKinds DEF Init
    <2>3. QED
      BY <2>2 DEF DepositFacts, DeliveredStatus, DepositStatus, Absent
  <1>7. /\ \A q \in Transitions : TransitionFacts(q)
        /\ \A q \in Reports : ReportFacts(q)
    BY <1>1, RequestKinds DEF Init, TransitionFacts, ReportFacts, NoRows,
       ReconciledStatus, Absent
  <1>8. DeliveredEventIsBooked
    BY <1>1, RequestKinds DEF Init, DeliveredEventIsBooked
  <1>9. QED
    BY <1>2, <1>5, <1>6, <1>7, <1>8 DEF IInv, RequestsRelyOnFacts

LEMMA InvStep == IInv /\ [Next]_vars => IInv'
  <1>1. SUFFICES ASSUME IInv, [Next]_vars PROVE IInv'
    OBVIOUS
  <1>2. TypeOK'
    BY <1>1, TypeStep DEF IInv
  <1>3. CASE UNCHANGED vars
    <2>1. UNCHANGED <<deposits, event, books, pc, locals, ledger, opsKeys, ops>>
      BY <1>3 DEF vars, opsVars
    <2>2. UNCHANGED <<pc, seenStatus, seenPayload, snap>>
      BY <2>1 DEF locals
    <2>3. Grows /\ \A r \in Refs : RowFacts(r)'
      BY <1>1, <2>1, RowsUnchanged
    <2>4. opsKeys' \subseteq ledger'
      BY <1>1, <2>1 DEF IInv, RowsAgree
    <2>5. QED
      BY <1>1, <1>2, <2>1, <2>2, <2>3, <2>4, Frame DEF LocalUnchanged
  <1>4. CASE \E q \in Webhooks : StartWebhook(q) \/ WebhookStep(q)
    BY <1>1, <1>2, <1>4, WebhookInv
  <1>5. CASE \/ \E q \in Verifies : StartVerify(q)
             \/ \E q \in DepositRequests :
                  VerifyStep(q) \/ VerifyRefused(q) \/ DeliverTimeout(q)
    BY <1>1, <1>2, <1>5, VerifyInv, RequestKinds
  <1>6. CASE \E q \in DepositRequests : OpsStep(q)
    BY <1>1, <1>2, <1>6, OpsInv
  <1>7. CASE \E q \in Transitions : StartTransition(q) \/ TransitionStep(q)
    BY <1>1, <1>2, <1>7, TransitionInv
  <1>8. CASE \E q \in Reports : StartReport(q) \/ ReportStep(q)
    BY <1>1, <1>2, <1>8, ReportInv
  <1>9. CASE OpsCrash \/ Restart
    BY <1>1, <1>2, <1>9, ProcessDeathInv
  <1>10. QED
    BY <1>1, <1>3, <1>4, <1>5, <1>6, <1>7, <1>8, <1>9 DEF Next

-----------------------------------------------------------------------------
\* The invariant holds in every reachable state, for every number of requests,
\* references, events, faults and reports.
THEOREM Inductive == Spec => []IInv
  BY InvInit, InvStep, PTL DEF Spec

\* A deposit recorded as delivered is in the Ops cash ledger.
THEOREM DeliveredBooked == Spec => []DeliveredIsBooked
  <1>1. IInv => DeliveredIsBooked
    BY DEF IInv
  <1>2. QED
    BY <1>1, Inductive, PTL

\* The stage columns fill up in the documented order, in spite of transitions
\* decided on stale rows.
THEOREM StampOrder == Spec => []StampsInOrder
  <1>1. IInv => StampsInOrder
    BY DEF IInv
  <1>2. QED
    BY <1>1, Inductive, PTL

\* What Ops booked is in the balance of its reserved account.
THEOREM DeliveredCredited == Spec => []DeliveredIsCredited
  <1>1. IInv => DeliveredIsCredited
    BY DEF IInv, RowsAgree, RowAgrees, DeliveredIsCredited
  <1>2. QED
    BY <1>1, Inductive, PTL

\* Stored reconciliation runs and period closes only count, as reconciled,
\* deposits that are in the Ops ledger.
THEOREM ReportsBacked == Spec => []ReportsAreBacked
  <1>1. IInv => ReportsAreBacked
    BY DEF IInv
  <1>2. QED
    BY <1>1, Inductive, PTL

\* An event marked delivered stands for a booked deposit.
THEOREM EventsBooked == Spec => []DeliveredEventIsBooked
  <1>1. IInv => DeliveredEventIsBooked
    BY DEF IInv
  <1>2. QED
    BY <1>1, Inductive, PTL

\* The rows of the two services agree, and every request in flight may rely on
\* what its code takes for granted at the statement it has reached.
THEOREM RowsAndRequests == Spec => [](RowsAgree /\ RequestsRelyOnFacts)
  <1>1. IInv => RowsAgree /\ RequestsRelyOnFacts
    BY DEF IInv
  <1>2. QED
    BY <1>1, Inductive, PTL

-----------------------------------------------------------------------------
\* The deposit pipeline implements DepositLifecycle, stage by stage.

\* A step that moves the deposits of a set on by one stage each, and leaves the
\* others where they are, is a step of the lifecycle.
LEMMA AdvanceStep ==
  ASSUME NEW R \in SUBSET Refs,
         \A r \in R : StageOf(r) < 6 /\ StageOf(r)' = StageOf(r) + 1,
         \A r \in Refs \ R : StageOf(r)' = StageOf(r)
  PROVE  Lifecycle!Next
  <1>. DEFINE stage == [r \in Refs |-> StageOf(r)]
  <1>1. \A r \in R : stage[r] < 6
    OBVIOUS
  <1>2. stage' = [r \in Refs |-> IF r \in R THEN stage[r] + 1 ELSE stage[r]]
    OBVIOUS
  <1>3. Lifecycle!Advance(R)
    BY <1>1, <1>2 DEF Lifecycle!Advance, Lifecycle!Approved
  <1>4. QED
    BY <1>3 DEF Lifecycle!Next

\* The same for one deposit, which may also stay where it is.
LEMMA AdvanceOne ==
  ASSUME NEW r \in Refs,
         \/ StageOf(r) < 6 /\ StageOf(r)' = StageOf(r) + 1
         \/ StageOf(r)' = StageOf(r),
         \A s \in Refs \ {r} : StageOf(s)' = StageOf(s)
  PROVE  [Lifecycle!Next]_[s \in Refs |-> StageOf(s)]
  <1>1. CASE StageOf(r) < 6 /\ StageOf(r)' = StageOf(r) + 1
    <2>. DEFINE R == {r}
    <2>1. /\ R \in SUBSET Refs
          /\ \A s \in R : StageOf(s) < 6 /\ StageOf(s)' = StageOf(s) + 1
          /\ \A s \in Refs \ R : StageOf(s)' = StageOf(s)
      BY <1>1
    <2>. HIDE DEF R
    <2>2. Lifecycle!Next
      BY <2>1, AdvanceStep
    <2>3. QED
      BY <2>2
  <1>2. CASE StageOf(r)' = StageOf(r)
    <2>1. \A s \in Refs : StageOf(s)' = StageOf(s)
      BY <1>2
    <2>2. QED
      BY <2>1
  <1>3. QED
    BY <1>1, <1>2

\* A stamp put on one row leaves every other deposit's stage alone.
LEMMA OthersStay ==
  ASSUME TypeOK, NEW r \in Refs, NEW S,
         \/ stamps' = [stamps EXCEPT ![r] = S] /\ ledger' = ledger
         \/ stamps' = stamps /\ ledger' = ledger \cup {r}
  PROVE  \A s \in Refs \ {r} : StageOf(s)' = StageOf(s)
  BY DEF TypeOK, StageOf

\* Only six statements stamp a row or book a transaction.
LEMMA StageWriters ==
  ASSUME Next
  PROVE  \/ UNCHANGED <<stamps, ledger>>
         \/ \E q \in DepositRequests :
              InsertDeposit(q) \/ UpdateDeposit(q) \/ MarkDelivered(q) \/ OpsInsert(q)
         \/ \E q \in Transitions : WriteTransition(q)
         \/ \E q \in Reports : ReconUpdate(q)
  <1>1. CASE \E q \in Webhooks : StartWebhook(q) \/ WebhookStep(q)
    BY <1>1 DEF StartWebhook, WebhookStep, EventLookup, EventInsert, EventAccount,
                EventQuarantine, deposits, opsVars
  <1>2. CASE \E q \in Verifies : StartVerify(q)
    BY <1>2 DEF StartVerify, deposits, opsVars
  <1>3. ASSUME NEW q \in DepositRequests,
               VerifyStep(q) \/ VerifyRefused(q) \/ DeliverTimeout(q) \/ OpsStep(q)
        PROVE  \/ UNCHANGED <<stamps, ledger>>
               \/ InsertDeposit(q) \/ UpdateDeposit(q) \/ MarkDelivered(q) \/ OpsInsert(q)
    <2>1. CASE VerifyRefused(q) \/ DeliverTimeout(q) \/ VerifyPaid(q)
               \/ VerifyIncomplete(q) \/ FindAccount(q) \/ FindDeposit(q)
      BY <2>1 DEF VerifyRefused, DeliverTimeout, VerifyPaid, VerifyIncomplete,
                  FindAccount, FindDeposit, deposits, opsVars
    <2>2. CASE Reread(q) \/ Credit(q) \/ Mark(q) \/ Deliver(q) \/ DeliverReply(q)
               \/ Finish(q)
      BY <2>2 DEF Reread, Credit, Mark, Deliver, DeliverReply, Finish, deposits, opsVars
    <2>3. CASE OpsCached(q) \/ OpsLookup(q) \/ OpsRemember(q) \/ OpsDrop(q)
      BY <2>3 DEF OpsCached, OpsLookup, OpsRemember, OpsDrop, deposits
    <2>4. QED
      BY <1>3, <2>1, <2>2, <2>3 DEF VerifyStep, OpsStep
  <1>4. CASE \E q \in Transitions : StartTransition(q) \/ TransitionStep(q)
    BY <1>4 DEF StartTransition, TransitionStep, ReadDeposit, deposits, opsVars
  <1>5. CASE \E q \in Reports : StartReport(q) \/ ReportStep(q)
    BY <1>5 DEF StartReport, ReportStep, Tally, Store, deposits, opsVars
  <1>6. CASE OpsCrash \/ Restart
    BY <1>6 DEF OpsCrash, Restart, deposits, opsVars
  <1>7. QED
    BY <1>1, <1>2, <1>3, <1>4, <1>5, <1>6 DEF Next

\* A deposit's first row brings it to the first stage, and a later
\* verification of the same reference changes no stage (InsertDeposit,
\* UpdateDeposit).
LEMMA VerifyStage ==
  ASSUME IInv, NEW q \in DepositRequests, InsertDeposit(q) \/ UpdateDeposit(q)
  PROVE  [Lifecycle!Next]_[s \in Refs |-> StageOf(s)]
  <1>. DEFINE r == RefOf[q]
  <1>0. /\ r \in Refs /\ TypeOK
        /\ RowAgrees(r) /\ DepositFacts(q)
    BY RequestKinds DEF IInv, RowsAgree, RequestsRelyOnFacts
  <1>1. CASE UNCHANGED <<stamps, ledger>>
    <2>1. \A s \in Refs : StageOf(s)' = StageOf(s)
      BY <1>1 DEF StageOf
    <2>2. QED
      BY <2>1
  <1>2. CASE InsertDeposit(q) /\ status[r] = Absent
    <2>1. stamps' = [stamps EXCEPT ![r] = {"matched"}] /\ ledger' = ledger
      BY <1>2 DEF InsertDeposit, opsVars
    <2>2. stamps[r] = {} /\ r \notin ledger
      BY <1>0, <1>2 DEF RowAgrees
    <2>3. StageOf(r) = 0 /\ StageOf(r)' = 1
      BY <1>0, <2>1, <2>2 DEF StageOf, TypeOK
    <2>4. \A s \in Refs \ {r} : StageOf(s)' = StageOf(s)
      BY <1>0, <2>1, OthersStay
    <2>5. QED
      BY <1>0, <2>3, <2>4, AdvanceOne
  <1>3. CASE UpdateDeposit(q)
    <2>1. /\ stamps' = [stamps EXCEPT ![r] = stamps[r] \cup {"matched"}]
          /\ ledger' = ledger
      BY <1>3 DEF UpdateDeposit, opsVars
    <2>2. "matched" \in stamps[r]
      BY <1>0, <1>3 DEF UpdateDeposit, Goto, Move, RowAgrees, DepositFacts
    <2>3. StageOf(r)' = StageOf(r)
      BY <1>0, <2>1, <2>2 DEF StageOf, TypeOK
    <2>4. \A s \in Refs \ {r} : StageOf(s)' = StageOf(s)
      BY <1>0, <2>1, OthersStay
    <2>5. QED
      BY <1>0, <2>3, <2>4, AdvanceOne
  <1>4. QED
    BY <1>1, <1>2, <1>3 DEF InsertDeposit, deposits, opsVars

\* Ops books a deposit that has a row and has not been delivered; a delivered
\* mark is put on a deposit Ops has booked (OpsInsert, MarkDelivered).
LEMMA DeliveryStage ==
  ASSUME IInv, NEW q \in DepositRequests, OpsInsert(q) \/ MarkDelivered(q)
  PROVE  [Lifecycle!Next]_[s \in Refs |-> StageOf(s)]
  <1>. DEFINE r == RefOf[q]
  <1>0. /\ r \in Refs /\ TypeOK
        /\ RowAgrees(r) /\ InOrder(r) /\ DepositFacts(q)
        /\ "delivered_to_ops" \in stamps[r] => r \in ledger
    BY RequestKinds DEF IInv, RowsAgree, RequestsRelyOnFacts, StampsInOrder,
                        DeliveredIsBooked
  <1>1. CASE OpsInsert(q)
    <2>1. stamps' = stamps /\ ledger' = ledger \cup {r}
      BY <1>1 DEF OpsInsert, deposits
    <2>2. "matched" \in stamps[r]
      <3>1. credited[r] > 0 /\ ~(0 > 0)
        BY <1>0, <1>1 DEF OpsInsert, OpsGoto, DepositFacts
      <3>2. QED
        BY <1>0, <3>1 DEF RowAgrees
    <2>3. CASE r \in ledger
      <3>1. StageOf(r)' = StageOf(r)
        BY <2>1, <2>3 DEF StageOf
      <3>2. \A s \in Refs \ {r} : StageOf(s)' = StageOf(s)
        BY <1>0, <2>1, OthersStay
      <3>3. QED
        BY <1>0, <3>1, <3>2, AdvanceOne
    <2>4. CASE r \notin ledger
      <3>1. StageOf(r) = 1 /\ StageOf(r)' = 2
        BY <1>0, <2>1, <2>2, <2>4 DEF StageOf, InOrder
      <3>2. \A s \in Refs \ {r} : StageOf(s)' = StageOf(s)
        BY <1>0, <2>1, OthersStay
      <3>3. QED
        BY <1>0, <3>1, <3>2, AdvanceOne
    <2>5. QED
      BY <2>3, <2>4
  <1>2. CASE MarkDelivered(q)
    <2>1. /\ stamps' = [stamps EXCEPT ![r] = stamps[r] \cup {"delivered_to_ops"}]
          /\ ledger' = ledger
      BY <1>2 DEF MarkDelivered, opsVars
    <2>2. r \in ledger
      BY <1>0, <1>2 DEF MarkDelivered, Goto, Move, DepositFacts
    <2>3. stamps'[r] = stamps[r] \cup {"delivered_to_ops"}
      BY <1>0, <2>1 DEF TypeOK
    <2>4. CASE "delivered_to_ops" \in stamps[r]
      <3>1. StageOf(r)' = StageOf(r)
        BY <2>1, <2>3, <2>4 DEF StageOf
      <3>2. \A s \in Refs \ {r} : StageOf(s)' = StageOf(s)
        BY <1>0, <2>1, OthersStay
      <3>3. QED
        BY <1>0, <3>1, <3>2, AdvanceOne
    <2>5. CASE "delivered_to_ops" \notin stamps[r]
      <3>1. StageOf(r) = 2 /\ StageOf(r)' = 3
        BY <1>0, <2>1, <2>2, <2>3, <2>5 DEF StageOf, InOrder
      <3>2. \A s \in Refs \ {r} : StageOf(s)' = StageOf(s)
        BY <1>0, <2>1, OthersStay
      <3>3. QED
        BY <1>0, <3>1, <3>2, AdvanceOne
    <2>6. QED
      BY <2>4, <2>5
  <1>3. QED
    BY <1>1, <1>2

\* Settling and approving take a deposit on from the stage before, or write a
\* stamp it already has (transitionDeposit).
LEMMA TransitionStage ==
  ASSUME IInv, NEW q \in Transitions, WriteTransition(q)
  PROVE  [Lifecycle!Next]_[s \in Refs |-> StageOf(s)]
  <1>. DEFINE r == RefOf[q]
  <1>0. /\ r \in Refs /\ TypeOK
        /\ InOrder(r) /\ TransitionFacts(q)
    BY RequestKinds DEF IInv, RequestsRelyOnFacts, StampsInOrder
  <1>1. /\ stamps' = [stamps EXCEPT ![r] = stamps[r] \cup {TargetOf(q)}]
        /\ ledger' = ledger
        /\ pc[q] = "write"
    BY DEF WriteTransition, opsVars, Goto, Move
  <1>2. stamps'[r] = stamps[r] \cup {TargetOf(q)}
    BY <1>0, <1>1 DEF TypeOK
  <1>3. CASE q \in Settles
    <2>1. TargetOf(q) = "settled" /\ "reconciled" \in stamps[r]
      BY <1>0, <1>1, <1>3 DEF TargetOf, TransitionFacts
    <2>2. CASE "settled" \in stamps[r]
      <3>1. StageOf(r)' = StageOf(r)
        BY <1>1, <1>2, <2>1, <2>2 DEF StageOf
      <3>2. \A s \in Refs \ {r} : StageOf(s)' = StageOf(s)
        BY <1>0, <1>1, OthersStay
      <3>3. QED
        BY <1>0, <3>1, <3>2, AdvanceOne
    <2>3. CASE "settled" \notin stamps[r]
      <3>1. StageOf(r) = 4 /\ StageOf(r)' = 5
        BY <1>0, <1>1, <1>2, <2>1, <2>3 DEF StageOf, InOrder
      <3>2. \A s \in Refs \ {r} : StageOf(s)' = StageOf(s)
        BY <1>0, <1>1, OthersStay
      <3>3. QED
        BY <1>0, <3>1, <3>2, AdvanceOne
    <2>4. QED
      BY <2>2, <2>3
  <1>4. CASE q \notin Settles
    <2>1. TargetOf(q) = "finance_approved" /\ "settled" \in stamps[r]
      BY <1>0, <1>1, <1>4 DEF TargetOf, TransitionFacts
    <2>2. CASE "finance_approved" \in stamps[r]
      <3>1. StageOf(r)' = StageOf(r)
        BY <1>1, <1>2, <2>1, <2>2 DEF StageOf
      <3>2. \A s \in Refs \ {r} : StageOf(s)' = StageOf(s)
        BY <1>0, <1>1, OthersStay
      <3>3. QED
        BY <1>0, <3>1, <3>2, AdvanceOne
    <2>3. CASE "finance_approved" \notin stamps[r]
      <3>1. StageOf(r) = 5 /\ StageOf(r)' = 6
        BY <1>0, <1>1, <1>2, <2>1, <2>3 DEF StageOf, InOrder
      <3>2. \A s \in Refs \ {r} : StageOf(s)' = StageOf(s)
        BY <1>0, <1>1, OthersStay
      <3>3. QED
        BY <1>0, <3>1, <3>2, AdvanceOne
    <2>4. QED
      BY <2>2, <2>3
  <1>5. QED
    BY <1>3, <1>4

\* A reconciliation run takes every delivered deposit of its window on at once.
LEMMA ReconStage ==
  ASSUME IInv, NEW q \in Reports, ReconUpdate(q)
  PROVE  [Lifecycle!Next]_[s \in Refs |-> StageOf(s)]
  <1>. DEFINE delivered == {r \in WindowOf[q] : status[r] = "delivered_to_ops"}
              R == {r \in delivered : "reconciled" \notin stamps[r]}
  <1>0. WindowOf[q] \subseteq Refs
    BY ConstantsAssumption
  <1>1. R \in SUBSET Refs
    BY <1>0
  <1>2. /\ ledger' = ledger
        /\ \A r \in Refs : stamps'[r] = IF r \in delivered
                                         THEN stamps[r] \cup {"reconciled"}
                                         ELSE stamps[r]
    BY DEF ReconUpdate, opsVars
  <1>3. ASSUME NEW r \in R
        PROVE  StageOf(r) = 3 /\ StageOf(r)' = 4
    <2>1. /\ RowAgrees(r) /\ InOrder(r) /\ r \in Refs
          /\ status[r] = "delivered_to_ops" /\ "reconciled" \notin stamps[r]
          /\ r \in delivered
      BY <1>1 DEF IInv, RowsAgree, StampsInOrder
    <2>2. "delivered_to_ops" \in stamps[r]
      BY <2>1 DEF RowAgrees, Absent
    <2>3. stamps'[r] = stamps[r] \cup {"reconciled"}
      BY <1>2, <2>1
    <2>4. QED
      BY <2>1, <2>2, <2>3 DEF StageOf, InOrder
  <1>4. ASSUME NEW r \in Refs \ R
        PROVE  StageOf(r)' = StageOf(r)
    <2>1. stamps'[r] = stamps[r] /\ (r \in ledger' <=> r \in ledger)
      BY <1>2
    <2>2. QED
      BY <2>1 DEF StageOf
  <1>5. \A r \in R : StageOf(r) < 6 /\ StageOf(r)' = StageOf(r) + 1
    BY <1>3
  <1>. HIDE DEF R
  <1>6. Lifecycle!Next
    BY <1>1, <1>4, <1>5, AdvanceStep
  <1>7. QED
    BY <1>6

\* Every deposit passes through the documented stages one at a time, from
\* recorded to booked, acknowledged, reconciled, settled and approved, and
\* never goes back: the pipeline implements DepositLifecycle.
THEOREM Refinement == Spec => ImplementsLifecycle
  <1>1. Init => Lifecycle!Init
    <2>1. ASSUME Init, NEW r \in Refs PROVE StageOf(r) = 0
      BY <2>1 DEF Init, StageOf
    <2>2. QED
      BY <2>1 DEF Lifecycle!Init, Lifecycle!Unknown
  <1>2. IInv /\ [Next]_vars => [Lifecycle!Next]_[r \in Refs |-> StageOf(r)]
    <2>1. ASSUME IInv, Next
          PROVE  [Lifecycle!Next]_[r \in Refs |-> StageOf(r)]
      <3>1. CASE UNCHANGED <<stamps, ledger>>
        <4>1. \A r \in Refs : StageOf(r)' = StageOf(r)
          BY <3>1 DEF StageOf
        <4>2. QED
          BY <4>1
      <3>2. QED
        BY <2>1, <3>1, StageWriters, VerifyStage, DeliveryStage, TransitionStage,
           ReconStage
    <2>2. ASSUME UNCHANGED vars
          PROVE  UNCHANGED [r \in Refs |-> StageOf(r)]
      <3>1. stamps' = stamps /\ ledger' = ledger
        BY <2>2 DEF vars, deposits, opsVars
      <3>2. \A r \in Refs : StageOf(r)' = StageOf(r)
        BY <3>1 DEF StageOf
      <3>3. QED
        BY <3>2
    <2>3. QED
      BY <2>1, <2>2
  <1>3. QED
    BY <1>1, <1>2, Inductive, PTL DEF Spec, ImplementsLifecycle, Lifecycle!Spec
=============================================================================
