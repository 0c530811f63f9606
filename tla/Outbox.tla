-------------------------------- MODULE Outbox --------------------------------
(***************************************************************************)
(* The notification outbox of the Ops API (ops_notification_deliveries) and *)
(* the notification-dispatch runs that drain it into the gateway.           *)
(*                                                                         *)
(* A notice is a row, named by what makes it unique: its deterministic id,  *)
(* or its alert, recipient and channel.  Every statement and the call of    *)
(* the gateway are steps of their own.  In which order the claimable        *)
(* notices are taken (created_at) is left open, payloads are left out.      *)
(***************************************************************************)
EXTENDS Naturals, FiniteSets

CONSTANTS
  Notices,
  NoNotice,
  Dispatchers,  \* notification-dispatch runs that may be executed at once
  MaxAttempts,  \* 5 in the code
  MaxFaults     \* bound: deaths and failed statements

ASSUME OutboxAssumption ==
  /\ NoNotice \notin Notices
  /\ MaxAttempts \in Nat \ {0}
  /\ MaxFaults \in Nat

\* Mutant: a notice that failed once is not taken again.
ToSendFirst == {"pending"}

ToSend == {"pending", "retrying"}

NoticeStatus == {"absent", "sending", "delivered", "failed"} \cup ToSend

VARIABLES
  notice,    \* [Notices -> NoticeStatus]
  attempt,   \* [Notices -> 0 .. MaxAttempts], the attempt column
  dueNow,    \* [Notices -> BOOLEAN]: next_attempt_at is null or past
  accepted,  \* [Notices -> 0 .. MaxAttempts + 1]: how often the gateway took it
  dpc,       \* [Dispatchers -> what the dispatcher does next]
  taken,     \* [Dispatchers -> Notices \cup {NoNotice}]
  try,       \* [Dispatchers -> 0 .. MaxAttempts]: the attempt the claim returned
  faults

noticeRows == <<notice, attempt, dueNow>>
outboxVars == <<noticeRows, accepted, dpc, taken, try, faults>>

OutboxInit ==
  /\ notice = [n \in Notices |-> "absent"]
  /\ attempt = [n \in Notices |-> 0]
  /\ dueNow = [n \in Notices |-> FALSE]
  /\ accepted = [n \in Notices |-> 0]
  /\ dpc = [d \in Dispatchers |-> "idle"]
  /\ taken = [d \in Dispatchers |-> NoNotice]
  /\ try = [d \in Dispatchers |-> 0]
  /\ faults = 0

DGoto(d, from, to) == dpc[d] = from /\ dpc' = [dpc EXCEPT ![d] = to]

\* A dispatcher that is done with its notice, or dies, forgets it.
Release(d) ==
  /\ taken' = [taken EXCEPT ![d] = NoNotice]
  /\ try' = [try EXCEPT ![d] = 0]

-----------------------------------------------------------------------------
\* The INSERT ... ON CONFLICT DO NOTHING of queue and of ensureAlert: a notice
\* that is there already stays as it is.
Queue(n) ==
  /\ notice' = [notice EXCEPT ![n] = IF @ = "absent" THEN "pending" ELSE @]
  /\ dueNow' = [dueNow EXCEPT ![n] = IF notice[n] = "absent" THEN TRUE ELSE @]
  /\ UNCHANGED <<attempt, accepted, dpc, taken, try, faults>>

\* claimNext, the SELECT.
SelectNotice(d) ==
  \E n \in Notices :
    /\ notice[n] \in ToSend /\ dueNow[n]
    /\ DGoto(d, "idle", "claim")
    /\ taken' = [taken EXCEPT ![d] = n]
    /\ UNCHANGED <<noticeRows, accepted, try, faults>>

\* Mutant: the UPDATE does not ask for the status again.
TakeUnchecked(d) ==
  LET n == taken[d] IN
  /\ DGoto(d, "claim", "send")
  /\ notice' = [notice EXCEPT ![n] = "sending"]
  /\ attempt' = [attempt EXCEPT ![n] = @ + 1]
  /\ try' = [try EXCEPT ![d] = attempt[n] + 1]
  /\ UNCHANGED <<dueNow, accepted, taken, faults>>

\* Mutant: the UPDATE does not count the attempt.
TakeUncounted(d) ==
  LET n == taken[d] IN
  /\ DGoto(d, "claim", "send")
  /\ notice[n] \in ToSend
  /\ notice' = [notice EXCEPT ![n] = "sending"]
  /\ try' = [try EXCEPT ![d] = attempt[n]]
  /\ UNCHANGED <<attempt, dueNow, accepted, taken, faults>>

\* ... and the UPDATE, if the notice still waits.
Take(d) ==
  LET n == taken[d] IN
  /\ DGoto(d, "claim", "send")
  /\ notice[n] \in ToSend
  /\ notice' = [notice EXCEPT ![n] = "sending"]
  /\ attempt' = [attempt EXCEPT ![n] = @ + 1]
  /\ try' = [try EXCEPT ![d] = attempt[n] + 1]
  /\ UNCHANGED <<dueNow, accepted, taken, faults>>

\* Another dispatcher was faster: the batch ends.
MissedIt(d) ==
  /\ DGoto(d, "claim", "idle")
  /\ notice[taken[d]] \notin ToSend
  /\ Release(d)
  /\ UNCHANGED <<noticeRows, accepted, faults>>

\* accepted is counted up to one more than the attempts allowed.
Accept(d) ==
  accepted' = [accepted EXCEPT ![taken[d]] = IF @ > MaxAttempts THEN @ ELSE @ + 1]

\* send: the gateway takes the notice and says so, takes it and is not heard
\* within 10 s, or refuses it or is not reached.
SendAccepted(d) ==
  /\ DGoto(d, "send", "succeeded")
  /\ Accept(d)
  /\ UNCHANGED <<noticeRows, taken, try, faults>>

SendUnheard(d) ==
  /\ DGoto(d, "send", "threw")
  /\ Accept(d)
  /\ UNCHANGED <<noticeRows, taken, try, faults>>

SendRefused(d) ==
  /\ DGoto(d, "send", "threw")
  /\ UNCHANGED <<noticeRows, accepted, taken, try, faults>>

RecordDelivered(d) ==
  /\ DGoto(d, "succeeded", "idle")
  /\ notice' = [notice EXCEPT ![taken[d]] = "delivered"]
  /\ dueNow' = [dueNow EXCEPT ![taken[d]] = TRUE]
  /\ Release(d)
  /\ UNCHANGED <<attempt, accepted, faults>>

\* The UPDATE to delivered stands in the try block of send.
RecordThrows(d) ==
  /\ DGoto(d, "succeeded", "threw")
  /\ faults < MaxFaults
  /\ faults' = faults + 1
  /\ UNCHANGED <<noticeRows, accepted, taken, try>>

Retries(d) == try[d] < MaxAttempts

RecordFailure(d) ==
  /\ DGoto(d, "threw", "idle")
  /\ notice' = [notice EXCEPT ![taken[d]] = IF Retries(d) THEN "retrying" ELSE "failed"]
  /\ dueNow' = [dueNow EXCEPT ![taken[d]] = ~Retries(d)]
  /\ Release(d)
  /\ UNCHANGED <<attempt, accepted, faults>>

\* next_attempt_at passes.
Elapse(n) ==
  /\ notice[n] = "retrying" /\ ~dueNow[n]
  /\ dueNow' = [dueNow EXCEPT ![n] = TRUE]
  /\ UNCHANGED <<notice, attempt, accepted, dpc, taken, try, faults>>

\* The process dies at any statement, or the statement of the catch block fails.
DispatcherDies(d) ==
  /\ dpc[d] # "idle"
  /\ faults < MaxFaults
  /\ faults' = faults + 1
  /\ dpc' = [dpc EXCEPT ![d] = "idle"]
  /\ Release(d)
  /\ UNCHANGED <<noticeRows, accepted>>

Send(d) == SendAccepted(d) \/ SendUnheard(d) \/ SendRefused(d)

DispatchStep(d) ==
  \/ SelectNotice(d) \/ Take(d) \/ MissedIt(d)
  \/ Send(d) \/ RecordDelivered(d) \/ RecordFailure(d)

Dispatch ==
  \/ \E d \in Dispatchers : DispatchStep(d) \/ RecordThrows(d) \/ DispatcherDies(d)
  \/ \E n \in Notices : Elapse(n)

OutboxNext == Dispatch \/ \E n \in Notices : Queue(n)

OutboxSpec == OutboxInit /\ [][OutboxNext]_outboxVars

\* notification-dispatch is enqueued every five minutes for ever, a call in
\* flight ends, time passes.
OutboxFairness ==
  /\ \A d \in Dispatchers : WF_outboxVars(DispatchStep(d))
  /\ \A n \in Notices : WF_outboxVars(Elapse(n))
OutboxFairSpec == OutboxSpec /\ OutboxFairness

-----------------------------------------------------------------------------
OutboxTypeOK ==
  /\ notice \in [Notices -> NoticeStatus]
  /\ attempt \in [Notices -> 0 .. MaxAttempts]
  /\ dueNow \in [Notices -> BOOLEAN]
  /\ accepted \in [Notices -> 0 .. MaxAttempts + 1]
  /\ dpc \in [Dispatchers -> {"idle", "claim", "send", "succeeded", "threw"}]
  /\ taken \in [Dispatchers -> Notices \cup {NoNotice}]
  /\ try \in [Dispatchers -> 0 .. MaxAttempts]
  /\ faults \in Nat

Sending(d, n) == taken[d] = n /\ dpc[d] \in {"send", "succeeded", "threw"}

\* A notice is in the hands of one dispatcher, which counts its attempts right,
\* and is marked sending for as long (claimNext's conditional UPDATE).
OneSender ==
  \A n \in Notices, d, f \in Dispatchers :
    Sending(d, n) =>
      notice[n] = "sending" /\ try[d] = attempt[n] /\ (Sending(f, n) => d = f)

\* The gateway is handed a notice at most once per attempt, whatever answers
\* were lost on the way: a recipient sees it five times at most.
SendsWithinAttempts == \A n \in Notices : accepted[n] <= attempt[n]

\* A notice recorded as delivered was taken by the gateway, one given up on has
\* had all its attempts (deliver).
RecordsAreTrue ==
  \A n \in Notices :
    /\ notice[n] = "delivered" => accepted[n] > 0
    /\ notice[n] = "failed" => attempt[n] = MaxAttempts

\* A notice that was delivered or given up stays so, although the jobs that
\* queue it run again (the deterministic id in queue).
SettledNoticeIsFinal ==
  [][\A n \in Notices :
       notice[n] \in {"delivered", "failed"} => notice'[n] = notice[n]]_notice

\* A notice that is marked sending and that no dispatcher has in hand: nothing
\* in the code takes it back.
Stranded(n) == notice[n] = "sending" /\ \A d \in Dispatchers : ~Sending(d, n)

\* Every notice that is not stranded is delivered or given up in the end.
NoticesSettle ==
  \A n \in Notices :
    notice[n] # "absent" ~> notice[n] \in {"delivered", "failed"} \/ Stranded(n)
=============================================================================
