---------------------- MODULE AlertsAndRecordsProofs -----------------------
(***************************************************************************)
(* The outbox, for every number of notices, dispatchers, attempts and       *)
(* faults; Alerts, for every number of episodes, evaluations and officers:  *)
(* the composition implements the outbox it is composed with, so that what  *)
(* is shown of the outbox holds of it, and an episode raises one alert; and *)
(* Records, for every set of requests, of handlers looked at together and   *)
(* of values: what the handlers of the ops API do to a row when any number  *)
(* of them work on it, and what a restart leaves.                           *)
(***************************************************************************)
EXTENDS Alerts, Records, SumFacts


\* A dispatcher that is not idle has selected a row.
TakenOK ==
  \A d \in Dispatchers :
    dpc[d] # "idle" => taken[d] \in Notices /\ notice[taken[d]] # "absent"

\* What the attempt column says of a notice that nobody is sending.
AttemptsLeft ==
  \A n \in Notices :
    /\ notice[n] = "absent" => attempt[n] = 0
    /\ notice[n] \in ToSend => attempt[n] < MaxAttempts

\* A dispatcher about to call the gateway has an attempt that was not used, one
\* that had its answer has been heard.
CallOK ==
  \A d \in Dispatchers :
    /\ dpc[d] = "send" => accepted[taken[d]] < attempt[taken[d]]
    /\ dpc[d] = "succeeded" => accepted[taken[d]] > 0

Shape == OutboxTypeOK /\ TakenOK /\ OneSender
Books == AttemptsLeft /\ SendsWithinAttempts /\ CallOK /\ RecordsAreTrue
IInv  == Shape /\ Books

-----------------------------------------------------------------------------
LEMMA InitIInv == OutboxInit => IInv
<1> SUFFICES ASSUME OutboxInit PROVE IInv
  OBVIOUS
<1> USE OutboxAssumption DEF OutboxInit
<1>1. OutboxTypeOK BY DEF OutboxTypeOK, NoticeStatus
<1>2. TakenOK /\ OneSender BY DEF TakenOK, OneSender, Sending
<1>3. Books BY DEF Books, AttemptsLeft, SendsWithinAttempts, CallOK, RecordsAreTrue, ToSend
<1> QED BY <1>1, <1>2, <1>3 DEF IInv, Shape

LEMMA QueueStep ==
  ASSUME IInv, NEW n \in Notices, Queue(n)
  PROVE  IInv'
<1> USE OutboxAssumption DEF IInv, Shape, Books
<1>1. /\ notice' = [notice EXCEPT ![n] = IF notice[n] = "absent" THEN "pending" ELSE notice[n]]
      /\ dueNow' = [dueNow EXCEPT ![n] = IF notice[n] = "absent" THEN TRUE ELSE dueNow[n]]
      /\ UNCHANGED <<attempt, accepted, dpc, taken, try, faults>>
  BY DEF Queue, OutboxTypeOK
<1>2. \A m \in Notices :
        \/ notice'[m] = notice[m]
        \/ m = n /\ notice[m] = "absent" /\ notice'[m] = "pending"
  <2>1. notice'[n] = IF notice[n] = "absent" THEN "pending" ELSE notice[n]
    BY <1>1 DEF OutboxTypeOK
  <2>2. \A m \in Notices : m # n => notice'[m] = notice[m]
    BY <1>1 DEF OutboxTypeOK
  <2> QED BY <2>1, <2>2
<1>3. OutboxTypeOK'
  BY <1>1 DEF OutboxTypeOK, NoticeStatus, ToSend
<1>4. TakenOK' BY <1>1, <1>2 DEF TakenOK
<1>5. OneSender' BY <1>1, <1>2 DEF OneSender, Sending
<1>6. AttemptsLeft' BY <1>1, <1>2 DEF AttemptsLeft, ToSend
<1>7. SendsWithinAttempts' /\ CallOK' BY <1>1 DEF SendsWithinAttempts, CallOK
<1>8. RecordsAreTrue' BY <1>1, <1>2 DEF RecordsAreTrue
<1> QED BY <1>3, <1>4, <1>5, <1>6, <1>7, <1>8

LEMMA SelectStep ==
  ASSUME IInv, NEW d \in Dispatchers, SelectNotice(d)
  PROVE  IInv'
<1> USE OutboxAssumption DEF IInv, Shape, Books
<1>1. PICK n \in Notices :
        /\ notice[n] \in ToSend
        /\ dpc[d] = "idle" /\ dpc' = [dpc EXCEPT ![d] = "claim"]
        /\ taken' = [taken EXCEPT ![d] = n]
        /\ UNCHANGED <<notice, attempt, dueNow, accepted, try, faults>>
  BY DEF SelectNotice, DGoto, noticeRows
<1>2. OutboxTypeOK' BY <1>1 DEF OutboxTypeOK
<1>3. TakenOK' BY <1>1 DEF OutboxTypeOK, TakenOK, ToSend
<1>4. OneSender' BY <1>1 DEF OutboxTypeOK, OneSender, Sending
<1>5. AttemptsLeft' /\ SendsWithinAttempts' /\ RecordsAreTrue'
  BY <1>1 DEF AttemptsLeft, SendsWithinAttempts, RecordsAreTrue
<1>6. CallOK' BY <1>1 DEF OutboxTypeOK, CallOK
<1> QED BY <1>2, <1>3, <1>4, <1>5, <1>6

LEMMA TakeStep ==
  ASSUME IInv, NEW d \in Dispatchers, Take(d)
  PROVE  IInv'
<1> USE OutboxAssumption DEF IInv, Shape, Books
<1> DEFINE n == taken[d]
<1>1. /\ dpc[d] = "claim" /\ dpc' = [dpc EXCEPT ![d] = "send"]
      /\ notice[n] \in ToSend
      /\ notice' = [notice EXCEPT ![n] = "sending"]
      /\ attempt' = [attempt EXCEPT ![n] = attempt[n] + 1]
      /\ try' = [try EXCEPT ![d] = attempt[n] + 1]
      /\ UNCHANGED <<dueNow, accepted, taken, faults>>
  BY DEF Take, DGoto, TakenOK, OutboxTypeOK
<1>2. n \in Notices
  BY <1>1 DEF TakenOK
<1>3. attempt[n] \in Nat /\ attempt[n] < MaxAttempts /\ attempt[n] + 1 \in 0 .. MaxAttempts
  BY <1>1, <1>2 DEF OutboxTypeOK, AttemptsLeft
<1>4. OutboxTypeOK' BY <1>1, <1>2, <1>3 DEF OutboxTypeOK, NoticeStatus
<1>5. TakenOK' BY <1>1, <1>2 DEF OutboxTypeOK, TakenOK
<1>6. \A f \in Dispatchers : ~Sending(f, n)
  BY <1>1, <1>2 DEF OneSender, ToSend
<1>7. OneSender'
  BY <1>1, <1>2, <1>6 DEF OutboxTypeOK, OneSender, Sending
<1>8. accepted[n] \in Nat /\ accepted[n] <= attempt[n]
  BY <1>2 DEF OutboxTypeOK, SendsWithinAttempts
<1>9. \A m \in Notices : m # n => notice'[m] = notice[m] /\ attempt'[m] = attempt[m]
  BY <1>1, <1>2 DEF OutboxTypeOK
<1>10. notice'[n] = "sending" /\ attempt'[n] = attempt[n] + 1
  BY <1>1, <1>2 DEF OutboxTypeOK
<1>11. AttemptsLeft' /\ SendsWithinAttempts' /\ RecordsAreTrue'
  BY <1>1, <1>2, <1>3, <1>8, <1>9, <1>10 DEF AttemptsLeft, SendsWithinAttempts, RecordsAreTrue, ToSend
<1>12. \A f \in Dispatchers : f # d => dpc'[f] = dpc[f]
  BY <1>1 DEF OutboxTypeOK
<1>13. \A f \in Dispatchers : dpc'[f] = "send" /\ f # d => taken[f] # n /\ taken[f] \in Notices
  BY <1>6, <1>12 DEF Sending, TakenOK
<1>14. CallOK'
  BY <1>1, <1>2, <1>3, <1>8, <1>9, <1>10, <1>12, <1>13 DEF CallOK
<1> QED BY <1>4, <1>5, <1>7, <1>11, <1>14

LEMMA ReleaseStep ==
  ASSUME IInv, NEW d \in Dispatchers, Release(d), dpc' = [dpc EXCEPT ![d] = "idle"],
         UNCHANGED <<noticeRows, accepted>>, faults' \in Nat
  PROVE  IInv'
<1> USE OutboxAssumption DEF IInv, Shape, Books, Release, noticeRows
<1>1. OutboxTypeOK' BY DEF OutboxTypeOK
<1>2. TakenOK' BY DEF OutboxTypeOK, TakenOK
<1>3. OneSender' BY DEF OutboxTypeOK, OneSender, Sending
<1>4. AttemptsLeft' /\ SendsWithinAttempts' /\ RecordsAreTrue'
  BY DEF AttemptsLeft, SendsWithinAttempts, RecordsAreTrue
<1>5. CallOK' BY DEF OutboxTypeOK, CallOK
<1> QED BY <1>1, <1>2, <1>3, <1>4, <1>5

\* The gateway is called and answers, or not.
LEMMA SendStep ==
  ASSUME IInv, NEW d \in Dispatchers, Send(d)
  PROVE  IInv'
<1> USE OutboxAssumption DEF IInv, Shape, Books
<1> DEFINE n == taken[d]
<1>1. dpc[d] = "send" /\ UNCHANGED <<noticeRows, taken, try, faults>>
  BY DEF Send, SendAccepted, SendUnheard, SendRefused, DGoto
<1>2. n \in Notices /\ accepted[n] \in Nat /\ attempt[n] \in 0 .. MaxAttempts
      /\ accepted[n] < attempt[n]
  BY <1>1 DEF OutboxTypeOK, TakenOK, CallOK
<1>3. Accept(d) => accepted' = [accepted EXCEPT ![n] = accepted[n] + 1]
  <2>1. (IF accepted[n] > MaxAttempts THEN accepted[n] ELSE accepted[n] + 1) = accepted[n] + 1
    BY <1>2
  <2> QED BY <2>1 DEF Accept
<1>4. \/ dpc' = [dpc EXCEPT ![d] = "succeeded"] /\ accepted' = [accepted EXCEPT ![n] = accepted[n] + 1]
      \/ dpc' = [dpc EXCEPT ![d] = "threw"] /\ accepted' = [accepted EXCEPT ![n] = accepted[n] + 1]
      \/ dpc' = [dpc EXCEPT ![d] = "threw"] /\ accepted' = accepted
  BY <1>3 DEF Send, SendAccepted, SendUnheard, SendRefused, DGoto
<1>5. OutboxTypeOK'
  <2>1. accepted' \in [Notices -> 0 .. MaxAttempts + 1]
    BY <1>2, <1>4 DEF OutboxTypeOK
  <2>2. dpc' \in [Dispatchers -> {"idle", "claim", "send", "succeeded", "threw"}]
    BY <1>4 DEF OutboxTypeOK
  <2> QED BY <1>1, <2>1, <2>2 DEF OutboxTypeOK, noticeRows
<1>6. \A f \in Dispatchers : f # d => dpc'[f] = dpc[f]
  BY <1>4 DEF OutboxTypeOK
<1>7. dpc'[d] \in {"succeeded", "threw"} /\ (dpc'[d] = "succeeded" => accepted'[n] = accepted[n] + 1)
  BY <1>2, <1>4 DEF OutboxTypeOK
<1>8. TakenOK' BY <1>1, <1>2, <1>6 DEF TakenOK, noticeRows
<1>9. \A f \in Dispatchers, m \in Notices : Sending(f, m)' => Sending(f, m)
  BY <1>1, <1>6 DEF Sending
<1>10. OneSender' BY <1>1, <1>9 DEF OneSender, noticeRows
<1>11. \A m \in Notices : m # n => accepted'[m] = accepted[m]
  BY <1>2, <1>4 DEF OutboxTypeOK
<1>12. accepted'[n] \in {accepted[n], accepted[n] + 1}
  BY <1>2, <1>4 DEF OutboxTypeOK
<1>13. AttemptsLeft' BY <1>1 DEF AttemptsLeft, noticeRows
<1>14. SendsWithinAttempts' BY <1>1, <1>2, <1>11, <1>12 DEF SendsWithinAttempts, noticeRows
<1>15. RecordsAreTrue'
  BY <1>1, <1>2, <1>11, <1>12 DEF RecordsAreTrue, noticeRows
<1>16. CallOK'
  <2>1. \A f \in Dispatchers : f # d /\ dpc'[f] \in {"send", "succeeded"} => taken[f] \in Notices /\ taken[f] # n
    BY <1>1, <1>2, <1>6 DEF OneSender, Sending, TakenOK
  <2> QED BY <1>1, <1>2, <1>6, <1>7, <1>11, <2>1 DEF CallOK, noticeRows
<1> QED BY <1>5, <1>8, <1>10, <1>13, <1>14, <1>15, <1>16

LEMMA RecordThrowsStep ==
  ASSUME IInv, NEW d \in Dispatchers, RecordThrows(d)
  PROVE  IInv'
<1> USE OutboxAssumption DEF IInv, Shape, Books
<1>1. /\ dpc[d] = "succeeded" /\ dpc' = [dpc EXCEPT ![d] = "threw"]
      /\ faults' = faults + 1
      /\ UNCHANGED <<notice, attempt, dueNow, accepted, taken, try>>
  BY DEF RecordThrows, DGoto, noticeRows
<1>2. OutboxTypeOK' BY <1>1 DEF OutboxTypeOK
<1>3. TakenOK' BY <1>1 DEF OutboxTypeOK, TakenOK
<1>4. OneSender' BY <1>1 DEF OutboxTypeOK, OneSender, Sending
<1>5. AttemptsLeft' /\ SendsWithinAttempts' /\ RecordsAreTrue'
  BY <1>1 DEF AttemptsLeft, SendsWithinAttempts, RecordsAreTrue
<1>6. CallOK' BY <1>1 DEF OutboxTypeOK, CallOK
<1> QED BY <1>2, <1>3, <1>4, <1>5, <1>6

\* A dispatcher records what became of its notice.
LEMMA RecordStep ==
  ASSUME IInv, NEW d \in Dispatchers, NEW s \in {"delivered", "retrying", "failed"},
         NEW b \in BOOLEAN,
         dpc[d] \in {"succeeded", "threw"}, dpc' = [dpc EXCEPT ![d] = "idle"],
         notice' = [notice EXCEPT ![taken[d]] = s],
         dueNow' = [dueNow EXCEPT ![taken[d]] = b],
         s = "delivered" => dpc[d] = "succeeded",
         s = "retrying" => try[d] < MaxAttempts,
         s = "failed" => ~(try[d] < MaxAttempts),
         Release(d), UNCHANGED <<attempt, accepted, faults>>
  PROVE  IInv'
<1> USE OutboxAssumption DEF IInv, Shape, Books
<1> DEFINE n == taken[d]
<1>1. n \in Notices /\ Sending(d, n)
  BY DEF TakenOK, Sending
<1>2. notice[n] = "sending" /\ try[d] = attempt[n] /\ \A f \in Dispatchers : Sending(f, n) => f = d
  BY <1>1 DEF OneSender
<1>3. OutboxTypeOK'
  BY <1>1 DEF OutboxTypeOK, NoticeStatus, ToSend, Release
<1>4. \A m \in Notices : m # n => notice'[m] = notice[m]
  BY DEF OutboxTypeOK
<1>5. notice'[n] = s
  BY <1>1 DEF OutboxTypeOK
<1>6. \A f \in Dispatchers : f # d => dpc'[f] = dpc[f] /\ taken'[f] = taken[f] /\ try'[f] = try[f]
  BY DEF OutboxTypeOK, Release
<1>7. dpc'[d] = "idle"
  BY DEF OutboxTypeOK
<1>8. TakenOK' BY <1>1, <1>4, <1>5, <1>6, <1>7 DEF TakenOK
<1>9. \A f \in Dispatchers, m \in Notices : Sending(f, m)' => Sending(f, m) /\ m # n /\ f # d
  BY <1>2, <1>6, <1>7 DEF Sending
<1>10. OneSender' BY <1>4, <1>6, <1>9 DEF OneSender
<1>11. attempt[n] \in 0 .. MaxAttempts
  BY <1>1 DEF OutboxTypeOK
<1>12. AttemptsLeft' BY <1>2, <1>4, <1>5, <1>11 DEF AttemptsLeft, ToSend
<1>13. SendsWithinAttempts' BY DEF SendsWithinAttempts
<1>14. CallOK' BY <1>6, <1>7 DEF CallOK
<1>15. s = "delivered" => accepted[n] > 0
  BY DEF CallOK
<1>16. s = "failed" => attempt[n] = MaxAttempts
  BY <1>2, <1>11
<1>17. RecordsAreTrue' BY <1>4, <1>5, <1>15, <1>16 DEF RecordsAreTrue
<1> QED BY <1>3, <1>8, <1>10, <1>12, <1>13, <1>14, <1>17

LEMMA ElapseStep ==
  ASSUME IInv, NEW n \in Notices, Elapse(n)
  PROVE  IInv'
<1> USE DEF IInv, Shape, Books, Elapse
<1>1. OutboxTypeOK' BY DEF OutboxTypeOK
<1>2. TakenOK' /\ OneSender' BY DEF TakenOK, OneSender, Sending
<1>3. AttemptsLeft' /\ SendsWithinAttempts' BY DEF AttemptsLeft, SendsWithinAttempts
<1>4. CallOK' /\ RecordsAreTrue' BY DEF CallOK, RecordsAreTrue
<1> QED BY <1>1, <1>2, <1>3, <1>4

LEMMA DispatchKeepsIInv ==
  ASSUME IInv, NEW d \in Dispatchers, DispatchStep(d) \/ RecordThrows(d) \/ DispatcherDies(d)
  PROVE  IInv'
<1>1. CASE SelectNotice(d) BY <1>1, SelectStep
<1>2. CASE Take(d) BY <1>2, TakeStep
<1>3. CASE MissedIt(d) \/ DispatcherDies(d)
  <2>1. faults' \in Nat
    BY <1>3 DEF MissedIt, DispatcherDies, IInv, Shape, OutboxTypeOK
  <2> QED BY <1>3, <2>1, ReleaseStep DEF MissedIt, DispatcherDies, DGoto
<1>4. CASE Send(d) BY <1>4, SendStep
<1>5. CASE RecordThrows(d) BY <1>5, RecordThrowsStep
<1>6. CASE RecordDelivered(d)
  BY <1>6, RecordStep DEF RecordDelivered, DGoto
<1>7. CASE RecordFailure(d)
  <2>1. CASE Retries(d)
    <3>1. notice' = [notice EXCEPT ![taken[d]] = "retrying"] /\ dueNow' = [dueNow EXCEPT ![taken[d]] = FALSE]
      BY <1>7, <2>1 DEF RecordFailure
    <3> QED BY <1>7, <2>1, <3>1, RecordStep DEF RecordFailure, DGoto, Retries
  <2>2. CASE ~Retries(d)
    <3>1. notice' = [notice EXCEPT ![taken[d]] = "failed"] /\ dueNow' = [dueNow EXCEPT ![taken[d]] = TRUE]
      BY <1>7, <2>2 DEF RecordFailure
    <3> QED BY <1>7, <2>2, <3>1, RecordStep DEF RecordFailure, DGoto, Retries
  <2> QED BY <2>1, <2>2
<1> QED BY <1>1, <1>2, <1>3, <1>4, <1>5, <1>6, <1>7 DEF DispatchStep

LEMMA NextIInv == ASSUME IInv, [OutboxNext]_outboxVars PROVE IInv'
<1>1. ASSUME NEW n \in Notices, Queue(n) PROVE IInv' BY <1>1, QueueStep
<1>2. ASSUME NEW n \in Notices, Elapse(n) PROVE IInv' BY <1>2, ElapseStep
<1>3. CASE UNCHANGED outboxVars
  <2> USE <1>3 DEF IInv, Shape, Books, outboxVars, noticeRows
  <2>1. OutboxTypeOK' BY DEF OutboxTypeOK
  <2>2. TakenOK' /\ OneSender' BY DEF TakenOK, OneSender, Sending
  <2>3. AttemptsLeft' /\ SendsWithinAttempts' BY DEF AttemptsLeft, SendsWithinAttempts
  <2>4. CallOK' /\ RecordsAreTrue' BY DEF CallOK, RecordsAreTrue
  <2> QED BY <2>1, <2>2, <2>3, <2>4
<1> QED BY <1>1, <1>2, <1>3, DispatchKeepsIInv DEF OutboxNext, Dispatch

-----------------------------------------------------------------------------
\* The inductive invariant holds in every reachable state of the outbox.
THEOREM Inductive == OutboxSpec => []IInv
<1>1. OutboxInit => IInv BY InitIInv
<1>2. IInv /\ [OutboxNext]_outboxVars => IInv' BY NextIInv
<1> QED BY <1>1, <1>2, PTL DEF OutboxSpec

\* Type correctness of the outbox and its dispatchers.
THEOREM TypeCorrect == OutboxSpec => []OutboxTypeOK
<1>1. IInv => OutboxTypeOK BY DEF IInv, Shape
<1> QED BY <1>1, Inductive, PTL

\* No notice is in the hands of two dispatchers (claimNext).
THEOREM SentByOne == OutboxSpec => []OneSender
<1>1. IInv => OneSender BY DEF IInv, Shape
<1> QED BY <1>1, Inductive, PTL

\* The gateway is handed a notice at most once per attempt, whatever is lost.
THEOREM WithinAttempts == OutboxSpec => []SendsWithinAttempts
<1>1. IInv => SendsWithinAttempts BY DEF IInv, Books
<1> QED BY <1>1, Inductive, PTL

\* What the outbox records as delivered or failed is true (deliver).
THEOREM RecordsTrue == OutboxSpec => []RecordsAreTrue
<1>1. IInv => RecordsAreTrue BY DEF IInv, Books
<1> QED BY <1>1, Inductive, PTL

\* A settled notice is never written again, however often it is queued.
THEOREM SettledFinal == OutboxSpec => SettledNoticeIsFinal
<1> DEFINE Final == \A n \in Notices :
              notice[n] \in {"delivered", "failed"} => notice'[n] = notice[n]
<1>1. ASSUME IInv, [OutboxNext]_outboxVars PROVE [Final]_notice
  <2> SUFFICES ASSUME notice' # notice, NEW n \in Notices,
                      notice[n] \in {"delivered", "failed"}
               PROVE  notice'[n] = notice[n]
    OBVIOUS
  <2> USE <1>1 DEF IInv, Shape
  <2>1. ASSUME NEW m \in Notices, Queue(m) PROVE notice'[n] = notice[n]
    BY <2>1 DEF Queue, OutboxTypeOK
  <2>2. ASSUME NEW d \in Dispatchers, Take(d) PROVE notice'[n] = notice[n]
    BY <2>2 DEF Take, OutboxTypeOK, ToSend
  <2>3. ASSUME NEW d \in Dispatchers, RecordDelivered(d) \/ RecordFailure(d)
        PROVE  notice'[n] = notice[n]
    <3>1. dpc[d] \in {"succeeded", "threw"}
      BY <2>3 DEF RecordDelivered, RecordFailure, DGoto
    <3>2. taken[d] # n
      BY <3>1 DEF OneSender, Sending, TakenOK
    <3> QED BY <2>3, <3>2 DEF RecordDelivered, RecordFailure, OutboxTypeOK
  <2>4. \A d \in Dispatchers :
          ~SelectNotice(d) /\ ~MissedIt(d) /\ ~Send(d) /\ ~RecordThrows(d) /\ ~DispatcherDies(d)
    BY DEF SelectNotice, MissedIt, Send, SendAccepted, SendUnheard, SendRefused,
           RecordThrows, DispatcherDies, noticeRows
  <2>5. (\A m \in Notices : ~Elapse(m)) /\ ~UNCHANGED outboxVars
    BY DEF Elapse, outboxVars, noticeRows
  <2> QED BY <2>1, <2>2, <2>3, <2>4, <2>5 DEF OutboxNext, Dispatch, DispatchStep
<1>2. IInv /\ [OutboxNext]_outboxVars => [Final]_notice BY <1>1
<1> QED BY <1>2, Inductive, PTL DEF OutboxSpec, SettledNoticeIsFinal

-----------------------------------------------------------------------------
(* Alerts                                                                    *)

\* What an evaluation or a request in progress is about.
ActorsOK ==
  /\ alert \in [Episodes -> AlertStatus]
  /\ wpc \in [Watchers -> {"idle", "insert", "supervisor", "managers"}]
  /\ raising \in [Watchers -> Episodes \cup {NoEpisode}]
  /\ \A w \in Watchers : wpc[w] # "idle" => raising[w] \in Episodes
  /\ \A w \in Watchers : wpc[w] = "managers" => raising[w] \in Overdue
  /\ handling \in [Officers -> {Nothing} \cup [episode : Episodes, operation : Operations]]

LEMMA ActorsOKInductive ==
  /\ Init => ActorsOK
  /\ ActorsOK /\ [Next]_vars => ActorsOK'
<1> USE AlertsAssumption
<1>1. Init => ActorsOK
  BY DEF Init, ActorsOK, AlertStatus
<1>2. ASSUME ActorsOK, [Next]_vars PROVE ActorsOK'
  <2> USE <1>2 DEF ActorsOK, officeVars
  <2>1. ASSUME NEW w \in Watchers, NEW e \in Episodes, Evaluate(w, e) PROVE ActorsOK'
    BY <2>1 DEF Evaluate, WGoto, alertVars
  <2>2. ASSUME NEW w \in Watchers, Raise(w) PROVE ActorsOK'
    BY <2>2 DEF Raise, WGoto, AlertStatus
  <2>3. ASSUME NEW w \in Watchers, RaisedByAnother(w) PROVE ActorsOK'
    BY <2>3 DEF RaisedByAnother, WGoto, Done, alertVars
  <2>4. ASSUME NEW w \in Watchers, TellSupervisor(w) PROVE ActorsOK'
    <3>1. CASE raising[w] \in Overdue
      BY <2>4, <3>1 DEF TellSupervisor, WGoto, alertVars
    <3>2. CASE raising[w] \notin Overdue
      BY <2>4, <3>2 DEF TellSupervisor, WGoto, Done, alertVars
    <3> QED BY <3>1, <3>2
  <2>5. ASSUME NEW w \in Watchers, TellManagers(w) PROVE ActorsOK'
    BY <2>5 DEF TellManagers, WGoto, Done, alertVars
  <2>6. ASSUME NEW w \in Watchers, WatcherDies(w) PROVE ActorsOK'
    BY <2>6 DEF WatcherDies, Done, alertVars
  <2>7. ASSUME NEW o \in Officers, ReadAlert(o) PROVE ActorsOK'
    BY <2>7 DEF ReadAlert, alertVars, evaluateVars
  <2>8. ASSUME NEW o \in Officers, WriteAlert(o) PROVE ActorsOK'
    <3>1. handling[o] \in [episode : Episodes, operation : Operations]
      BY <2>8 DEF WriteAlert
    <3>2. handling[o].operation \in Operations
      BY <3>1
    <3>3. \A s \in AlertStatus : NewStatus(handling[o].operation, s) \in AlertStatus
      BY <3>2 DEF NewStatus, Operations, AlertStatus
    <3>4. alert' \in [Episodes -> AlertStatus]
      BY <2>8, <3>1, <3>3 DEF WriteAlert
    <3> QED BY <2>8, <3>4 DEF WriteAlert, evaluateVars
  <2>9. CASE UNCHANGED <<alertVars, evaluateVars, officeVars>>
    BY <2>9 DEF alertVars, evaluateVars, officeVars
  <2> QED
    BY <2>1, <2>2, <2>3, <2>4, <2>5, <2>6, <2>7, <2>8, <2>9
    DEF Next, GoesOn, vars
<1> QED BY <1>1, <1>2

\* Every step of the composition is a step of the outbox or leaves it alone.
LEMMA OutboxSteps == ActorsOK /\ [Next]_vars => [OutboxNext]_outboxVars
<1> SUFFICES ASSUME ActorsOK, [Next]_vars PROVE [OutboxNext]_outboxVars
  OBVIOUS
<1>1. ASSUME NEW w \in Watchers, TellSupervisor(w) PROVE OutboxNext
  <2>1. raising[w] \in Episodes
    BY <1>1 DEF TellSupervisor, WGoto, ActorsOK
  <2>2. ForSupervisor(raising[w]) \in Notices
    BY <2>1, AlertsAssumption
  <2> QED BY <1>1, <2>2 DEF TellSupervisor, OutboxNext
<1>2. ASSUME NEW w \in Watchers, TellManagers(w) PROVE OutboxNext
  <2>1. raising[w] \in Overdue
    BY <1>2 DEF TellManagers, WGoto, ActorsOK
  <2>2. ForManagers(raising[w]) \in Notices
    BY <2>1, AlertsAssumption
  <2> QED BY <1>2, <2>2 DEF TellManagers, OutboxNext
<1>3. ASSUME NEW w \in Watchers,
             Raise(w) \/ RaisedByAnother(w) \/ WatcherDies(w) \/ \E e \in Episodes : Evaluate(w, e)
      PROVE  UNCHANGED outboxVars
  BY <1>3 DEF Raise, RaisedByAnother, WatcherDies, Evaluate
<1>4. ASSUME NEW o \in Officers, ReadAlert(o) \/ WriteAlert(o) PROVE UNCHANGED outboxVars
  BY <1>4 DEF ReadAlert, WriteAlert
<1>5. Dispatch => OutboxNext
  BY DEF OutboxNext
<1>6. UNCHANGED vars => UNCHANGED outboxVars
  BY DEF vars
<1> QED BY <1>1, <1>2, <1>3, <1>4, <1>5, <1>6 DEF Next, GoesOn

\* Every behaviour of the composition is a behaviour of the outbox: evaluations
\* touch it through Queue only, officers not at all.
THEOREM ImplementsOutbox == Spec => OutboxSpec
<1>1. Init => OutboxInit
  BY DEF Init
<1> QED BY <1>1, OutboxSteps, ActorsOKInductive, PTL DEF Spec, OutboxSpec

\* An episode never opens a second alert, whatever became of the first.
THEOREM RaisedOnceHolds == Spec => RaisedOnce
<1> DEFINE Once == \A e \in Episodes :
      alert[e] # "absent" => alert'[e] \notin {"absent", "open"} \/ alert'[e] = alert[e]
<1>1. ASSUME ActorsOK, [Next]_vars PROVE [Once]_alert
  <2> SUFFICES ASSUME alert' # alert, NEW e \in Episodes, alert[e] # "absent"
               PROVE  alert'[e] \notin {"absent", "open"} \/ alert'[e] = alert[e]
    OBVIOUS
  <2>1. ASSUME NEW w \in Watchers, Raise(w)
        PROVE  alert'[e] \notin {"absent", "open"} \/ alert'[e] = alert[e]
    BY <1>1, <2>1 DEF Raise, ActorsOK
  <2>2. ASSUME NEW o \in Officers, WriteAlert(o)
        PROVE  alert'[e] \notin {"absent", "open"} \/ alert'[e] = alert[e]
    <3>1. handling[o].operation \in Operations
      BY <1>1, <2>2 DEF WriteAlert, ActorsOK
    <3>2. NewStatus(handling[o].operation, alert[e]) \in {"acknowledged", "resolved", "escalated", alert[e]}
      BY <3>1 DEF NewStatus, Operations
    <3>3. alert'[e] = alert[e] \/ alert'[e] = NewStatus(handling[o].operation, alert[e])
      BY <1>1, <2>2 DEF WriteAlert, ActorsOK
    <3> QED BY <3>2, <3>3
  <2>3. \A w \in Watchers :
          ~RaisedByAnother(w) /\ ~TellSupervisor(w) /\ ~TellManagers(w) /\ ~WatcherDies(w)
          /\ \A x \in Episodes : ~Evaluate(w, x)
    BY DEF RaisedByAnother, TellSupervisor, TellManagers, WatcherDies, Evaluate, alertVars
  <2>4. \A o \in Officers : ~ReadAlert(o)
    BY DEF ReadAlert, alertVars
  <2>5. ~UNCHANGED <<alertVars, evaluateVars, officeVars>> /\ ~UNCHANGED vars
    BY DEF alertVars, vars
  <2> QED BY <1>1, <2>1, <2>2, <2>3, <2>4, <2>5 DEF Next, GoesOn
<1>2. ActorsOK /\ [Next]_vars => [Once]_alert BY <1>1
<1> QED BY <1>2, ActorsOKInductive, PTL DEF Spec, RaisedOnce

\* Hence, in the composition too, no notice is in the hands of two dispatchers
\* and the gateway is handed each at most once per attempt.
COROLLARY NoticesOfAlerts == Spec => []OneSender /\ []SendsWithinAttempts
BY ImplementsOutbox, SentByOne, WithinAttempts, PTL

------------------------------------------------------------------------------
(* Which alerts are unannounced                                             *)

\* The alerts raised of which somebody who has to will not hear.
Unannounced == {e \in Episodes : alert[e] # "absent" /\ ~Announced(e)}

\* Whatever the dispatchers do, a notice in the outbox stays there.
LEMMA NoticesStay ==
  ASSUME IInv, [OutboxNext]_outboxVars, NEW n \in Notices, notice[n] # "absent"
  PROVE  notice'[n] # "absent"
<1> USE DEF IInv, Shape, OutboxTypeOK
<1>1. ASSUME NEW m \in Notices, Queue(m) PROVE notice'[n] # "absent"
  BY <1>1 DEF Queue
<1>2. ASSUME NEW d \in Dispatchers, Take(d) PROVE notice'[n] # "absent"
  BY <1>2 DEF Take
<1>3. ASSUME NEW d \in Dispatchers, RecordDelivered(d) \/ RecordFailure(d) PROVE notice'[n] # "absent"
  BY <1>3 DEF RecordDelivered, RecordFailure
<1>4. ASSUME NEW d \in Dispatchers, SelectNotice(d) \/ MissedIt(d) \/ Send(d) \/ RecordThrows(d) \/ DispatcherDies(d)
      PROVE  notice'[n] # "absent"
  BY <1>4 DEF SelectNotice, MissedIt, Send, SendAccepted, SendUnheard, SendRefused, RecordThrows, DispatcherDies,
     noticeRows
<1>5. ASSUME NEW m \in Notices, Elapse(m) PROVE notice'[n] # "absent"
  BY <1>5 DEF Elapse
<1>6. CASE UNCHANGED outboxVars
  BY <1>6 DEF outboxVars, noticeRows
<1> QED BY <1>1, <1>2, <1>3, <1>4, <1>5, <1>6 DEF OutboxNext, Dispatch, DispatchStep

\* A request of an officer is about an alert that was raised.
HandledRaised ==
  \A o \in Officers : handling[o] # Nothing => alert[handling[o].episode] # "absent"

\* Alerts are raised by evaluations only, and never disappear.
LEMMA AlertsPersist ==
  ASSUME ActorsOK, HandledRaised, [Next]_vars, NEW e \in Episodes
  PROVE  /\ alert[e] # "absent" => alert'[e] # "absent"
         /\ alert'[e] # "absent" => alert[e] # "absent" \/ \E w \in Watchers : Raise(w) /\ raising[w] = e
<1> USE DEF ActorsOK
<1>1. ASSUME NEW w \in Watchers, Raise(w)
      PROVE  /\ alert[e] # "absent" => alert'[e] # "absent"
             /\ alert'[e] # "absent" => alert[e] # "absent" \/ raising[w] = e
  BY <1>1 DEF Raise
<1>2. ASSUME NEW o \in Officers, WriteAlert(o) PROVE alert[e] # "absent" <=> alert'[e] # "absent"
  <2>1. handling[o] \in [episode : Episodes, operation : Operations]
    BY <1>2 DEF WriteAlert
  <2>2. alert[handling[o].episode] # "absent"
    BY <1>2 DEF WriteAlert, HandledRaised
  <2>3. \A st \in AlertStatus \ {"absent"} : NewStatus(handling[o].operation, st) # "absent"
    BY <2>1 DEF NewStatus, Operations
  <2>4. NewStatus(handling[o].operation, alert[handling[o].episode]) # "absent"
    BY <2>1, <2>2, <2>3
  <2> QED BY <1>2, <2>1, <2>2, <2>4 DEF WriteAlert
<1>3. ASSUME NEW w \in Watchers,
             RaisedByAnother(w) \/ TellSupervisor(w) \/ TellManagers(w) \/ WatcherDies(w)
             \/ \E x \in Episodes : Evaluate(w, x)
      PROVE  UNCHANGED alert
  BY <1>3 DEF RaisedByAnother, TellSupervisor, TellManagers, WatcherDies, Evaluate, alertVars
<1>4. ASSUME NEW o \in Officers, ReadAlert(o) PROVE UNCHANGED alert
  BY <1>4 DEF ReadAlert, alertVars
<1>5. UNCHANGED <<alertVars, evaluateVars, officeVars>> \/ UNCHANGED vars => UNCHANGED alert
  BY DEF vars, alertVars
<1> QED BY <1>1, <1>2, <1>3, <1>4, <1>5 DEF Next, GoesOn

LEMMA HandledRaisedInductive ==
  ASSUME ActorsOK, HandledRaised, [Next]_vars PROVE HandledRaised'
<1> SUFFICES ASSUME NEW o \in Officers, handling'[o] # Nothing PROVE alert'[handling'[o].episode] # "absent"
  BY DEF HandledRaised
<1> USE DEF ActorsOK
<1>1. CASE handling'[o] = handling[o]
  <2>1. handling[o].episode \in Episodes
    BY <1>1
  <2> QED BY <1>1, <2>1, AlertsPersist DEF HandledRaised
<1>2. CASE handling'[o] # handling[o]
  <2>1. ReadAlert(o)
    <3>1. \A x \in Officers : ReadAlert(x) /\ x # o => handling'[o] = handling[o]
      BY DEF ReadAlert
    <3>2. \A x \in Officers : WriteAlert(x) => handling'[o] \in {handling[o], Nothing}
      BY DEF WriteAlert
    <3>3. \A w \in Watchers : GoesOn(w) \/ WatcherDies(w) \/ (\E x \in Episodes : Evaluate(w, x)) => UNCHANGED handling
      BY DEF GoesOn, Raise, RaisedByAnother, TellSupervisor, TellManagers, WatcherDies, Evaluate, officeVars
    <3> QED BY <1>2, <3>1, <3>2, <3>3 DEF Next, vars, officeVars
  <2>2. PICK e \in Episodes, op \in Operations : May(op, e) /\ handling'[o] = [episode |-> e, operation |-> op]
    BY <2>1 DEF ReadAlert
  <2> QED BY <2>1, <2>2 DEF ReadAlert, May, alertVars
<1> QED BY <1>1, <1>2

\* A step leaves no alert unannounced that was not before, but for the one an
\* evaluation was about to announce when it died.
LEMMA StaysAnnounced ==
  ASSUME ActorsOK, HandledRaised, IInv, [Next]_vars
  PROVE  \/ Unannounced' \subseteq Unannounced
         \/ \E w \in Watchers : WatcherDies(w) /\ Unannounced' \subseteq Unannounced \cup {raising[w]}
<1> SUFFICES ASSUME NEW e \in Episodes, alert'[e] # "absent", ~Announced(e)',
                    alert[e] = "absent" \/ Announced(e)
             PROVE  \E w \in Watchers : WatcherDies(w) /\ e = raising[w]
  <2>1. \A v, w \in Watchers : WatcherDies(v) /\ WatcherDies(w) => v = w
    BY DEF WatcherDies, ActorsOK
  <2> QED BY <2>1 DEF Unannounced
<1> USE DEF ActorsOK
<1>1. \A n \in Notices : notice[n] # "absent" => notice'[n] # "absent"
  BY OutboxSteps, NoticesStay
<1>2. ForSupervisor(e) \in Notices /\ (e \in Overdue => ForManagers(e) \in Notices)
  BY AlertsAssumption
<1>3. ASSUME NEW w \in Watchers, Raise(w), raising[w] = e PROVE FALSE
  <2>1. raising'[w] = e /\ wpc'[w] = "supervisor"
    BY <1>3 DEF Raise, WGoto
  <2> QED BY <2>1 DEF Announced
<1>4. alert[e] # "absent" /\ Announced(e)
  BY <1>3, AlertsPersist
\* What an evaluation does that keeps an alert announced.
<1> DEFINE Keeps(w) == /\ raising[w] = e /\ wpc[w] = "supervisor" =>
                           \/ raising'[w] = e /\ wpc'[w] = "supervisor"
                           \/ /\ notice'[ForSupervisor(e)] # "absent"
                              /\ e \in Overdue => raising'[w] = e /\ wpc'[w] = "managers"
                       /\ raising[w] = e /\ wpc[w] = "managers" /\ e \in Overdue =>
                           \/ raising'[w] = e /\ wpc'[w] = "managers"
                           \/ notice'[ForManagers(e)] # "absent"
<1>5. ASSUME \A w \in Watchers : Keeps(w) PROVE FALSE
  BY <1>1, <1>2, <1>4, <1>5 DEF Announced
<1>6. ASSUME NEW w \in Watchers, raising'[w] = raising[w], wpc'[w] = wpc[w] PROVE Keeps(w)
  BY <1>6
<1> HIDE DEF Keeps
<1>7. ASSUME NEW w \in Watchers, NEW x \in Watchers, x # w,
             GoesOn(w) \/ WatcherDies(w) \/ \E y \in Episodes : Evaluate(w, y)
      PROVE  Keeps(x)
  BY <1>6, <1>7 DEF GoesOn, Raise, RaisedByAnother, TellSupervisor, TellManagers, WatcherDies, Evaluate, WGoto, Done
<1>8. ASSUME NEW w \in Watchers, Raise(w) \/ RaisedByAnother(w) \/ \E y \in Episodes : Evaluate(w, y)
      PROVE  Keeps(w)
  BY <1>8 DEF Keeps, Raise, RaisedByAnother, Evaluate, WGoto
<1>9. ASSUME NEW w \in Watchers, TellSupervisor(w) PROVE Keeps(w)
  <2>1. notice \in [Notices -> NoticeStatus]
    BY DEF IInv, Shape, OutboxTypeOK
  <2>2. raising[w] = e => notice'[ForSupervisor(e)] # "absent"
    BY <1>2, <1>9, <2>1 DEF TellSupervisor, Queue
  <2>3. wpc[w] = "supervisor" /\ (raising[w] \in Overdue => wpc'[w] = "managers" /\ raising' = raising)
    BY <1>9 DEF TellSupervisor, WGoto
  <2> QED BY <2>2, <2>3 DEF Keeps
<1>10. ASSUME NEW w \in Watchers, TellManagers(w) PROVE Keeps(w)
  <2>1. notice \in [Notices -> NoticeStatus]
    BY DEF IInv, Shape, OutboxTypeOK
  <2>2. raising[w] = e /\ e \in Overdue => notice'[ForManagers(e)] # "absent"
    BY <1>2, <1>10, <2>1 DEF TellManagers, Queue
  <2>3. wpc[w] = "managers"
    BY <1>10 DEF TellManagers, WGoto
  <2> QED BY <2>2, <2>3 DEF Keeps
<1>11. ASSUME NEW w \in Watchers, WatcherDies(w) PROVE e = raising[w]
  <2>1. CASE raising[w] # e
    BY <1>5, <1>7, <1>11, <2>1 DEF Keeps
  <2> QED BY <2>1
<1>12. ASSUME UNCHANGED <<wpc, raising>> PROVE FALSE
  BY <1>5, <1>6, <1>12
<1>13. ASSUME NEW o \in Officers, ReadAlert(o) \/ WriteAlert(o) PROVE UNCHANGED <<wpc, raising>>
  BY <1>13 DEF ReadAlert, WriteAlert, evaluateVars
<1>14. UNCHANGED <<alertVars, evaluateVars, officeVars>> \/ UNCHANGED vars => UNCHANGED <<wpc, raising>>
  BY DEF vars, evaluateVars
<1>15. ASSUME NEW w \in Watchers, GoesOn(w) \/ \E y \in Episodes : Evaluate(w, y) PROVE FALSE
  <2>1. Keeps(w)
    BY <1>8, <1>9, <1>10, <1>15 DEF GoesOn
  <2> QED BY <1>5, <1>7, <1>15, <2>1
<1> QED BY <1>11, <1>12, <1>13, <1>14, <1>15 DEF Next

\* As many alerts are unannounced at most as evaluations died.
FewUnannounced ==
  /\ deaths \in Nat
  /\ IsFiniteSet(Unannounced) /\ Cardinality(Unannounced) <= deaths

LEMMA FewUnannouncedInductive ==
  ASSUME ActorsOK, HandledRaised, IInv, FewUnannounced, [Next]_vars
  PROVE  FewUnannounced'
<1> USE DEF FewUnannounced
<1>1. \A S \in SUBSET Unannounced : IsFiniteSet(S) /\ Cardinality(S) \in Nat /\ Cardinality(S) <= deaths
  BY FS_Subset, FS_CardinalityType
<1>2. ASSUME NEW w \in Watchers, WatcherDies(w), Unannounced' \subseteq Unannounced \cup {raising[w]}
      PROVE  FewUnannounced'
  <2>1. /\ IsFiniteSet(Unannounced \cup {raising[w]})
        /\ Cardinality(Unannounced \cup {raising[w]}) \in Nat
        /\ Cardinality(Unannounced \cup {raising[w]}) <= deaths + 1
    BY FS_AddElement, FS_CardinalityType
  <2>2. /\ IsFiniteSet(Unannounced') /\ Cardinality(Unannounced') \in Nat
        /\ Cardinality(Unannounced') <= Cardinality(Unannounced \cup {raising[w]})
    BY <1>2, <2>1, FS_Subset, FS_CardinalityType
  <2>3. deaths' = deaths + 1
    BY <1>2 DEF WatcherDies
  <2> QED BY <2>1, <2>2, <2>3
<1>3. ASSUME Unannounced' \subseteq Unannounced, \A w \in Watchers : ~WatcherDies(w)
      PROVE  FewUnannounced'
  <2>1. deaths' = deaths
    BY <1>3 DEF Next, vars, evaluateVars, GoesOn, Raise, RaisedByAnother, TellSupervisor, TellManagers, Evaluate,
                ReadAlert, WriteAlert
  <2> QED BY <1>1, <1>3, <2>1
<1>4. ASSUME NEW w \in Watchers, WatcherDies(w), Unannounced' \subseteq Unannounced
      PROVE  FewUnannounced'
  BY <1>2, <1>4
<1> QED BY <1>2, <1>3, <1>4, StaysAnnounced

\* UnannouncedByDeathsOnly holds of every run: each death of an evaluation
\* leaves one alert unannounced at most, however many overlap, and whatever
\* officers and dispatchers do meanwhile.
THEOREM UnannouncedByDeaths == Spec => []UnannouncedByDeathsOnly
<1>1. Init => HandledRaised /\ FewUnannounced
  <2> SUFFICES ASSUME Init PROVE HandledRaised /\ FewUnannounced
    OBVIOUS
  <2>1. Unannounced = {}
    BY DEF Init, Unannounced
  <2> QED BY <2>1, FS_EmptySet DEF Init, HandledRaised, FewUnannounced
<1>2. ActorsOK /\ IInv /\ HandledRaised /\ FewUnannounced /\ [Next]_vars
        => HandledRaised' /\ FewUnannounced'
  BY HandledRaisedInductive, FewUnannouncedInductive
<1>3. FewUnannounced => UnannouncedByDeathsOnly
  BY DEF FewUnannounced, UnannouncedByDeathsOnly, Unannounced
<1>4. Spec => []IInv
  BY ImplementsOutbox, Inductive, PTL
<1> QED BY <1>1, <1>2, <1>3, <1>4, ActorsOKInductive, PTL DEF Spec

------------------------------------------------------------------------------
(* Decisions on an alert                                                    *)

ReviewOK == review \in [Episodes -> ReviewStatus]

\* What a request was let through for is still so when it writes, unless another
\* request has written the alert meanwhile.
StillMay ==
  \A o \in Officers \ overtaken : handling[o] # Nothing => May(handling[o].operation, handling[o].episode)

LEMMA ReviewOKInductive == ActorsOK /\ ReviewOK /\ [Next]_vars => ReviewOK'
<1> SUFFICES ASSUME ActorsOK, ReviewOK, [Next]_vars, review' # review PROVE ReviewOK'
  BY DEF ReviewOK
<1>1. PICK o \in Officers : WriteAlert(o)
  BY DEF Next, vars, alertVars, GoesOn, Raise, RaisedByAnother, TellSupervisor, TellManagers, WatcherDies,
         Evaluate, ReadAlert
<1>2. handling[o].episode \in Episodes /\ handling[o].operation \in Operations
  BY <1>1 DEF WriteAlert, ActorsOK
<1>3. \A st \in ReviewStatus : NewReview(handling[o].operation, st) \in ReviewStatus
  BY <1>2 DEF NewReview, Operations, ReviewStatus
<1> QED BY <1>1, <1>2, <1>3 DEF WriteAlert, ReviewOK

\* An evaluation touches no alert that exists, and a request that writes one
\* overtakes all others that have read it.
LEMMA StillMayInductive ==
  ASSUME ActorsOK, ReviewOK, StillMay, [Next]_vars
  PROVE  StillMay'
<1> USE DEF ActorsOK
<1>1. ASSUME NEW o \in Officers, WriteAlert(o) PROVE StillMay'
  <2>1. SUFFICES ASSUME NEW p \in Officers, p \notin overtaken', handling'[p] # Nothing
                 PROVE  May(handling[p].operation, handling[p].episode)' /\ handling'[p] = handling[p]
    BY DEF StillMay
  <2> DEFINE e == handling[o].episode
  <2>2. p # o /\ handling'[p] = handling[p] /\ handling[p].episode \in Episodes
    BY <1>1, <2>1 DEF WriteAlert
  <2>3. p \notin overtaken /\ handling[p].episode # e
    BY <1>1, <2>1, <2>2 DEF WriteAlert, Others
  <2>4. alert'[handling[p].episode] = alert[handling[p].episode]
    BY <1>1, <2>2, <2>3 DEF WriteAlert
  <2>5. review'[handling[p].episode] = review[handling[p].episode]
    BY <1>1, <2>2, <2>3 DEF WriteAlert, ReviewOK
  <2>6. May(handling[p].operation, handling[p].episode)
    BY <2>1, <2>2, <2>3 DEF StillMay
  <2> QED BY <2>2, <2>4, <2>5, <2>6 DEF May
<1>2. ASSUME NEW o \in Officers, ReadAlert(o) PROVE StillMay'
  <2>1. UNCHANGED <<alert, review, overtaken>>
    BY <1>2 DEF ReadAlert, alertVars
  <2>2. PICK e \in Episodes, op \in Operations :
          May(op, e) /\ handling' = [handling EXCEPT ![o] = [episode |-> e, operation |-> op]]
    BY <1>2 DEF ReadAlert
  <2>3. handling'[o] = [episode |-> e, operation |-> op] /\ \A p \in Officers \ {o} : handling'[p] = handling[p]
    BY <2>2
  <2> QED BY <2>1, <2>2, <2>3 DEF StillMay, May
<1>3. ASSUME NEW w \in Watchers, Raise(w) PROVE StillMay'
  <2>1. UNCHANGED <<review, handling, overtaken>> /\ alert[raising[w]] = "absent" /\ raising[w] \in Episodes
        /\ alert' = [alert EXCEPT ![raising[w]] = "open"]
    BY <1>3 DEF Raise, WGoto, officeVars
  <2>2. \A e \in Episodes : alert[e] # "absent" => alert'[e] = alert[e]
    BY <2>1
  <2>3. ASSUME NEW o \in Officers \ overtaken, handling[o] # Nothing
        PROVE  May(handling[o].operation, handling[o].episode)'
    <3>1. handling[o].episode \in Episodes
      BY <2>3
    <3> QED BY <2>1, <2>2, <2>3, <3>1 DEF StillMay, May
  <2> QED BY <2>1, <2>3 DEF StillMay
<1>4. CASE UNCHANGED <<alert, review, handling, overtaken>>
  BY <1>4 DEF StillMay, May
<1>5. ASSUME NEW w \in Watchers,
             RaisedByAnother(w) \/ TellSupervisor(w) \/ TellManagers(w) \/ WatcherDies(w)
             \/ \E x \in Episodes : Evaluate(w, x)
      PROVE  UNCHANGED <<alert, review, handling, overtaken>>
  BY <1>5 DEF RaisedByAnother, TellSupervisor, TellManagers, WatcherDies, Evaluate, alertVars, officeVars
<1> QED BY <1>1, <1>2, <1>3, <1>4, <1>5 DEF Next, GoesOn, vars, alertVars, officeVars

\* DecisionStands holds of every run, for any number of officers, evaluations and
\* dispatchers: only a request that had read the alert before another wrote it
\* undoes a resolution or a decision.
THEOREM DecisionsStand == Spec => DecisionStands
<1> DEFINE Stands == \A e \in Episodes :
       \/ \E o \in overtaken : handling[o].episode = e /\ WriteAlert(o)
       \/ /\ alert[e] = "resolved" => alert'[e] = "resolved"
          /\ review[e] \in {"accepted", "rejected"} => review'[e] \in {review[e], "pending"}
<1>1. Init => ReviewOK /\ StillMay
  BY DEF Init, ReviewOK, ReviewStatus, StillMay
<1>2. ActorsOK /\ ReviewOK /\ StillMay /\ [Next]_vars => ReviewOK' /\ StillMay'
  BY ReviewOKInductive, StillMayInductive
<1>3. ActorsOK /\ ReviewOK /\ StillMay /\ [Next]_vars => [Stands]_<<alert, review>>
  <2> SUFFICES ASSUME ActorsOK, ReviewOK, StillMay, [Next]_vars PROVE [Stands]_<<alert, review>>
    OBVIOUS
  <2> USE DEF ActorsOK
  <2>1. ASSUME NEW w \in Watchers, Raise(w) PROVE Stands
    BY <2>1 DEF Raise, WGoto
  <2>2. ASSUME NEW o \in Officers, WriteAlert(o) PROVE Stands
    <3> DEFINE e == handling[o].episode
               op == handling[o].operation
    <3>1. e \in Episodes /\ op \in Operations /\ (o \notin overtaken => May(op, e))
      BY <2>2 DEF WriteAlert, StillMay
    <3>2. /\ alert' = [alert EXCEPT ![e] = NewStatus(op, alert[e])]
          /\ review' = [review EXCEPT ![e] = NewReview(op, review[e])]
      BY <2>2 DEF WriteAlert
    <3>3. CASE o \notin overtaken
      <4> HIDE DEF e, op
      <4>1. alert[e] = "resolved" => NewStatus(op, alert[e]) = "resolved"
        BY <3>1, <3>3 DEF May, NewStatus, Operations
      <4>2. review[e] \in {"accepted", "rejected"} => NewReview(op, review[e]) \in {review[e], "pending"}
        BY <3>1, <3>3 DEF May, NewReview, Operations
      <4> QED BY <3>1, <3>2, <4>1, <4>2 DEF ReviewOK
    <3>4. CASE o \in overtaken
      <4>1. \A x \in Episodes : x # e => alert'[x] = alert[x] /\ review'[x] = review[x]
        BY <3>1, <3>2 DEF ReviewOK
      <4> QED BY <2>2, <3>4, <4>1
    <3> QED BY <3>3, <3>4
  <2>3. ASSUME NEW w \in Watchers,
               RaisedByAnother(w) \/ TellSupervisor(w) \/ TellManagers(w) \/ WatcherDies(w)
               \/ \E x \in Episodes : Evaluate(w, x)
        PROVE  UNCHANGED <<alert, review>>
    BY <2>3 DEF RaisedByAnother, TellSupervisor, TellManagers, WatcherDies, Evaluate, alertVars
  <2>4. ASSUME NEW o \in Officers, ReadAlert(o) PROVE UNCHANGED <<alert, review>>
    BY <2>4 DEF ReadAlert, alertVars
  <2> HIDE DEF Stands
  <2> QED BY <2>1, <2>2, <2>3, <2>4 DEF Next, GoesOn, vars, alertVars
<1> QED BY <1>1, <1>2, <1>3, ActorsOKInductive, PTL DEF Spec, DecisionStands

-----------------------------------------------------------------------------
(* Records. First what a step of a handler may do at all: a request goes from *)
(* one statement of its handler to the next, writes only its own table, and   *)
(* the audit entries it owes are counted.                                     *)

\* The table each handler is about.
Home ==
  [incident |-> "incident", acknowledge |-> "incident", details |-> "incident", resolve |-> "incident",
   inspect |-> "inspection", review |-> "inspection", repair |-> "repair", progress |-> "repair",
   checkin |-> "checkin", decide |-> "checkin",
   train |-> "trainee", advance |-> "trainee", graduate |-> "trainee", ramp |-> "ramp",
   document |-> "document", undocument |-> "document", capture |-> "distance", backfill |-> "distance",
   power |-> "bike", ingest |-> "daily", adjust |-> "period", closeout |-> "closeout",
   payment_record |-> "total", performance_record |-> "total", no_on_demand |-> "total",
   generate |-> "report", ungenerate |-> "report",
   pace |-> "policy", efficiency |-> "policy", cohort |-> "cohort", weights |-> "weights",
   fleet_terms |-> "terms", pace_terms |-> "terms", platform_terms |-> "terms", ramp_terms |-> "terms",
   fuel |-> "fuel", fuel_cost |-> "fuel",
   transfer |-> "entry", registration |-> "entry", expense |-> "entry", economics |-> "entry", platform |-> "entry",
   account |-> "account"]

\* The tables it may write.
Reach(op) == IF op = "ingest" THEN {"daily", "images", "runs"} ELSE {Home[op]}

\* Statements a handler stops at while the audit trail does not tell of its row.
Owing == {"audit", "notice", "insert", "media", "link", "record", "close", "tell"}
Due(do) == IF do \in Owing THEN 1 ELSE 0

\* A request in flight.
Flight(e) ==
  /\ DOMAIN e = {"op", "do", "table", "key", "body", "row"}
  /\ e.op \in DOMAIN Home /\ e.table = Home[e.op]
  /\ e.do \in {"write", "overwrite", "image", "failed", "flag"} \cup Owing

InFlight == untold \in Int /\ cut \in Nat /\ DOMAIN at = Requests /\ \A q \in Requests : at[q] = Idle \/ Flight(at[q])

SameKeys == DOMAIN db' = DOMAIN db /\ \A t \in DOMAIN db : DOMAIN db'[t] = DOMAIN db[t]

\* Nothing but the tables of the handler changes.
Within(op) == SameKeys /\ \A t \in DOMAIN db : t \notin Reach(op) => db'[t] = db[t]

\* What a step of the handler op for the request q may do.
Effect(q, op) ==
  /\ DOMAIN at' = Requests
  /\ \A p \in Requests \ {q} : at'[p] = at[p]
  /\ at[q] = Idle \/ at[q].op = op
  /\ at'[q] = Idle \/ (Flight(at'[q]) /\ at'[q].op = op)
  /\ Within(op)
  /\ stale \subseteq stale'
  /\ cut' = cut
  /\ untold' = untold + Due(at'[q].do) - Due(at[q].do)

LEMMA HomeIs ==
  /\ DOMAIN Home = {"incident", "acknowledge", "details", "resolve", "inspect", "review", "repair", "progress",
                    "checkin", "decide", "train", "advance", "graduate", "ramp", "document", "undocument",
                    "capture", "backfill", "power", "ingest", "adjust", "closeout", "payment_record",
                    "performance_record", "no_on_demand", "generate", "ungenerate", "pace", "efficiency",
                    "cohort", "weights", "fleet_terms", "pace_terms", "platform_terms", "ramp_terms", "fuel",
                    "fuel_cost", "transfer", "registration", "expense", "economics", "platform", "account"}
  /\ "none" \notin DOMAIN Home
  /\ \A op \in {"incident", "acknowledge", "details", "resolve"} : Home[op] = "incident"
  /\ \A op \in {"inspect", "review"} : Home[op] = "inspection"
  /\ \A op \in {"repair", "progress"} : Home[op] = "repair"
  /\ \A op \in {"checkin", "decide"} : Home[op] = "checkin"
  /\ \A op \in {"train", "advance", "graduate"} : Home[op] = "trainee"
  /\ Home["ramp"] = "ramp"
  /\ \A op \in {"document", "undocument"} : Home[op] = "document"
  /\ \A op \in {"capture", "backfill"} : Home[op] = "distance"
  /\ Home["power"] = "bike" /\ Home["ingest"] = "daily" /\ Home["adjust"] = "period" /\ Home["closeout"] = "closeout"
  /\ \A op \in {"payment_record", "performance_record", "no_on_demand"} : Home[op] = "total"
  /\ \A op \in {"generate", "ungenerate"} : Home[op] = "report"
  /\ \A op \in {"pace", "efficiency"} : Home[op] = "policy"
  /\ Home["cohort"] = "cohort" /\ Home["weights"] = "weights"
  /\ \A op \in {"fleet_terms", "pace_terms", "platform_terms", "ramp_terms"} : Home[op] = "terms"
  /\ \A op \in {"fuel", "fuel_cost"} : Home[op] = "fuel"
  /\ \A op \in {"transfer", "registration", "expense", "economics", "platform"} : Home[op] = "entry"
  /\ Home["account"] = "account"
BY DEF Home

-----------------------------------------------------------------------------
(* What the statements of a handler do.                                     *)

LEMMA EnterDoes ==
  ASSUME InFlight, NEW q \in Requests, NEW op \in DOMAIN Home, NEW key, NEW body,
         NEW do \in {"write", "overwrite", "image", "failed"},
         NEW table, table = Home[op], Enter(q, op, table, key, body, do),
         Within(op)
  PROVE  Effect(q, op)
<1>1. DOMAIN at' = Requests /\ \A p \in Requests \ {q} : at'[p] = at[p]
  BY DEF Enter, InFlight
<1>2. at[q] = Idle /\ Flight(at'[q]) /\ at'[q].op = op /\ at'[q].do = do
  BY DEF Enter, InFlight, Flight
<1>3. Due(at'[q].do) = 0 /\ Due(at[q].do) = 0
  BY <1>2 DEF Due, Owing, Idle
<1>4. untold' = untold /\ stale' = stale /\ cut' = cut
  BY DEF Enter
<1> QED BY <1>1, <1>2, <1>3, <1>4 DEF Effect, InFlight

LEMMA BeginDoes ==
  ASSUME InFlight, NEW q \in Requests, NEW op \in DOMAIN Home, NEW key, NEW body,
         NEW table, table = Home[op], Begin(q, op, table, key, body)
  PROVE  Effect(q, op)
<1>1. Enter(q, op, table, key, body, "write") /\ Within(op)
  BY DEF Begin, Within, SameKeys
<1> QED BY <1>1, EnterDoes

\* Where the request stands after a statement that goes on with do.
LEMMA GotoDoes ==
  ASSUME InFlight, NEW q \in Requests, NEW op \in DOMAIN Home, at[q].op = op,
         NEW do \in {"end", "overwrite", "flag"} \cup Owing, Goto(q, do)
  PROVE  /\ DOMAIN at' = Requests
         /\ \A p \in Requests \ {q} : at'[p] = at[p]
         /\ at[q] # Idle
         /\ at'[q] = Idle \/ (Flight(at'[q]) /\ at'[q].op = op)
         /\ Due(at'[q].do) = Due(do)
         /\ do = "end" => at'[q] = Idle
         /\ do # "end" => /\ at'[q] # Idle /\ at'[q].do = do
                         /\ at'[q].table = at[q].table /\ at'[q].key = at[q].key
                         /\ at'[q].body = at[q].body /\ at'[q].row = at[q].row
<1>1. at[q] # Idle /\ Flight(at[q])
  BY HomeIs DEF InFlight, Idle
<1>2. DOMAIN at' = Requests /\ \A p \in Requests \ {q} : at'[p] = at[p]
  BY DEF Goto, InFlight
<1>3. at'[q] = IF do = "end" THEN Idle ELSE [at[q] EXCEPT !.do = do]
  BY DEF Goto, InFlight
<1>4. CASE do = "end"
  BY <1>1, <1>2, <1>3, <1>4 DEF Due, Owing, Idle
<1>5. CASE do # "end"
  <2>1. at'[q] = [at[q] EXCEPT !.do = do]
    BY <1>3, <1>5
  <2>2. /\ DOMAIN at'[q] = DOMAIN at[q] /\ at'[q].op = op /\ at'[q].do = do
        /\ at'[q].table = at[q].table /\ at'[q].key = at[q].key
        /\ at'[q].body = at[q].body /\ at'[q].row = at[q].row
    BY <2>1, <1>1 DEF Flight
  <2>3. Flight(at'[q])
    BY <2>2, <1>1, <1>5 DEF Flight
  <2>4. at'[q] # Idle
    BY <2>2, HomeIs DEF Idle
  <2> QED BY <1>1, <1>2, <1>3, <1>5, <2>2, <2>3, <2>4
<1> QED BY <1>4, <1>5

LEMMA WriteDoes ==
  ASSUME InFlight, NEW q \in Requests, NEW op \in DOMAIN Home, at[q].op = op,
         at[q].do \in {"write", "overwrite"}, NEW row, NEW do \in Owing,
         Write(q, row, do), stale \subseteq stale'
  PROVE  Effect(q, op)
<1>1. Goto(q, do) /\ cut' = cut /\ untold' = untold + 1
  BY DEF Write
<1>2. Due(at[q].do) = 0 /\ Due(do) = 1
  BY DEF Due, Owing
<1>3. Flight(at[q])
  BY HomeIs DEF InFlight, Idle
<1>4. at[q].table \in Reach(op)
  BY <1>3 DEF Flight, Reach, Home
<1>5. db' = [db EXCEPT ![at[q].table][at[q].key] = row]
  BY DEF Write
<1>6. Within(op)
  BY <1>4, <1>5 DEF Within, SameKeys
<1>7. /\ DOMAIN at' = Requests
      /\ \A p \in Requests \ {q} : at'[p] = at[p]
      /\ at'[q] = Idle \/ (Flight(at'[q]) /\ at'[q].op = op)
      /\ Due(at'[q].do) = Due(do)
  BY <1>1, GotoDoes
<1>8. untold' = untold + Due(at'[q].do) - Due(at[q].do)
  BY <1>1, <1>2, <1>7 DEF InFlight
<1> QED BY <1>1, <1>6, <1>7, <1>8 DEF Effect

LEMMA PutDoes ==
  ASSUME InFlight, NEW q \in Requests, NEW op \in DOMAIN Home, at[q].op = op,
         at[q].do \in {"write", "overwrite"}, NEW row, NEW do \in Owing, Put(q, row, do)
  PROVE  Effect(q, op)
BY WriteDoes DEF Put

LEMMA StoreDoes ==
  ASSUME InFlight, NEW q \in Requests, NEW op \in DOMAIN Home, at[q].op = op,
         at[q].do \in {"write", "overwrite"}, NEW row, NEW do \in Owing, Store(q, row, do)
  PROVE  Effect(q, op)
BY WriteDoes DEF Store

LEMMA PassDoes ==
  ASSUME InFlight, NEW q \in Requests, NEW op \in DOMAIN Home, at[q].op = op,
         NEW tables, NEW do \in {"end", "overwrite", "flag"} \cup Owing, Due(do) = Due(at[q].do),
         Pass(q, tables, do), Within(op)
  PROVE  Effect(q, op)
<1>1. Goto(q, do) /\ cut' = cut /\ stale' = stale /\ untold' = untold
  BY DEF Pass
<1>2. /\ DOMAIN at' = Requests
      /\ \A p \in Requests \ {q} : at'[p] = at[p]
      /\ at'[q] = Idle \/ (Flight(at'[q]) /\ at'[q].op = op)
      /\ Due(at'[q].do) = Due(do)
  BY <1>1, GotoDoes
<1>3. untold' = untold + Due(at'[q].do) - Due(at[q].do)
  BY <1>1, <1>2 DEF InFlight, Due
<1> QED BY <1>1, <1>2, <1>3 DEF Effect

LEMMA ThrowDoes ==
  ASSUME InFlight, NEW q \in Requests, NEW op \in DOMAIN Home, at[q].op = op, at[q].do = "write", Throw(q)
  PROVE  Effect(q, op)
BY PassDoes DEF Throw, Pass, Within, SameKeys, Due, Owing

LEMMA TellDoes ==
  ASSUME InFlight, NEW q \in Requests, NEW op \in DOMAIN Home, at[q].op = op,
         at[q].do \in Owing, NEW do \in {"end", "flag"}, Tell(q, do)
  PROVE  Effect(q, op)
<1>1. /\ Goto(q, do) /\ cut' = cut /\ stale' = stale /\ untold' = untold - 1 /\ db' = db
  BY DEF Tell
<1>2. Due(at[q].do) = 1 /\ Due(do) = 0
  BY DEF Due, Owing
<1>3. /\ DOMAIN at' = Requests
      /\ \A p \in Requests \ {q} : at'[p] = at[p]
      /\ at'[q] = Idle \/ (Flight(at'[q]) /\ at'[q].op = op)
      /\ Due(at'[q].do) = Due(do)
  BY <1>1, GotoDoes
<1>4. untold' = untold + Due(at'[q].do) - Due(at[q].do)
  BY <1>1, <1>2, <1>3 DEF InFlight
<1> QED BY <1>1, <1>3, <1>4 DEF Effect, Within, SameKeys

-----------------------------------------------------------------------------
(* What the handlers do.                                                    *)

LEMMA PlainHandlers ==
  ASSUME InFlight, NEW q \in Requests
  PROVE  /\ AcknowledgeIncident(q) => Effect(q, "acknowledge")
         /\ UpdateIncidentDetails(q) => Effect(q, "details")
         /\ ResolveIncident(q) => Effect(q, "resolve")
         /\ CreateInspection(q) => Effect(q, "inspect")
         /\ ReviewInspection(q) => Effect(q, "review")
         /\ CreateMaintenanceReport(q) => Effect(q, "repair")
         /\ UpdateMaintenanceStatus(q) => Effect(q, "progress")
         /\ RequestCheckin(q) => Effect(q, "checkin")
         /\ DecideCheckin(q) => Effect(q, "decide")
         /\ CreateSupervisorOnboarding(q) => Effect(q, "train")
         /\ AdvanceSupervisorPhase(q) => Effect(q, "advance")
         /\ GraduateSupervisor(q) => Effect(q, "graduate")
         /\ DeleteDocument(q) => Effect(q, "undocument")
         /\ UpsertRecord(q) => Effect(q, "capture")
         /\ BackfillMissing(q) => Effect(q, "backfill")
         /\ CreateCashAdjustment(q) => Effect(q, "adjust")
         /\ CreateDailyCloseout(q) => Effect(q, "closeout")
         /\ UpsertPaymentRecord(q) => Effect(q, "payment_record")
         /\ UpsertPerformanceCashRecord(q) => Effect(q, "performance_record")
         /\ ConfirmNoOnDemand(q) => Effect(q, "no_on_demand")
         /\ GenerateDailyReport(q) => Effect(q, "generate")
         /\ DeleteDailyReport(q) => Effect(q, "ungenerate")
         /\ CreateRevenuePaceProfile(q) => Effect(q, "pace")
         /\ CreateEfficiencyPolicy(q) => Effect(q, "efficiency")
         /\ FindOrCreateCohort(q) => Effect(q, "cohort")
         /\ UpdateLeaderboardConfig(q) => Effect(q, "weights")
         /\ UpdateFleetPolicy(q) => Effect(q, "fleet_terms")
         /\ UpdateRevenuePaceProfile(q) => Effect(q, "pace_terms")
         /\ UpdatePlatformAccount(q) => Effect(q, "platform_terms")
         /\ UpdateRampProfile(q) => Effect(q, "ramp_terms")
         /\ CreateTransferPriceEvent(q) => Effect(q, "transfer")
         /\ RegisterPlatform(q) => Effect(q, "registration")
         /\ CreateExpense(q) => Effect(q, "expense")
         /\ CreateEconomicsPolicy(q) => Effect(q, "economics")
         /\ CreatePlatformAccount(q) => Effect(q, "platform")
         /\ AssignMonnifyAccount(q) => Effect(q, "account")
<1>1. ASSUME AcknowledgeIncident(q) PROVE Effect(q, "acknowledge")
  BY <1>1, HomeIs, BeginDoes, StoreDoes DEF AcknowledgeIncident, Handler, Doing, Owing
<1>2. ASSUME UpdateIncidentDetails(q) PROVE Effect(q, "details")
  BY <1>2, HomeIs, BeginDoes, StoreDoes DEF UpdateIncidentDetails, Handler, Doing, Owing
<1>3. ASSUME ResolveIncident(q) PROVE Effect(q, "resolve")
  BY <1>3, HomeIs, BeginDoes, StoreDoes DEF ResolveIncident, Handler, Doing, Owing
<1>4. ASSUME CreateInspection(q) PROVE Effect(q, "inspect")
  BY <1>4, HomeIs, BeginDoes, PutDoes DEF CreateInspection, Report, Doing, Owing
<1>5. ASSUME ReviewInspection(q) PROVE Effect(q, "review")
  BY <1>5, HomeIs, BeginDoes, StoreDoes DEF ReviewInspection, Handler, Doing, Owing
<1>6. ASSUME CreateMaintenanceReport(q) PROVE Effect(q, "repair")
  BY <1>6, HomeIs, BeginDoes, PutDoes DEF CreateMaintenanceReport, Report, Doing, Owing
<1>7. ASSUME UpdateMaintenanceStatus(q) PROVE Effect(q, "progress")
  BY <1>7, HomeIs, BeginDoes, StoreDoes DEF UpdateMaintenanceStatus, Handler, Doing, Owing
<1>8. ASSUME RequestCheckin(q) PROVE Effect(q, "checkin")
  BY <1>8, HomeIs, BeginDoes, PutDoes DEF RequestCheckin, Upsert, Doing, Owing
<1>9. ASSUME DecideCheckin(q) PROVE Effect(q, "decide")
  BY <1>9, HomeIs, BeginDoes, StoreDoes DEF DecideCheckin, Handler, Doing, Owing
<1>10. ASSUME CreateSupervisorOnboarding(q) PROVE Effect(q, "train")
  BY <1>10, HomeIs, BeginDoes, PutDoes DEF CreateSupervisorOnboarding, Report, Doing, Owing
<1>11. ASSUME AdvanceSupervisorPhase(q) PROVE Effect(q, "advance")
  BY <1>11, HomeIs, BeginDoes, StoreDoes DEF AdvanceSupervisorPhase, Handler, Doing, Owing
<1>12. ASSUME GraduateSupervisor(q) PROVE Effect(q, "graduate")
  BY <1>12, HomeIs, BeginDoes, StoreDoes DEF GraduateSupervisor, Handler, Doing, Owing
<1>13. ASSUME DeleteDocument(q) PROVE Effect(q, "undocument")
  BY <1>13, HomeIs, BeginDoes, StoreDoes DEF DeleteDocument, Handler, Doing, Owing
<1>14. ASSUME UpsertRecord(q) PROVE Effect(q, "capture")
  BY <1>14, HomeIs, BeginDoes, PutDoes DEF UpsertRecord, Upsert, Doing, Owing
<1>15. ASSUME BackfillMissing(q) PROVE Effect(q, "backfill")
  BY <1>15, HomeIs, BeginDoes, StoreDoes DEF BackfillMissing, Handler, Doing, Owing
<1>16. ASSUME CreateCashAdjustment(q) PROVE Effect(q, "adjust")
  BY <1>16, HomeIs, BeginDoes, StoreDoes DEF CreateCashAdjustment, Handler, Doing, Owing
<1>17. ASSUME CreateDailyCloseout(q) PROVE Effect(q, "closeout")
  BY <1>17, HomeIs, BeginDoes, PutDoes, ZenonT(60) DEF CreateDailyCloseout, Doing, Owing
<1>18. ASSUME UpsertPaymentRecord(q) PROVE Effect(q, "payment_record")
  BY <1>18, HomeIs, BeginDoes, PutDoes, ZenonT(60) DEF UpsertPaymentRecord, Total, Doing, Owing
<1>19. ASSUME UpsertPerformanceCashRecord(q) PROVE Effect(q, "performance_record")
  BY <1>19, HomeIs, BeginDoes, PutDoes, ZenonT(60) DEF UpsertPerformanceCashRecord, Total, Doing, Owing
<1>20. ASSUME ConfirmNoOnDemand(q) PROVE Effect(q, "no_on_demand")
  BY <1>20, HomeIs, BeginDoes, PutDoes, ZenonT(60) DEF ConfirmNoOnDemand, Total, Doing, Owing
<1>21. ASSUME GenerateDailyReport(q) PROVE Effect(q, "generate")
  BY <1>21, HomeIs, BeginDoes, StoreDoes, ThrowDoes DEF GenerateDailyReport, Doing, Owing
<1>22. ASSUME DeleteDailyReport(q) PROVE Effect(q, "ungenerate")
  BY <1>22, HomeIs, BeginDoes, StoreDoes DEF DeleteDailyReport, Doing, Owing
<1>23. ASSUME CreateRevenuePaceProfile(q) PROVE Effect(q, "pace")
  BY <1>23, HomeIs, BeginDoes, StoreDoes DEF CreateRevenuePaceProfile, Version, Doing, Owing
<1>24. ASSUME CreateEfficiencyPolicy(q) PROVE Effect(q, "efficiency")
  BY <1>24, HomeIs, BeginDoes, StoreDoes DEF CreateEfficiencyPolicy, Version, Doing, Owing
<1>25. ASSUME FindOrCreateCohort(q) PROVE Effect(q, "cohort")
  BY <1>25, HomeIs, BeginDoes, StoreDoes DEF FindOrCreateCohort, Version, Doing, Owing
<1>26. ASSUME UpdateLeaderboardConfig(q) PROVE Effect(q, "weights")
  BY <1>26, HomeIs, BeginDoes, StoreDoes DEF UpdateLeaderboardConfig, Handler, Doing, Owing
<1>27. ASSUME UpdateFleetPolicy(q) PROVE Effect(q, "fleet_terms")
  BY <1>27, HomeIs, BeginDoes, StoreDoes DEF UpdateFleetPolicy, Terms, Doing, Owing
<1>28. ASSUME UpdateRevenuePaceProfile(q) PROVE Effect(q, "pace_terms")
  BY <1>28, HomeIs, BeginDoes, StoreDoes DEF UpdateRevenuePaceProfile, Terms, Doing, Owing
<1>29. ASSUME UpdatePlatformAccount(q) PROVE Effect(q, "platform_terms")
  BY <1>29, HomeIs, BeginDoes, StoreDoes DEF UpdatePlatformAccount, Terms, Doing, Owing
<1>30. ASSUME UpdateRampProfile(q) PROVE Effect(q, "ramp_terms")
  BY <1>30, HomeIs, BeginDoes, StoreDoes DEF UpdateRampProfile, Terms, Doing, Owing
<1>31. ASSUME CreateTransferPriceEvent(q) PROVE Effect(q, "transfer")
  BY <1>31, HomeIs, BeginDoes, PutDoes, ThrowDoes DEF CreateTransferPriceEvent, NamedEntry, Doing, Owing
<1>32. ASSUME RegisterPlatform(q) PROVE Effect(q, "registration")
  BY <1>32, HomeIs, BeginDoes, PutDoes, ThrowDoes DEF RegisterPlatform, NamedEntry, Doing, Owing
<1>33. ASSUME CreateExpense(q) PROVE Effect(q, "expense")
  BY <1>33, HomeIs, BeginDoes, PutDoes DEF CreateExpense, NewEntry, Doing, Owing
<1>34. ASSUME CreateEconomicsPolicy(q) PROVE Effect(q, "economics")
  BY <1>34, HomeIs, BeginDoes, PutDoes DEF CreateEconomicsPolicy, NewEntry, Doing, Owing
<1>35. ASSUME CreatePlatformAccount(q) PROVE Effect(q, "platform")
  BY <1>35, HomeIs, BeginDoes, PutDoes DEF CreatePlatformAccount, NewEntry, Doing, Owing
<1>36. ASSUME AssignMonnifyAccount(q) PROVE Effect(q, "account")
  BY <1>36, HomeIs, BeginDoes, PutDoes, ThrowDoes DEF AssignMonnifyAccount, Doing, Owing
<1> QED BY <1>1, <1>2, <1>3, <1>4, <1>5, <1>6, <1>7, <1>8, <1>9, <1>10, <1>11, <1>12, <1>13, <1>14, <1>15, <1>16,
           <1>17, <1>18, <1>19, <1>20, <1>21, <1>22, <1>23, <1>24, <1>25, <1>26, <1>27, <1>28, <1>29, <1>30, <1>31,
           <1>32, <1>33, <1>34, <1>35, <1>36

LEMMA CreateIncidentDoes ==
  ASSUME InFlight, NEW q \in Requests, CreateIncident(q)
  PROVE  Effect(q, "incident")
<1>1. CASE Doing(q, "incident", "notice")
  <2>1. \/ Pass(q, [db EXCEPT !.incident[at[q].key].told = TRUE], "audit")
        \/ \E i \in DOMAIN db.incident, body \in Costing : Begin(q, "incident", "incident", i, body)
    BY <1>1 DEF CreateIncident, Doing
  <2>2. SUFFICES ASSUME Pass(q, [db EXCEPT !.incident[at[q].key].told = TRUE], "audit")
                 PROVE  Effect(q, "incident")
    BY <2>1, HomeIs, BeginDoes
  <2>3. db' = [db EXCEPT !.incident[at[q].key].told = TRUE]
    BY <2>2 DEF Pass
  <2>4. Within("incident")
    BY <2>3, HomeIs DEF Within, SameKeys, Reach
  <2>5. at[q].op = "incident" /\ Due("audit") = Due(at[q].do) /\ "audit" \in Owing
    BY <1>1 DEF Doing, Due, Owing
  <2> QED BY <2>2, <2>4, <2>5, HomeIs, PassDoes
<1>2. ASSUME Doing(q, "incident", "write"), NEW row, NEW do \in {"audit", "notice"}, Put(q, row, do)
      PROVE  Effect(q, "incident")
  BY <1>2, HomeIs, PutDoes DEF Doing, Owing
<1>3. CASE ~Doing(q, "incident", "notice")
  BY <1>2, <1>3, HomeIs, BeginDoes DEF CreateIncident
<1> QED BY <1>1, <1>3

LEMMA CreateRampProfileDoes ==
  ASSUME InFlight, NEW q \in Requests, CreateRampProfile(q)
  PROVE  Effect(q, "ramp")
<1>1. CASE Doing(q, "ramp", "insert")
  <2> DEFINE more == [db EXCEPT !.ramp[at[q].key].versions =
                        @ \cup {[n |-> Cardinality(@) + 1, from |-> at[q].body.from, to |-> Forever]}]
  <2>1. \/ Pass(q, more, "audit")
        \/ \E c \in DOMAIN db.ramp, d \in Days : Begin(q, "ramp", "ramp", c, [from |-> d])
    BY <1>1 DEF CreateRampProfile, Doing
  <2>2. Within("ramp")
    <3>1. db' = more \/ db' = db
      BY <2>1 DEF Pass, Begin
    <3> QED BY <3>1, HomeIs DEF Within, SameKeys, Reach
  <2> HIDE DEF more
  <2>3. at[q].op = "ramp" /\ Due("audit") = Due(at[q].do) /\ "audit" \in Owing
    BY <1>1 DEF Doing, Due, Owing
  <2> QED BY <2>1, <2>2, <2>3, HomeIs, PassDoes, BeginDoes
<1>2. CASE ~Doing(q, "ramp", "insert")
  BY <1>2, HomeIs, BeginDoes, PutDoes DEF CreateRampProfile, Doing, Owing
<1> QED BY <1>1, <1>2

LEMMA CreateDocumentDoes ==
  ASSUME InFlight, NEW q \in Requests, CreateDocument(q)
  PROVE  Effect(q, "document")
<1>1. ASSUME NEW status, NEW do \in {"audit", "link"}, Doing(q, "document", "media") \/ Doing(q, "document", "link"),
             Pass(q, [db EXCEPT !.document[at[q].key].status = status], do)
      PROVE  Effect(q, "document")
  <2>1. db' = [db EXCEPT !.document[at[q].key].status = status]
    BY <1>1 DEF Pass
  <2>2. Within("document")
    BY <2>1, HomeIs DEF Within, SameKeys, Reach
  <2>3. at[q].op = "document" /\ Due(do) = Due(at[q].do) /\ do \in Owing
    BY <1>1 DEF Doing, Due, Owing
  <2> QED BY <1>1, <2>2, <2>3, HomeIs, PassDoes
<1>2. CASE Doing(q, "document", "media") \/ Doing(q, "document", "link")
  BY <1>1, <1>2, HomeIs, BeginDoes DEF CreateDocument, Doing
<1>3. CASE ~(Doing(q, "document", "media") \/ Doing(q, "document", "link"))
  BY <1>3, HomeIs, BeginDoes, PutDoes, ThrowDoes DEF CreateDocument, Doing, Owing
<1> QED BY <1>2, <1>3

LEMMA ControlBatteryDoes ==
  ASSUME InFlight, NEW q \in Requests, ControlBattery(q)
  PROVE  Effect(q, "power")
<1>1. CASE Doing(q, "power", "record")
  <2> DEFINE less == [db EXCEPT !.bike[at[q].key].unrecorded = @ - 1]
  <2>1. \/ Pass(q, less, "audit")
        \/ \E v \in DOMAIN db.bike : \E body : Begin(q, "power", "bike", v, body)
    BY <1>1 DEF ControlBattery, Doing
  <2>2. Within("power")
    <3>1. db' = less \/ db' = db
      BY <2>1 DEF Pass, Begin
    <3> QED BY <3>1, HomeIs DEF Within, SameKeys, Reach
  <2> HIDE DEF less
  <2>3. at[q].op = "power" /\ Due("audit") = Due(at[q].do) /\ "audit" \in Owing
    BY <1>1 DEF Doing, Due, Owing
  <2> QED BY <2>1, <2>2, <2>3, HomeIs, PassDoes, BeginDoes
<1>2. CASE ~Doing(q, "power", "record")
  BY <1>2, HomeIs, BeginDoes, PutDoes, ThrowDoes, ZenonT(60) DEF ControlBattery, Doing, Owing
<1> QED BY <1>1, <1>2

LEMMA IngestDoes ==
  ASSUME InFlight, NEW q \in Requests, IngestDailyRecords(q)
  PROVE  Effect(q, "ingest")
<1> DEFINE next(d, body) == IF Refuses(db.daily[d], body) THEN "failed"
                            ELSE IF body.source = "manual" /\ Live(db.daily[d]) THEN "image" ELSE "overwrite"
<1>1. ASSUME NEW d \in DOMAIN db.daily, NEW body, Enter(q, "ingest", "daily", d, body, next(d, body)),
             db' = [db EXCEPT !.runs["running"].open = @ + 1]
      PROVE  Effect(q, "ingest")
  <2>1. Within("ingest")
    BY <1>1 DEF Within, SameKeys, Reach
  <2>2. next(d, body) \in {"write", "overwrite", "image", "failed"}
    OBVIOUS
  <2> HIDE DEF next
  <2> QED BY <1>1, <2>1, <2>2, HomeIs, EnterDoes
<1>2. ASSUME Doing(q, "ingest", "image"),
             Pass(q, [db EXCEPT !.images[at[q].key].of = @ \cup {[row |-> Read(q), forced |-> Authoritative(Read(q)) /\ at[q].body.override]}],
                  "overwrite")
      PROVE  Effect(q, "ingest")
  <2>1. db' = [db EXCEPT !.images[at[q].key].of = @ \cup {[row |-> Read(q), forced |-> Authoritative(Read(q)) /\ at[q].body.override]}]
    BY <1>2 DEF Pass
  <2>2. Within("ingest")
    BY <2>1 DEF Within, SameKeys, Reach
  <2>3. at[q].op = "ingest" /\ Due("overwrite") = Due(at[q].do)
    BY <1>2 DEF Doing, Due, Owing
  <2> QED BY <1>2, <2>2, <2>3, HomeIs, PassDoes
<1>3. ASSUME Doing(q, "ingest", "overwrite"), Store(q, Figure(Read(q), at[q].body), "close")
      PROVE  Effect(q, "ingest")
  BY <1>3, HomeIs, StoreDoes DEF Doing, Owing
<1>4. ASSUME at[q].op = "ingest", at[q].do \in {"close", "failed"},
             Pass(q, [db EXCEPT !.runs["running"].open = @ - 1], IF at[q].do = "close" THEN "audit" ELSE "end")
      PROVE  Effect(q, "ingest")
  <2>1. db' = [db EXCEPT !.runs["running"].open = @ - 1]
    BY <1>4 DEF Pass
  <2>2. Within("ingest")
    BY <2>1 DEF Within, SameKeys, Reach
  <2> DEFINE do == IF at[q].do = "close" THEN "audit" ELSE "end"
  <2>3. Due(do) = Due(at[q].do) /\ do \in {"end"} \cup Owing
    BY <1>4 DEF Due, Owing
  <2>4. Pass(q, [db EXCEPT !.runs["running"].open = @ - 1], do)
    BY <1>4
  <2> HIDE DEF do
  <2> QED BY <1>4, <2>2, <2>3, <2>4, HomeIs, PassDoes
<1> QED BY <1>1, <1>2, <1>3, <1>4 DEF IngestDailyRecords

LEMMA FlagDoes ==
  ASSUME InFlight, NEW q \in Requests, NEW op \in {"fuel", "fuel_cost"}, Flag(q, op)
  PROVE  Effect(q, op)
<1>1. CASE Doing(q, op, "tell") /\ Tell(q, "flag")
  BY <1>1, HomeIs, TellDoes DEF Doing, Owing
<1>2. CASE Doing(q, op, "flag")
  <2> DEFINE told == IF at[q].body.over THEN [db EXCEPT !.fuel[at[q].key].flagged = TRUE] ELSE db
  <2>1. Pass(q, told, "end")
    BY <1>2 DEF Flag, Doing
  <2>2. db' = told
    BY <2>1 DEF Pass
  <2>3. Within(op)
    BY <2>2, HomeIs DEF Within, SameKeys, Reach
  <2> HIDE DEF told
  <2>4. at[q].op = op /\ Due("end") = Due(at[q].do)
    BY <1>2 DEF Doing, Due, Owing
  <2> QED BY <2>1, <2>3, <2>4, HomeIs, PassDoes
<1> QED BY <1>1, <1>2 DEF Flag

LEMMA FuelDoes ==
  ASSUME InFlight, NEW q \in Requests
  PROVE  /\ CreateFuelIssue(q) => Effect(q, "fuel")
         /\ UpdateFuelIssue(q) => Effect(q, "fuel_cost")
<1>1. ASSUME CreateFuelIssue(q) PROVE Effect(q, "fuel")
  BY <1>1, HomeIs, FlagDoes, BeginDoes, ThrowDoes, PutDoes, ZenonT(60) DEF CreateFuelIssue, Doing, Owing
<1>2. ASSUME UpdateFuelIssue(q) PROVE Effect(q, "fuel_cost")
  BY <1>2, HomeIs, FlagDoes, BeginDoes, PutDoes, ZenonT(60) DEF UpdateFuelIssue, Doing, Owing
<1> QED BY <1>1, <1>2

-----------------------------------------------------------------------------
(* Every step.                                                              *)

LEMMA AuditDoes ==
  ASSUME InFlight, NEW q \in Requests, Audit(q)
  PROVE  /\ at[q].op \in DOMAIN Home /\ Effect(q, at[q].op) /\ db' = db /\ stale' = stale
         /\ at'[q] = Idle /\ at[q].do = "audit"
<1>1. at[q].do = "audit" /\ Tell(q, "end")
  BY DEF Audit
<1>2. at[q] # Idle /\ Flight(at[q])
  BY <1>1 DEF InFlight, Idle
<1>3. at[q].op \in DOMAIN Home /\ "audit" \in Owing
  BY <1>2 DEF Flight, Owing
<1>4. Effect(q, at[q].op)
  BY <1>1, <1>3, TellDoes
<1>5. db' = db /\ stale' = stale /\ at'[q] = Idle
  BY <1>1 DEF Tell, Goto, InFlight
<1> QED BY <1>1, <1>3, <1>4, <1>5

\* A step of a handler that leaves the table alone.
Elsewhere(table) ==
  \E q \in Requests, op \in DOMAIN Home : table \notin Reach(op) /\ Effect(q, op)

\* A step that changes no row of the table and starts nothing.
Quiet(table) ==
  /\ table \in DOMAIN db => db'[table] = db[table]
  /\ stale' = stale /\ SameKeys
  /\ \/ at' = at /\ cut' = cut /\ untold' = untold
     \/ Restart
     \/ \E q \in Requests : Audit(q)

LEMMA OutsideDoes ==
  ASSUME InFlight, NEW table,
         \/ Ride /\ table # "bike"
         \/ ClosePeriod /\ table # "period"
         \/ Restart
         \/ \E q \in Requests : Audit(q)
         \/ UNCHANGED recordVars
  PROVE  Quiet(table)
<1>1. CASE Ride /\ table # "bike"
  <2>1. PICK v \in DOMAIN db.bike, seen \in {"riding", "still", "old"} : db' = [db EXCEPT !.bike[v].seen = seen]
    BY <1>1 DEF Ride
  <2>2. table \in DOMAIN db => db'[table] = db[table]
    BY <2>1, <1>1
  <2>3. SameKeys
    BY <2>1 DEF SameKeys
  <2> QED BY <1>1, <2>2, <2>3 DEF Quiet, Ride
<1>2. CASE ClosePeriod /\ table # "period"
  <2>1. PICK d \in DOMAIN db.period : db' = [db EXCEPT !.period[d].status = "closed"]
    BY <1>2 DEF ClosePeriod
  <2>2. table \in DOMAIN db => db'[table] = db[table]
    BY <2>1, <1>2
  <2>3. SameKeys
    BY <2>1 DEF SameKeys
  <2> QED BY <1>2, <2>2, <2>3 DEF Quiet, ClosePeriod
<1>3. CASE Restart
  BY <1>3 DEF Quiet, Restart, SameKeys
<1>4. CASE \E q \in Requests : Audit(q)
  BY <1>4, AuditDoes DEF Quiet, SameKeys
<1>5. CASE UNCHANGED recordVars
  BY <1>5 DEF Quiet, recordVars, SameKeys
<1> QED BY <1>1, <1>2, <1>3, <1>4, <1>5

LEMMA EveryHandler ==
  ASSUME InFlight, NEW q \in Requests
  PROVE  /\ CreateIncident(q) => Effect(q, "incident")
         /\ AcknowledgeIncident(q) => Effect(q, "acknowledge")
         /\ UpdateIncidentDetails(q) => Effect(q, "details")
         /\ ResolveIncident(q) => Effect(q, "resolve")
         /\ CreateInspection(q) => Effect(q, "inspect")
         /\ ReviewInspection(q) => Effect(q, "review")
         /\ CreateMaintenanceReport(q) => Effect(q, "repair")
         /\ UpdateMaintenanceStatus(q) => Effect(q, "progress")
         /\ RequestCheckin(q) => Effect(q, "checkin")
         /\ DecideCheckin(q) => Effect(q, "decide")
         /\ CreateSupervisorOnboarding(q) => Effect(q, "train")
         /\ AdvanceSupervisorPhase(q) => Effect(q, "advance")
         /\ GraduateSupervisor(q) => Effect(q, "graduate")
         /\ CreateRampProfile(q) => Effect(q, "ramp")
         /\ CreateDocument(q) => Effect(q, "document")
         /\ DeleteDocument(q) => Effect(q, "undocument")
         /\ UpsertRecord(q) => Effect(q, "capture")
         /\ BackfillMissing(q) => Effect(q, "backfill")
         /\ ControlBattery(q) => Effect(q, "power")
         /\ IngestDailyRecords(q) => Effect(q, "ingest")
         /\ CreateCashAdjustment(q) => Effect(q, "adjust")
         /\ CreateDailyCloseout(q) => Effect(q, "closeout")
         /\ UpsertPaymentRecord(q) => Effect(q, "payment_record")
         /\ UpsertPerformanceCashRecord(q) => Effect(q, "performance_record")
         /\ ConfirmNoOnDemand(q) => Effect(q, "no_on_demand")
         /\ GenerateDailyReport(q) => Effect(q, "generate")
         /\ DeleteDailyReport(q) => Effect(q, "ungenerate")
         /\ CreateRevenuePaceProfile(q) => Effect(q, "pace")
         /\ CreateEfficiencyPolicy(q) => Effect(q, "efficiency")
         /\ FindOrCreateCohort(q) => Effect(q, "cohort")
         /\ UpdateLeaderboardConfig(q) => Effect(q, "weights")
         /\ UpdateFleetPolicy(q) => Effect(q, "fleet_terms")
         /\ UpdateRevenuePaceProfile(q) => Effect(q, "pace_terms")
         /\ UpdatePlatformAccount(q) => Effect(q, "platform_terms")
         /\ UpdateRampProfile(q) => Effect(q, "ramp_terms")
         /\ CreateFuelIssue(q) => Effect(q, "fuel")
         /\ UpdateFuelIssue(q) => Effect(q, "fuel_cost")
         /\ CreateTransferPriceEvent(q) => Effect(q, "transfer")
         /\ RegisterPlatform(q) => Effect(q, "registration")
         /\ CreateExpense(q) => Effect(q, "expense")
         /\ CreateEconomicsPolicy(q) => Effect(q, "economics")
         /\ CreatePlatformAccount(q) => Effect(q, "platform")
         /\ AssignMonnifyAccount(q) => Effect(q, "account")
BY PlainHandlers, CreateIncidentDoes, CreateRampProfileDoes, CreateDocumentDoes, ControlBatteryDoes, IngestDoes,
   FuelDoes

LEMMA UnfinishedCounted ==
  ASSUME InFlight
  PROVE  /\ IsFiniteSet(Unfinished) /\ Cardinality(Unfinished) \in Nat
         /\ \A q \in Requests : at[q].do \in {"audit", "notice", "insert", "media", "link", "record", "close", "tell", "flag",
                                              "overwrite", "image", "failed"} => Cardinality(Unfinished) > 0
<1>1. IsFiniteSet(Unfinished) /\ Cardinality(Unfinished) \in Nat
  BY HandlersAssumption, FS_Subset, FS_CardinalityType DEF Unfinished
<1>2. ASSUME NEW q \in Requests, at[q].do \notin {"start", "write"} PROVE Cardinality(Unfinished) > 0
  <2>1. Unfinished # {}
    BY <1>2 DEF Unfinished
  <2> QED BY <1>1, <2>1, FS_EmptySet
<1> QED BY <1>1, <1>2

LEMMA RestartCuts ==
  ASSUME InFlight, Restart
  PROVE  /\ cut' = cut + Cardinality(Unfinished) /\ cut' \in Nat
         /\ at' = [q \in Requests |-> Idle]
BY UnfinishedCounted DEF Restart, InFlight, Unfinished

LEMMA InFlightKept ==
  ASSUME InFlight, [RecordsNext]_recordVars
  PROVE  InFlight'
<1>1. ASSUME NEW q \in Requests, NEW op, Effect(q, op) PROVE InFlight'
  <2>1. untold' \in Int /\ cut' \in Nat
    BY <1>1 DEF Effect, InFlight, Due
  <2>2. DOMAIN at' = Requests /\ \A p \in Requests : at'[p] = Idle \/ Flight(at'[p])
    BY <1>1 DEF Effect, InFlight
  <2> QED BY <2>1, <2>2 DEF InFlight
<1>2. CASE Restart
  BY <1>2, RestartCuts DEF Restart, InFlight
<1>3. CASE Ride \/ ClosePeriod \/ UNCHANGED recordVars
  BY <1>3 DEF Ride, ClosePeriod, recordVars, InFlight
<1>4. CASE \E q \in Requests : Audit(q)
  BY <1>1, <1>4, AuditDoes
<1>5. CASE \E q \in Requests, op \in DOMAIN Home : Effect(q, op)
  BY <1>1, <1>5
<1> QED BY <1>2, <1>3, <1>4, <1>5, EveryHandler, HomeIs DEF RecordsNext, FieldWorkNext, BooksNext

\* A request that has nothing to do with the table.
Apart(e, table) == e = Idle \/ (e.op \in DOMAIN Home /\ Home[e.op] # table)

\* Requests about the table at one of these statements.
Busy(table, dos) == {p \in Requests : at[p] # Idle /\ at[p].table = table /\ at[p].do \in dos}
Midway == {"overwrite", "image", "failed", "flag"} \cup (Owing \ {"audit"})

\* Whatever else happens while the table is left alone: a request about it stays
\* where it is, ends, or is cut off by a death of the process.
Calm(table) ==
  /\ table \in DOMAIN db => db'[table] = db[table]
  /\ SameKeys /\ stale \subseteq stale' /\ cut' \in Nat /\ cut' >= cut
  /\ \A p \in Requests :
       \/ at'[p] = at[p]
       \/ at'[p] = Idle /\ (at[p].do \in {"start", "write", "audit"} \/ cut' > 0)
       \/ Apart(at[p], table) /\ Apart(at'[p], table)
  /\ \A dos \in SUBSET Midway : cut + Cardinality(Busy(table, dos)) <= cut' + Cardinality(Busy(table, dos)')

LEMMA BusyCounted ==
  ASSUME NEW table, NEW dos
  PROVE  /\ IsFiniteSet(Busy(table, dos)) /\ Cardinality(Busy(table, dos)) \in Nat
         /\ IsFiniteSet(Busy(table, dos)') /\ Cardinality(Busy(table, dos)') \in Nat
BY HandlersAssumption, FS_Subset, FS_CardinalityType DEF Busy

LEMMA ElsewhereCalm ==
  ASSUME InFlight, NEW table, Elsewhere(table)
  PROVE  Calm(table)
<1>1. PICK q \in Requests, op \in DOMAIN Home : table \notin Reach(op) /\ Effect(q, op)
  BY DEF Elsewhere
<1>2. Home[op] # table
  BY <1>1, HomeIs DEF Reach
<1>3. Apart(at[q], table) /\ Apart(at'[q], table)
  BY <1>1, <1>2, HomeIs DEF Effect, Apart
<1>4. ASSUME NEW dos \in SUBSET Midway
      PROVE  cut + Cardinality(Busy(table, dos)) <= cut' + Cardinality(Busy(table, dos)')
  <2>1. \A p \in Requests : at'[p] = at[p] \/ (~(at[p] # Idle /\ at[p].table = table) /\ ~(at'[p] # Idle /\ at'[p].table = table))
    BY <1>1, <1>2 DEF Effect, Flight, InFlight
  <2>2. Busy(table, dos)' = Busy(table, dos)
    BY <2>1 DEF Busy
  <2> QED BY <1>1, <2>2, BusyCounted DEF Effect, InFlight
<1>5. \A p \in Requests : at'[p] = at[p] \/ (Apart(at[p], table) /\ Apart(at'[p], table))
  BY <1>1, <1>3 DEF Effect
<1>6. (table \in DOMAIN db => db'[table] = db[table]) /\ SameKeys /\ stale \subseteq stale' /\ cut' \in Nat /\ cut' >= cut
  BY <1>1 DEF Effect, Within, InFlight
<1> QED BY <1>4, <1>5, <1>6 DEF Calm

LEMMA QuietCalm ==
  ASSUME InFlight, NEW table, Quiet(table)
  PROVE  Calm(table)
<1>1. CASE at' = at /\ cut' = cut
  <2>1. \A dos : Busy(table, dos)' = Busy(table, dos)
    BY <1>1 DEF Busy
  <2>2. cut' \in Nat /\ cut' >= cut
    BY <1>1 DEF InFlight
  <2>3. \A dos \in SUBSET Midway : cut + Cardinality(Busy(table, dos)) <= cut' + Cardinality(Busy(table, dos)')
    BY <1>1, <2>1, BusyCounted DEF InFlight
  <2> QED BY <1>1, <2>2, <2>3 DEF Quiet, Calm
<1>2. CASE Restart
  <2>1. /\ cut' \in Nat /\ cut' >= cut
        /\ \A p \in Requests : at'[p] = Idle
    BY <1>2, RestartCuts, UnfinishedCounted DEF InFlight
  <2>2. \A p \in Requests : at[p].do \in {"start", "write", "audit"} \/ cut' > 0
    BY <1>2, RestartCuts, UnfinishedCounted DEF InFlight, Flight, Idle, Owing
  <2>3. ASSUME NEW dos \in SUBSET Midway
        PROVE  cut + Cardinality(Busy(table, dos)) <= cut' + Cardinality(Busy(table, dos)')
    <3>1. Busy(table, dos) \subseteq Unfinished
      BY DEF Busy, Unfinished, Midway, Owing
    <3>2. Cardinality(Busy(table, dos)) <= Cardinality(Unfinished)
      BY <3>1, UnfinishedCounted, FS_Subset
    <3> QED BY <1>2, <3>2, RestartCuts, UnfinishedCounted, BusyCounted DEF InFlight
  <2> QED BY <2>1, <2>2, <2>3 DEF Quiet, Calm
<1>3. CASE \E q \in Requests : Audit(q)
  <2>1. PICK q \in Requests : Audit(q)
    BY <1>3
  <2>2. Effect(q, at[q].op) /\ at'[q] = Idle /\ at[q].do = "audit"
    BY <2>1, AuditDoes
  <2>3. ASSUME NEW dos \in SUBSET Midway
        PROVE  cut + Cardinality(Busy(table, dos)) <= cut' + Cardinality(Busy(table, dos)')
    <3>1. \A p \in Requests : at'[p] = at[p] \/ (at'[p] = Idle /\ at[p].do \notin dos)
      BY <2>2 DEF Effect, Midway, Owing
    <3>2. Busy(table, dos)' = Busy(table, dos)
      BY <3>1 DEF Busy
    <3> QED BY <2>2, <3>2, BusyCounted DEF Effect, InFlight
  <2>4. \A p \in Requests : at'[p] = at[p] \/ (at'[p] = Idle /\ at[p].do = "audit")
    BY <2>2 DEF Effect
  <2>5. cut' \in Nat /\ cut' >= cut
    BY <2>2 DEF Effect, InFlight
  <2> QED BY <2>3, <2>4, <2>5 DEF Quiet, Calm
<1> QED BY <1>1, <1>2, <1>3 DEF Quiet

\* A step is one of the handlers of a table, or leaves it alone.
LEMMA OutsideCalm ==
  ASSUME InFlight, NEW table,
         \/ Ride /\ table # "bike"
         \/ ClosePeriod /\ table # "period"
         \/ Restart
         \/ \E q \in Requests : Audit(q)
         \/ UNCHANGED recordVars
  PROVE  Calm(table)
BY OutsideDoes, QuietCalm

LEMMA StepsOfTables ==
  ASSUME InFlight, [RecordsNext]_recordVars
  PROVE  /\ Calm("incident") \/ (\E q \in Requests : CreateIncident(q) \/ AcknowledgeIncident(q) \/ UpdateIncidentDetails(q) \/ ResolveIncident(q))
         /\ Calm("checkin") \/ (\E q \in Requests : RequestCheckin(q) \/ DecideCheckin(q))
         /\ Calm("ramp") \/ (\E q \in Requests : CreateRampProfile(q))
         /\ Calm("document") \/ (\E q \in Requests : CreateDocument(q) \/ DeleteDocument(q))
         /\ Calm("bike") \/ (\E q \in Requests : ControlBattery(q)) \/ Ride
         /\ Calm("report") \/ (\E q \in Requests : GenerateDailyReport(q) \/ DeleteDailyReport(q))
         /\ Calm("policy") \/ (\E q \in Requests : CreateRevenuePaceProfile(q) \/ CreateEfficiencyPolicy(q))
         /\ Calm("cohort") \/ (\E q \in Requests : FindOrCreateCohort(q))
         /\ Calm("fuel") \/ (\E q \in Requests : CreateFuelIssue(q) \/ UpdateFuelIssue(q))
         /\ Calm("daily") \/ (\E q \in Requests : IngestDailyRecords(q))
         /\ Calm("runs") \/ (\E q \in Requests : IngestDailyRecords(q))
         /\ Calm("inspection") \/ (\E q \in Requests : CreateInspection(q) \/ ReviewInspection(q))
         /\ Calm("trainee") \/ (\E q \in Requests : CreateSupervisorOnboarding(q) \/ AdvanceSupervisorPhase(q) \/ GraduateSupervisor(q))
         /\ Calm("period") \/ (\E q \in Requests : CreateCashAdjustment(q)) \/ ClosePeriod
         /\ Calm("distance") \/ (\E q \in Requests : UpsertRecord(q) \/ BackfillMissing(q))
         /\ Calm("images") \/ (\E q \in Requests : IngestDailyRecords(q))
         /\ Calm("repair") \/ (\E q \in Requests : CreateMaintenanceReport(q) \/ UpdateMaintenanceStatus(q))
<1>1. Calm("incident") \/ (\E q \in Requests : CreateIncident(q) \/ AcknowledgeIncident(q) \/ UpdateIncidentDetails(q) \/ ResolveIncident(q))
  BY EveryHandler, HomeIs, ElsewhereCalm, OutsideCalm DEF RecordsNext, FieldWorkNext, BooksNext, Elsewhere, Reach
<1>2. Calm("checkin") \/ (\E q \in Requests : RequestCheckin(q) \/ DecideCheckin(q))
  BY EveryHandler, HomeIs, ElsewhereCalm, OutsideCalm DEF RecordsNext, FieldWorkNext, BooksNext, Elsewhere, Reach
<1>3. Calm("ramp") \/ (\E q \in Requests : CreateRampProfile(q))
  BY EveryHandler, HomeIs, ElsewhereCalm, OutsideCalm DEF RecordsNext, FieldWorkNext, BooksNext, Elsewhere, Reach
<1>4. Calm("document") \/ (\E q \in Requests : CreateDocument(q) \/ DeleteDocument(q))
  BY EveryHandler, HomeIs, ElsewhereCalm, OutsideCalm DEF RecordsNext, FieldWorkNext, BooksNext, Elsewhere, Reach
<1>5. Calm("bike") \/ (\E q \in Requests : ControlBattery(q)) \/ Ride
  BY EveryHandler, HomeIs, ElsewhereCalm, OutsideCalm DEF RecordsNext, FieldWorkNext, BooksNext, Elsewhere, Reach
<1>6. Calm("report") \/ (\E q \in Requests : GenerateDailyReport(q) \/ DeleteDailyReport(q))
  BY EveryHandler, HomeIs, ElsewhereCalm, OutsideCalm DEF RecordsNext, FieldWorkNext, BooksNext, Elsewhere, Reach
<1>7. Calm("policy") \/ (\E q \in Requests : CreateRevenuePaceProfile(q) \/ CreateEfficiencyPolicy(q))
  BY EveryHandler, HomeIs, ElsewhereCalm, OutsideCalm DEF RecordsNext, FieldWorkNext, BooksNext, Elsewhere, Reach
<1>8. Calm("cohort") \/ (\E q \in Requests : FindOrCreateCohort(q))
  BY EveryHandler, HomeIs, ElsewhereCalm, OutsideCalm DEF RecordsNext, FieldWorkNext, BooksNext, Elsewhere, Reach
<1>9. Calm("fuel") \/ (\E q \in Requests : CreateFuelIssue(q) \/ UpdateFuelIssue(q))
  BY EveryHandler, HomeIs, ElsewhereCalm, OutsideCalm DEF RecordsNext, FieldWorkNext, BooksNext, Elsewhere, Reach
<1>10. Calm("daily") \/ (\E q \in Requests : IngestDailyRecords(q))
  BY EveryHandler, HomeIs, ElsewhereCalm, OutsideCalm DEF RecordsNext, FieldWorkNext, BooksNext, Elsewhere, Reach
<1>11. Calm("runs") \/ (\E q \in Requests : IngestDailyRecords(q))
  BY EveryHandler, HomeIs, ElsewhereCalm, OutsideCalm DEF RecordsNext, FieldWorkNext, BooksNext, Elsewhere, Reach
<1>12. Calm("inspection") \/ (\E q \in Requests : CreateInspection(q) \/ ReviewInspection(q))
  BY EveryHandler, HomeIs, ElsewhereCalm, OutsideCalm DEF RecordsNext, FieldWorkNext, BooksNext, Elsewhere, Reach
<1>13. Calm("trainee") \/ (\E q \in Requests : CreateSupervisorOnboarding(q) \/ AdvanceSupervisorPhase(q) \/ GraduateSupervisor(q))
  BY EveryHandler, HomeIs, ElsewhereCalm, OutsideCalm DEF RecordsNext, FieldWorkNext, BooksNext, Elsewhere, Reach
<1>14. Calm("period") \/ (\E q \in Requests : CreateCashAdjustment(q)) \/ ClosePeriod
  BY EveryHandler, HomeIs, ElsewhereCalm, OutsideCalm DEF RecordsNext, FieldWorkNext, BooksNext, Elsewhere, Reach
<1>15. Calm("distance") \/ (\E q \in Requests : UpsertRecord(q) \/ BackfillMissing(q))
  BY EveryHandler, HomeIs, ElsewhereCalm, OutsideCalm DEF RecordsNext, FieldWorkNext, BooksNext, Elsewhere, Reach
<1>16. Calm("images") \/ (\E q \in Requests : IngestDailyRecords(q))
  BY EveryHandler, HomeIs, ElsewhereCalm, OutsideCalm DEF RecordsNext, FieldWorkNext, BooksNext, Elsewhere, Reach
<1>17. Calm("repair") \/ (\E q \in Requests : CreateMaintenanceReport(q) \/ UpdateMaintenanceStatus(q))
  BY EveryHandler, HomeIs, ElsewhereCalm, OutsideCalm DEF RecordsNext, FieldWorkNext, BooksNext, Elsewhere, Reach
<1> QED BY <1>1, <1>2, <1>3, <1>4, <1>5, <1>6, <1>7, <1>8, <1>9, <1>10, <1>11, <1>12, <1>13, <1>14, <1>15, <1>16,
           <1>17

-----------------------------------------------------------------------------
(* Statements, on the tables and on the request.                            *)

\* The others stay where they are.
Alone(q) == DOMAIN at' = Requests /\ \A p \in Requests \ {q} : at'[p] = at[p]

LEMMA BeginIs ==
  ASSUME InFlight, NEW q \in Requests, NEW op, NEW table, NEW key, NEW body, Begin(q, op, table, key, body)
  PROVE  /\ Alone(q) /\ db' = db /\ stale' = stale /\ cut' = cut /\ cut' \in Nat /\ at[q] = Idle
         /\ at'[q].op = op /\ at'[q].do = "write" /\ at'[q].table = table /\ at'[q].key = key /\ at'[q].body = body
         /\ at'[q].row = db[table][key]
<1>1. at'[q] = [op |-> op, do |-> "write", table |-> table, key |-> key, body |-> body, row |-> db[table][key]]
  BY DEF Begin, Enter, InFlight
<1> QED BY <1>1 DEF Begin, Enter, Alone, InFlight

\* The request goes on with do, the same otherwise.
Onward(q, do) ==
  /\ Alone(q) /\ at'[q] # Idle /\ at'[q].do = do
  /\ at'[q].op = at[q].op /\ at'[q].table = at[q].table /\ at'[q].key = at[q].key
  /\ at'[q].body = at[q].body /\ at'[q].row = at[q].row

LEMMA GotoIs ==
  ASSUME InFlight, NEW q \in Requests, at[q].op \in DOMAIN Home, NEW do \in {"end", "overwrite", "flag"} \cup Owing, Goto(q, do)
  PROVE  /\ do # "end" => Onward(q, do)
         /\ do = "end" => Alone(q) /\ at'[q] = Idle
BY GotoDoes DEF Onward, Alone

LEMMA WriteIs ==
  ASSUME InFlight, NEW q \in Requests, at[q].op \in DOMAIN Home, NEW row, NEW do \in Owing, Write(q, row, do)
  PROVE  /\ Onward(q, do) /\ cut' = cut /\ cut' \in Nat
         /\ db' = [db EXCEPT ![at[q].table][at[q].key] = row]
<1>1. Goto(q, do) /\ do # "end"
  BY DEF Write, Owing
<1> QED BY <1>1, GotoIs DEF Write, InFlight

LEMMA PutIs ==
  ASSUME InFlight, NEW q \in Requests, at[q].op \in DOMAIN Home, NEW row, NEW do \in Owing, Put(q, row, do)
  PROVE  /\ Onward(q, do) /\ cut' = cut /\ cut' \in Nat /\ stale' = stale
         /\ db' = [db EXCEPT ![at[q].table][at[q].key] = row]
BY WriteIs DEF Put

LEMMA StoreIs ==
  ASSUME InFlight, NEW q \in Requests, at[q].op \in DOMAIN Home, NEW row, NEW do \in Owing, Store(q, row, do)
  PROVE  /\ Onward(q, do) /\ cut' = cut /\ cut' \in Nat
         /\ stale' = IF Unseen(q) THEN stale \cup {<<at[q].table, at[q].key>>} ELSE stale
         /\ db' = [db EXCEPT ![at[q].table][at[q].key] = row]
BY WriteIs DEF Store

LEMMA PassIs ==
  ASSUME InFlight, NEW q \in Requests, at[q].op \in DOMAIN Home, NEW tables,
         NEW do \in {"end", "overwrite", "flag"} \cup Owing, Pass(q, tables, do)
  PROVE  /\ db' = tables /\ stale' = stale /\ cut' = cut /\ cut' \in Nat
         /\ do # "end" => Onward(q, do)
         /\ do = "end" => Alone(q) /\ at'[q] = Idle
BY GotoIs DEF Pass, InFlight

LEMMA ThrowIs ==
  ASSUME InFlight, NEW q \in Requests, at[q].op \in DOMAIN Home, Throw(q)
  PROVE  db' = db /\ stale' = stale /\ cut' = cut /\ cut' \in Nat /\ Alone(q) /\ at'[q] = Idle
BY PassIs DEF Throw

LEMMA TellIs ==
  ASSUME InFlight, NEW q \in Requests, at[q].op \in DOMAIN Home, NEW do \in {"end", "flag"}, Tell(q, do)
  PROVE  /\ db' = db /\ stale' = stale /\ cut' = cut /\ cut' \in Nat
         /\ do # "end" => Onward(q, do)
         /\ do = "end" => Alone(q) /\ at'[q] = Idle
<1>1. Goto(q, do)
  BY DEF Tell
<1> QED BY <1>1, GotoIs DEF Tell, InFlight

-----------------------------------------------------------------------------
(* Check-ins.                                                               *)

\* The tables that are looked at, and their keys.
Places ==
  /\ {"incident", "checkin", "ramp", "document", "bike", "runs", "daily", "images", "report", "policy", "cohort", "fuel",
      "inspection", "repair", "trainee", "period", "distance"} \subseteq DOMAIN db
  /\ DOMAIN db.incident = {"i1"} /\ DOMAIN db.inspection = {"n1"} /\ DOMAIN db.repair = {"m1"} /\ DOMAIN db.checkin = {"today"}
  /\ DOMAIN db.trainee = {"s1"} /\ DOMAIN db.ramp = {"rider"} /\ DOMAIN db.document = {"d1"}
  /\ DOMAIN db.bike = {"v1"} /\ DOMAIN db.distance = {"v1"}
  /\ DOMAIN db.daily = {"day"} /\ DOMAIN db.images = {"day"} /\ DOMAIN db.runs = {"running"} /\ DOMAIN db.period = {"day"}
  /\ DOMAIN db.report = {"company", "amoeba"} /\ DOMAIN db.policy = {"pace", "efficiency"}
  /\ DOMAIN db.cohort = {"week"} /\ DOMAIN db.fuel = {"f1"}

LEMMA PlacesKept ==
  ASSUME InFlight, Places, [RecordsNext]_recordVars
  PROVE  Places'
<1>1. SameKeys
  <2>1. CASE \E q \in Requests, op \in DOMAIN Home : Effect(q, op)
    BY <2>1 DEF Effect, Within
  <2>2. CASE Ride \/ ClosePeriod
    BY <2>2, OutsideDoes DEF Quiet
  <2>3. CASE Restart \/ (\E q \in Requests : Audit(q)) \/ UNCHANGED recordVars
    BY <2>3, OutsideDoes DEF Quiet
  <2> QED BY <2>1, <2>2, <2>3, EveryHandler, HomeIs DEF RecordsNext, FieldWorkNext, BooksNext
<1> QED BY <1>1 DEF Places, SameKeys

CheckinRow(r) == r = Absent \/ DOMAIN r = {"status", "fence", "asked", "judged"}

\* A decision has looked at a request of the day, and decides it.
Deciding(q) ==
  at[q].op = "decide" =>
    /\ at[q].key \in {"today"} /\ at[q].table = "checkin"
    /\ at[q].body.decision # "absent"
    /\ CheckinRow(at[q].row) /\ Live(at[q].row) /\ Live(db.checkin["today"])

CheckinsHold ==
  /\ CheckinRow(db.checkin["today"]) /\ ApprovedAsSeen
  /\ \A q \in Requests : Deciding(q)
  /\ \A q \in Requests : at[q].op = "checkin" => at[q].table = "checkin" /\ at[q].key = "today"

LEMMA CheckinsKept ==
  ASSUME InFlight, Places, CheckinsHold, [RecordsNext]_recordVars
  PROVE  CheckinsHold'
<1>0. InFlight' /\ Places' /\ "checkin" \in DOMAIN Home /\ "decide" \in DOMAIN Home
  BY InFlightKept, PlacesKept, HomeIs
<1>1. CASE Calm("checkin")
  <2>1. db'.checkin = db.checkin /\ stale \subseteq stale'
    BY <1>1 DEF Calm, Places
  <2>2. \A p \in Requests : at'[p].op \in {"checkin", "decide"} => at'[p] = at[p]
    BY <1>1, HomeIs DEF Calm, Apart, Idle
  <2> QED BY <2>1, <2>2 DEF CheckinsHold, ApprovedAsSeen, Lost, Deciding
<1>2. ASSUME NEW q \in Requests, RequestCheckin(q) PROVE CheckinsHold'
  <2>1. ASSUME NEW key \in DOMAIN db.checkin, NEW body, Begin(q, "checkin", "checkin", key, body)
        PROVE  CheckinsHold'
    <3>1. Alone(q) /\ db' = db /\ stale' = stale /\ at'[q].op = "checkin" /\ at'[q].table = "checkin" /\ at'[q].key = key
      BY <2>1, BeginIs
    <3> QED BY <3>1, <2>1 DEF CheckinsHold, Deciding, Alone, ApprovedAsSeen, Lost, Places
  <2>2. ASSUME Doing(q, "checkin", "write"), NEW row,
               row = IF db.checkin["today"].status = "approved" THEN db.checkin["today"]
                     ELSE [status |-> "pending", fence |-> at[q].body.fence,
                           asked |-> IF Live(db.checkin["today"]) THEN 3 - db.checkin["today"].asked ELSE 1, judged |-> 0],
               Put(q, row, "audit")
        PROVE  CheckinsHold'
    <3>1. at[q].table = "checkin" /\ at[q].key = "today" /\ at[q].op = "checkin"
      BY <2>2 DEF Doing, CheckinsHold
    <3>2. /\ Onward(q, "audit") /\ stale' = stale
          /\ db' = [db EXCEPT !["checkin"]["today"] = row]
      BY <2>2, <3>1, <1>0, PutIs, ZenonT(60) DEF Owing
    <3>3. db'.checkin["today"] = row /\ DOMAIN db'.checkin = {"today"}
      BY <3>2 DEF Places
    <3>4. CheckinRow(row) /\ row.status # "absent"
      BY <2>2 DEF CheckinRow, CheckinsHold
    <3>5. row.status = "approved" => row = db.checkin["today"]
      BY <2>2
    <3> QED BY <3>1, <3>2, <3>3, <3>4, <3>5 DEF CheckinsHold, Deciding, Onward, Alone, ApprovedAsSeen, Lost,
               Places, Live
  <2> QED BY <1>2, <2>1, <2>2 DEF RequestCheckin, Upsert, Current, CheckinsHold, Doing
<1>3. ASSUME NEW q \in Requests, DecideCheckin(q) PROVE CheckinsHold'
  <2>1. ASSUME NEW key \in DOMAIN db.checkin, NEW body \in [decision : {"approved", "rejected"}],
               Existing(db.checkin[key], body), Begin(q, "decide", "checkin", key, body)
        PROVE  CheckinsHold'
    <3>1. /\ Alone(q) /\ db' = db /\ stale' = stale /\ at'[q].op = "decide" /\ at'[q].table = "checkin" /\ at'[q].key = key
          /\ at'[q].body = body /\ at'[q].row = db.checkin[key]
      BY <2>1, BeginIs
    <3> QED BY <3>1, <2>1 DEF CheckinsHold, Deciding, Alone, ApprovedAsSeen, Lost, Places, Existing
  <2>2. ASSUME Doing(q, "decide", "write"),
               Store(q, [Current(q) EXCEPT !.status = at[q].body.decision, !.judged = Read(q).asked], "audit")
        PROVE  CheckinsHold'
    <3> DEFINE was == db.checkin["today"]
    <3> DEFINE row == [was EXCEPT !.status = at[q].body.decision, !.judged = at[q].row.asked]
    <3>1. at[q].table = "checkin" /\ at[q].key = "today" /\ at[q].op = "decide"
      BY <2>2 DEF Doing, CheckinsHold, Deciding
    <3>2. Current(q) = was /\ Read(q) = at[q].row
      BY <3>1 DEF Current, Read
    <3>3. /\ Onward(q, "audit")
          /\ stale' = IF was # at[q].row THEN stale \cup {<<"checkin", "today">>} ELSE stale
          /\ db' = [db EXCEPT !["checkin"]["today"] = row]
      BY <2>2, <3>1, <3>2, <1>0, StoreIs, ZenonT(60) DEF Owing, Unseen
    <3>4. db'.checkin["today"] = row /\ DOMAIN db'.checkin = {"today"}
      BY <3>3 DEF Places
    <3>5. Live(was) /\ DOMAIN was = {"status", "fence", "asked", "judged"} /\ at[q].body.decision # "absent"
      BY <3>1 DEF CheckinsHold, CheckinRow, Deciding, Live, Absent
    <3>6. DOMAIN row = {"status", "fence", "asked", "judged"} /\ row.status # "absent"
          /\ row.judged = at[q].row.asked /\ row.asked = was.asked
      BY <3>5
    <3> HIDE DEF row
    <3> QED BY <3>1, <3>3, <3>4, <3>6 DEF CheckinsHold, CheckinRow, Deciding, Onward, Alone, ApprovedAsSeen, Lost,
               Places, Live
  <2> QED BY <1>3, <2>1, <2>2 DEF DecideCheckin, Handler
<1> QED BY <1>1, <1>2, <1>3, StepsOfTables

-----------------------------------------------------------------------------
(* What is looked up as one.                                                *)

VersionRow(r) == "versions" \in DOMAIN r /\ r.versions \in Nat

VersionsHold(table) ==
  /\ \A k \in DOMAIN db[table] : VersionRow(db[table][k]) /\ (db[table][k].versions <= 1 \/ Lost(table, k))
  /\ \A q \in Requests : (at[q] # Idle /\ at[q].table = table) =>
       at[q].key \in DOMAIN db[table] /\ VersionRow(at[q].row)

\* Who has nothing to do with a table before has not after.
LEMMA CalmRequests ==
  ASSUME InFlight', NEW table, Calm(table), NEW p \in Requests, at'[p] # Idle, at'[p].table = table
  PROVE  at'[p] = at[p]
BY DEF Calm, Apart, InFlight, Flight

LEMMA CalmVersions ==
  ASSUME InFlight', NEW table \in DOMAIN db, VersionsHold(table), Calm(table)
  PROVE  VersionsHold(table)'
<1>1. db'[table] = db[table] /\ stale \subseteq stale'
  BY DEF Calm
<1> QED BY <1>1, CalmRequests DEF VersionsHold, Lost

LEMMA VersionStep ==
  ASSUME InFlight, NEW q \in Requests, NEW op \in DOMAIN Home, NEW table \in DOMAIN db, table = Home[op],
         NEW key \in DOMAIN db[table], VersionsHold(table), Version(q, op, table, key)
  PROVE  VersionsHold(table)'
<1>1. CASE Begin(q, op, table, key, <<>>)
  <2>1. Alone(q) /\ db' = db /\ stale' = stale /\ at'[q].key = key /\ at'[q].row = db[table][key]
    BY <1>1, BeginIs
  <2> QED BY <2>1 DEF VersionsHold, Alone, Lost
<1>2. ASSUME Doing(q, op, "write"),
             Store(q, [Current(q) EXCEPT !.versions = IF Read(q).versions = 0 THEN @ + 1 ELSE @], "audit")
      PROVE  VersionsHold(table)'
  <2> DEFINE k == at[q].key
             was == db[table][k]
             row == [was EXCEPT !.versions = IF at[q].row.versions = 0 THEN @ + 1 ELSE @]
  <2>1. at[q].op = op /\ at[q].do = "write" /\ at[q] # Idle
    BY <1>2 DEF Doing, Idle
  <2>2. at[q].table = table
    BY <2>1 DEF InFlight, Flight
  <2>3. k \in DOMAIN db[table] /\ VersionRow(at[q].row) /\ VersionRow(was)
    BY <2>1, <2>2 DEF VersionsHold
  <2>4. Current(q) = was /\ Read(q) = at[q].row
    BY <2>2 DEF Current, Read
  <2>5. /\ Onward(q, "audit")
        /\ stale' = IF was # at[q].row THEN stale \cup {<<table, k>>} ELSE stale
        /\ db' = [db EXCEPT ![table][k] = row]
    <3>1. Store(q, row, "audit")
      BY <1>2, <2>4
    <3> HIDE DEF row
    <3> QED BY <2>1, <2>2, <2>4, <3>1, StoreIs, ZenonT(60) DEF Owing, Unseen
  <2>6. VersionRow(row) /\ (row.versions <= 1 \/ Lost(table, k) \/ was # at[q].row)
    BY <2>3 DEF VersionRow, VersionsHold
  <2>7. /\ DOMAIN db'[table] = DOMAIN db[table] /\ db'[table][k] = row
        /\ \A j \in DOMAIN db[table] \ {k} : db'[table][j] = db[table][j]
    BY <2>3, <2>5
  <2>8. \A j \in DOMAIN db'[table] : VersionRow(db'[table][j]) /\ (db'[table][j].versions <= 1 \/ Lost(table, j)')
    <3> HIDE DEF row
    <3> QED BY <2>5, <2>6, <2>7 DEF VersionsHold, Lost
  <2>9. \A p \in Requests : (at'[p] # Idle /\ at'[p].table = table) =>
          at'[p].key \in DOMAIN db'[table] /\ VersionRow(at'[p].row)
    BY <2>1, <2>2, <2>3, <2>5, <2>7 DEF Onward, Alone, VersionsHold
  <2> QED BY <2>8, <2>9 DEF VersionsHold
<1> QED BY <1>1, <1>2 DEF Version

LEMMA VersionsKept ==
  ASSUME InFlight, Places, VersionsHold("policy"), VersionsHold("cohort"), [RecordsNext]_recordVars
  PROVE  VersionsHold("policy")' /\ VersionsHold("cohort")'
<1>0. InFlight' /\ "policy" \in DOMAIN db /\ "cohort" \in DOMAIN db
      /\ {"pace", "efficiency", "cohort"} \subseteq DOMAIN Home /\ Home["cohort"] = "cohort"
      /\ Home["pace"] = "policy" /\ Home["efficiency"] = "policy"
      /\ {"pace", "efficiency"} \subseteq DOMAIN db["policy"] /\ "week" \in DOMAIN db["cohort"]
  BY InFlightKept, HomeIs DEF Places
<1>1. VersionsHold("policy")'
  <2>1. ASSUME NEW q \in Requests, CreateRevenuePaceProfile(q) \/ CreateEfficiencyPolicy(q) PROVE VersionsHold("policy")'
    BY <2>1, <1>0, VersionStep DEF CreateRevenuePaceProfile, CreateEfficiencyPolicy
  <2> QED BY <1>0, <2>1, CalmVersions, StepsOfTables
<1>2. VersionsHold("cohort")'
  <2>1. ASSUME NEW q \in Requests, FindOrCreateCohort(q) PROVE VersionsHold("cohort")'
    BY <2>1, <1>0, VersionStep DEF FindOrCreateCohort
  <2> QED BY <1>0, <2>1, CalmVersions, StepsOfTables
<1> QED BY <1>1, <1>2

ReportRow(r) == "of" \in DOMAIN r /\ r.of \in [1..LastRevision -> Nat]

ReportsHold ==
  /\ \A a \in DOMAIN db.report :
       ReportRow(db.report[a]) /\ \A r \in 1..LastRevision : db.report[a].of[r] <= 1 \/ Lost("report", a)
  /\ \A q \in Requests : (at[q] # Idle /\ at[q].table = "report") =>
       at[q].key \in DOMAIN db.report /\ ReportRow(at[q].row)

LEMMA MaxIs ==
  ASSUME NEW S \in SUBSET Nat, S # {}, NEW bound \in Nat, \A x \in S : x <= bound
  PROVE  Max(S) \in S /\ \A y \in S : y <= Max(S)
<1> DEFINE B == {m \in Nat : \A x \in S : x <= m}
<1>1. PICK n \in B : \A m \in B : n <= m
  <2>1. B # {} /\ B \subseteq Nat
    OBVIOUS
  <2> HIDE DEF B
  <2> QED BY <2>1, Least
<1>2. n \in S
  <2> SUFFICES ASSUME n \notin S PROVE FALSE
    OBVIOUS
  <2>1. \A x \in S : x \in Nat /\ x <= n /\ x # n
    BY <1>1
  <2>2. PICK x : x \in S
    OBVIOUS
  <2>3. n - 1 \in Nat /\ \A y \in S : y <= n - 1
    BY <2>1, <2>2
  <2>4. n - 1 \in B
    BY <2>3
  <2> QED BY <1>1, <2>3, <2>4
<1>3. \E x \in S : \A y \in S : x >= y
  BY <1>1, <1>2
<1>4. Max(S) \in S /\ \A y \in S : Max(S) >= y
  BY <1>3 DEF Max
<1> QED BY <1>4

\* The next revision is none of those that are there.
LEMMA NextRevisionIsNew ==
  ASSUME NEW row, ReportRow(row)
  PROVE  /\ NextRevision(row) \in Nat
         /\ NextRevision(row) \in 1..LastRevision => row.of[NextRevision(row)] = 0
<1>1. Revisions(row) = {r \in 1..LastRevision : row.of[r] > 0} /\ LastRevision \in Nat
  BY BooksAssumption DEF Revisions, ReportRow
<1>2. PICK S : S = Revisions(row) \cup {0}
  OBVIOUS
<1>3. S \in SUBSET Nat /\ S # {} /\ \A x \in S : x <= LastRevision
  BY <1>1, <1>2
<1>4. Max(S) \in S /\ \A y \in S : y <= Max(S)
  BY <1>1, <1>3, MaxIs
<1>5. NextRevision(row) = Max(S) + 1
  BY <1>2 DEF NextRevision
<1>6. NextRevision(row) \in Nat /\ NextRevision(row) \notin S
  <2>1. PICK m \in S : m = Max(S)
    BY <1>4
  <2>2. m \in Nat /\ NextRevision(row) = m + 1 /\ \A y \in S : y \in Nat /\ y <= m
    BY <1>3, <1>4, <1>5, <2>1
  <2> QED BY <2>2
<1>7. \A r \in 1..LastRevision : r \notin S => row.of[r] = 0
  BY <1>1, <1>2 DEF ReportRow
<1> QED BY <1>6, <1>7

LEMMA Counted ==
  ASSUME NEW S, NEW f \in [S -> Nat], NEW g, g = [r \in S |-> g[r]],
         \A r \in S : g[r] \in {f[r], f[r] + 1} \/ (f[r] > 0 /\ g[r] = f[r] - 1)
  PROVE  g \in [S -> Nat]
<1>1. \A r \in S : f[r] \in Nat /\ f[r] + 1 \in Nat /\ (f[r] > 0 => f[r] - 1 \in Nat)
  OBVIOUS
<1>2. \A r \in S : g[r] \in Nat
  BY <1>1
<1> QED BY <1>2

LEMMA OneMore ==
  ASSUME NEW was, ReportRow(was), NEW i, NEW row, row = [was EXCEPT !.of[i] = @ + 1]
  PROVE  /\ ReportRow(row)
         /\ \A r \in 1..LastRevision : row.of[r] = was.of[r] \/ (r = i /\ row.of[r] = was.of[r] + 1)
<1>1. "of" \in DOMAIN row /\ row.of = [was.of EXCEPT ![i] = @ + 1] /\ was.of \in [1..LastRevision -> Nat]
  BY DEF ReportRow
<1>2. row.of = [r \in 1..LastRevision |-> IF r = i THEN was.of[r] + 1 ELSE was.of[r]]
  BY <1>1
<1>3. row.of \in [1..LastRevision -> Nat]
  <2>1. row.of = [r \in 1..LastRevision |-> row.of[r]] /\ \A r \in 1..LastRevision : row.of[r] \in {was.of[r], was.of[r] + 1}
    BY <1>2
  <2> QED BY <1>1, <2>1, Counted, Zenon
<1>4. ReportRow(row)
  BY <1>1, <1>3, Zenon DEF ReportRow
<1>5. \A r \in 1..LastRevision : row.of[r] = was.of[r] \/ (r = i /\ row.of[r] = was.of[r] + 1)
  BY <1>2
<1> QED BY <1>4, <1>5

LEMMA OneLess ==
  ASSUME NEW was, ReportRow(was), NEW i, NEW row, row = [was EXCEPT !.of[i] = IF @ = 0 THEN 0 ELSE @ - 1]
  PROVE  ReportRow(row) /\ \A r \in 1..LastRevision : row.of[r] <= was.of[r]
<1>1. /\ "of" \in DOMAIN row /\ was.of \in [1..LastRevision -> Nat]
      /\ row.of = [was.of EXCEPT ![i] = IF @ = 0 THEN 0 ELSE @ - 1]
  BY DEF ReportRow
<1>2. row.of = [r \in 1..LastRevision |-> IF r = i THEN IF was.of[r] = 0 THEN 0 ELSE was.of[r] - 1 ELSE was.of[r]]
  BY <1>1
<1>3. \A r \in 1..LastRevision : row.of[r] = was.of[r] \/ (was.of[r] > 0 /\ row.of[r] = was.of[r] - 1)
  <2>1. \A r \in 1..LastRevision : was.of[r] \in Nat /\ row.of[r] = IF r = i THEN IF was.of[r] = 0 THEN 0 ELSE was.of[r] - 1 ELSE was.of[r]
    BY <1>1, <1>2
  <2> QED BY <2>1
<1>4. row.of \in [1..LastRevision -> Nat]
  <2>1. row.of = [r \in 1..LastRevision |-> row.of[r]]
    BY <1>2
  <2> QED BY <1>1, <1>3, <2>1, Counted, ZenonT(60)
<1>5. \A r \in 1..LastRevision : row.of[r] <= was.of[r]
  <2>1. \A r \in 1..LastRevision : was.of[r] \in Nat
    BY <1>1
  <2> QED BY <1>3, <2>1
<1> QED BY <1>1, <1>4, <1>5, Zenon DEF ReportRow

LEMMA ReportWritten ==
  ASSUME InFlight, "report" \in DOMAIN db, ReportsHold, NEW q \in Requests, at[q] # Idle, at[q].table = "report",
         NEW row, ReportRow(row),
         \A r \in 1..LastRevision : row.of[r] <= db.report[at[q].key].of[r] \/ row.of[r] <= 1 \/ Unseen(q),
         Store(q, row, "audit")
  PROVE  ReportsHold'
<1> DEFINE k == at[q].key
<1>1. at[q].op \in DOMAIN Home /\ k \in DOMAIN db.report
  BY DEF InFlight, Flight, ReportsHold
<1>2. /\ Onward(q, "audit")
      /\ stale' = IF Unseen(q) THEN stale \cup {<<"report", k>>} ELSE stale
      /\ db' = [db EXCEPT !["report"][k] = row]
  BY <1>1, StoreIs DEF Owing
<1>3. /\ DOMAIN db'.report = DOMAIN db.report /\ db'.report[k] = row
      /\ \A j \in DOMAIN db.report \ {k} : db'.report[j] = db.report[j]
  BY <1>1, <1>2
<1>4. ASSUME NEW r \in 1..LastRevision PROVE row.of[r] <= 1 \/ <<"report", k>> \in stale'
  <2>1. row.of[r] \in Nat /\ db.report[k].of[r] \in Nat
    BY <1>1 DEF ReportsHold, ReportRow
  <2>2. db.report[k].of[r] <= 1 \/ Lost("report", k)
    BY <1>1 DEF ReportsHold
  <2>3. Unseen(q) \/ Lost("report", k) => <<"report", k>> \in stale'
    BY <1>2 DEF Lost
  <2> QED BY <2>1, <2>2, <2>3
<1>5. \A a \in DOMAIN db'.report :
        ReportRow(db'.report[a]) /\ \A r \in 1..LastRevision : db'.report[a].of[r] <= 1 \/ Lost("report", a)'
  <2>1. ReportRow(db'.report[k]) /\ \A r \in 1..LastRevision : db'.report[k].of[r] <= 1 \/ <<"report", k>> \in stale'
    BY <1>2, <1>3, <1>4 DEF Lost
  <2>2. ASSUME NEW a \in DOMAIN db.report \ {k}
        PROVE  ReportRow(db'.report[a]) /\ \A r \in 1..LastRevision : db'.report[a].of[r] <= 1 \/ Lost("report", a)'
    BY <1>2, <1>3 DEF ReportsHold, Lost
  <2> QED BY <1>1, <1>3, <2>1, <2>2 DEF Lost
<1>6. \A p \in Requests : (at'[p] # Idle /\ at'[p].table = "report") =>
        at'[p].key \in DOMAIN db'.report /\ ReportRow(at'[p].row)
  BY <1>1, <1>2, <1>3 DEF Onward, Alone, ReportsHold
<1> QED BY <1>5, <1>6 DEF ReportsHold

LEMMA ReportsKept ==
  ASSUME InFlight, Places, ReportsHold, [RecordsNext]_recordVars
  PROVE  ReportsHold'
<1>0. /\ InFlight' /\ "report" \in DOMAIN db /\ {"generate", "ungenerate"} \subseteq DOMAIN Home
      /\ Home["generate"] = "report" /\ Home["ungenerate"] = "report"
  BY InFlightKept, HomeIs DEF Places
<1>1. CASE Calm("report")
  <2>1. db'.report = db.report /\ stale \subseteq stale'
    BY <1>0, <1>1 DEF Calm
  <2> QED BY <1>0, <1>1, <2>1, CalmRequests DEF ReportsHold, Lost
<1>2. ASSUME NEW q \in Requests, NEW op, NEW a \in DOMAIN db.report, NEW body, Begin(q, op, "report", a, body)
      PROVE  ReportsHold'
  <2>1. Alone(q) /\ db' = db /\ stale' = stale /\ at'[q].key = a /\ at'[q].row = db.report[a]
    BY <1>2, BeginIs
  <2> QED BY <2>1 DEF ReportsHold, Alone, Lost
<1>3. ASSUME NEW q \in Requests, NEW op \in {"generate", "ungenerate"}, Doing(q, op, "write")
      PROVE  /\ at[q] # Idle /\ at[q].table = "report" /\ at[q].op \in DOMAIN Home
             /\ at[q].key \in DOMAIN db.report /\ ReportRow(at[q].row) /\ ReportRow(db.report[at[q].key])
             /\ Current(q) = db.report[at[q].key] /\ Read(q) = at[q].row
  <2>1. at[q] # Idle /\ at[q].table = "report" /\ at[q].op \in DOMAIN Home
    BY <1>0, <1>3 DEF Doing, Idle, InFlight, Flight
  <2> QED BY <2>1 DEF ReportsHold, Current, Read
<1>4. ASSUME NEW q \in Requests, Doing(q, "generate", "write"), Throw(q) PROVE ReportsHold'
  <2>1. db' = db /\ stale' = stale /\ Alone(q) /\ at'[q] = Idle
    BY <1>3, <1>4, ThrowIs
  <2> QED BY <2>1 DEF ReportsHold, Alone, Lost
<1>5. ASSUME NEW q \in Requests, Doing(q, "generate", "write"),
             Store(q, [Current(q) EXCEPT !.of[NextRevision(Read(q))] = @ + 1], "audit")
      PROVE  ReportsHold'
  <2>1. PICK was, next, row : /\ was = db.report[at[q].key] /\ next = NextRevision(at[q].row)
                              /\ row = [was EXCEPT !.of[next] = @ + 1]
    OBVIOUS
  <2>2. /\ at[q] # Idle /\ at[q].table = "report" /\ ReportRow(at[q].row) /\ ReportRow(was)
        /\ Current(q) = was /\ Read(q) = at[q].row
    BY <1>3, <1>5, <2>1
  <2>3. next \in Nat /\ (next \in 1..LastRevision => at[q].row.of[next] = 0)
    BY <2>1, <2>2, NextRevisionIsNew
  <2>4. Store(q, row, "audit")
    BY <1>5, <2>1, <2>2
  <2>5. ReportRow(row) /\ \A r \in 1..LastRevision : row.of[r] = was.of[r] \/ (r = next /\ row.of[r] = was.of[r] + 1)
    <3>1. ReportRow(was) /\ row = [was EXCEPT !.of[next] = @ + 1]
      BY <2>1, <2>2
    <3>2. ReportRow(row)
      BY <3>1, OneMore
    <3>3. \A r \in 1..LastRevision : row.of[r] = was.of[r] \/ (r = next /\ row.of[r] = was.of[r] + 1)
      BY <3>1, OneMore
    <3> QED BY <3>2, <3>3
  <2>6. \A r \in 1..LastRevision : row.of[r] <= was.of[r] \/ row.of[r] <= 1 \/ Unseen(q)
    <3>1. Unseen(q) \/ was = at[q].row
      BY <2>2 DEF Unseen
    <3>2. \A r \in 1..LastRevision : was.of[r] \in Nat
      BY <2>2 DEF ReportRow
    <3> QED BY <2>3, <2>5, <3>1, <3>2
  <2> QED BY <1>0, <2>1, <2>2, <2>4, <2>5, <2>6, ReportWritten
<1>6. ASSUME NEW q \in Requests, Doing(q, "ungenerate", "write"),
             Store(q, [Current(q) EXCEPT !.of[at[q].body.revision] = IF @ = 0 THEN 0 ELSE @ - 1], "audit")
      PROVE  ReportsHold'
  <2> DEFINE was == db.report[at[q].key]
             gone == at[q].body.revision
             row == [was EXCEPT !.of[gone] = IF @ = 0 THEN 0 ELSE @ - 1]
  <2>1. at[q] # Idle /\ at[q].table = "report" /\ ReportRow(was) /\ Current(q) = was
    BY <1>3, <1>6
  <2>2. Store(q, row, "audit")
    BY <1>6, <2>1, ZenonT(60)
  <2>3. ReportRow(row) /\ \A r \in 1..LastRevision : row.of[r] <= was.of[r]
    <3> HIDE DEF gone
    <3> QED BY <2>1, OneLess
  <2> HIDE DEF row
  <2> QED BY <1>0, <2>1, <2>2, <2>3, ReportWritten
<1>7. ASSUME NEW q \in Requests, GenerateDailyReport(q) \/ DeleteDailyReport(q) PROVE ReportsHold'
  BY <1>2, <1>4, <1>5, <1>6, <1>7 DEF GenerateDailyReport, DeleteDailyReport
<1> QED BY <1>1, <1>7, StepsOfTables

LEMMA NothingTwiceFollows ==
  ASSUME VersionsHold("policy"), VersionsHold("cohort"), ReportsHold
  PROVE  NothingTwice
BY DEF VersionsHold, ReportsHold, ReportRow, NothingTwice

-----------------------------------------------------------------------------
(* What is half done.                                                       *)

\* One request moves: a set of requests gains it, loses it or stays.
LEMMA OneMoves ==
  ASSUME NEW S \in SUBSET Requests, NEW T \in SUBSET Requests, NEW q \in Requests, S \ {q} = T \ {q}
  PROVE  /\ Cardinality(S) \in Nat /\ Cardinality(T) \in Nat
         /\ (q \in S <=> q \in T) => Cardinality(T) = Cardinality(S)
         /\ q \notin S /\ q \in T => Cardinality(T) = Cardinality(S) + 1
         /\ q \in S /\ q \notin T => Cardinality(T) = Cardinality(S) - 1
<1>1. IsFiniteSet(S) /\ IsFiniteSet(T) /\ Cardinality(S) \in Nat /\ Cardinality(T) \in Nat
  BY HandlersAssumption, FS_Subset, FS_CardinalityType
<1>2. CASE q \in S <=> q \in T
  <2>1. S = T
    BY <1>2
  <2> QED BY <1>1, <1>2, <2>1
<1>3. CASE q \notin S /\ q \in T
  <2>1. T = S \cup {q}
    BY <1>3
  <2> QED BY <1>1, <1>3, <2>1, FS_AddElement
<1>4. CASE q \in S /\ q \notin T
  <2>1. T = S \ {q}
    BY <1>4
  <2> QED BY <1>1, <1>4, <2>1, FS_RemoveElement
<1> QED BY <1>2, <1>3, <1>4

\* Rows the audit trail does not tell of: a request still owes the entry, or did.
OwingRequests == {q \in Requests : at[q].do \in Owing}
UntoldBounded == untold <= cut + Cardinality(OwingRequests)

LEMMA UntoldKept ==
  ASSUME InFlight, UntoldBounded, [RecordsNext]_recordVars
  PROVE  UntoldBounded'
<1>0. IsFiniteSet(OwingRequests) /\ Cardinality(OwingRequests) \in Nat
  BY HandlersAssumption, FS_Subset, FS_CardinalityType DEF OwingRequests
<1>1. ASSUME NEW q \in Requests, NEW op, Effect(q, op) PROVE UntoldBounded'
  <2>1. /\ \A p \in Requests \ {q} : at'[p] = at[p]
        /\ cut' = cut /\ untold' = untold + Due(at'[q].do) - Due(at[q].do)
    BY <1>1 DEF Effect
  <2>2. OwingRequests \ {q} = OwingRequests' \ {q} /\ OwingRequests \in SUBSET Requests /\ OwingRequests' \in SUBSET Requests
    BY <2>1 DEF OwingRequests
  <2>3. /\ q \in OwingRequests <=> at[q].do \in Owing
        /\ q \in OwingRequests' <=> at'[q].do \in Owing
    BY DEF OwingRequests
  <2>4. Cardinality(OwingRequests') = Cardinality(OwingRequests) + Due(at'[q].do) - Due(at[q].do)
    BY <1>0, <2>2, <2>3, OneMoves DEF Due
  <2>5. Due(at'[q].do) \in {0, 1} /\ Due(at[q].do) \in {0, 1}
    BY DEF Due
  <2> QED BY <1>0, <2>1, <2>4, <2>5 DEF UntoldBounded, InFlight
<1>2. CASE Restart
  <2>1. OwingRequests \subseteq Unfinished
    BY DEF OwingRequests, Unfinished, Owing
  <2>2. Cardinality(OwingRequests) <= Cardinality(Unfinished)
    BY <2>1, UnfinishedCounted, FS_Subset
  <2>3. OwingRequests' = {}
    BY <1>2, RestartCuts DEF OwingRequests, Owing, Idle
  <2>4. Cardinality(OwingRequests') = 0
    BY <2>3, FS_EmptySet
  <2>5. untold' = untold /\ cut' = cut + Cardinality(Unfinished)
    BY <1>2, RestartCuts DEF Restart
  <2> QED BY <1>0, <2>2, <2>4, <2>5, UnfinishedCounted DEF UntoldBounded, InFlight
<1>3. CASE Ride \/ ClosePeriod \/ UNCHANGED recordVars
  BY <1>3 DEF Ride, ClosePeriod, recordVars, UntoldBounded, OwingRequests
<1>4. CASE \E q \in Requests : Audit(q)
  BY <1>1, <1>4, AuditDoes
<1>5. CASE \E q \in Requests, op \in DOMAIN Home : Effect(q, op)
  BY <1>1, <1>5
<1> QED BY <1>2, <1>3, <1>4, <1>5, EveryHandler, HomeIs DEF RecordsNext, FieldWorkNext, BooksNext

\* The handlers of a table in flight read a row of it and act on one.
At(table, key) == \A q \in Requests : (at[q] # Idle /\ at[q].table = table) => at[q].key = key

LEMMA CalmAt ==
  ASSUME InFlight', NEW table, NEW key, At(table, key), Calm(table)
  PROVE  At(table, key)'
BY CalmRequests DEF At

LEMMA BusyMoves ==
  ASSUME NEW q \in Requests, Alone(q), NEW table, NEW dos
  PROVE  LET B == Busy(table, dos)
         IN /\ Cardinality(B) \in Nat /\ Cardinality(B') \in Nat
            /\ q \in B <=> (at[q] # Idle /\ at[q].table = table /\ at[q].do \in dos)
            /\ q \in B' <=> (at'[q] # Idle /\ at'[q].table = table /\ at'[q].do \in dos)
            /\ (q \in B <=> q \in B') => Cardinality(B') = Cardinality(B)
            /\ q \notin B /\ q \in B' => Cardinality(B') = Cardinality(B) + 1
            /\ q \in B /\ q \notin B' => Cardinality(B') = Cardinality(B) - 1
<1> DEFINE B == Busy(table, dos)
<1>1. B \in SUBSET Requests /\ B' \in SUBSET Requests /\ B \ {q} = B' \ {q}
  BY DEF Busy, Alone
<1>2. /\ q \in B <=> (at[q] # Idle /\ at[q].table = table /\ at[q].do \in dos)
      /\ q \in B' <=> (at'[q] # Idle /\ at'[q].table = table /\ at'[q].do \in dos)
  BY DEF Busy
<1> QED BY <1>1, <1>2, OneMoves

\* Power commands that no record tells of: a request is about to tell of them.
Recording == {"record"}
CommandsHold ==
  /\ At("bike", "v1")
  /\ {"status", "unrecorded"} \subseteq DOMAIN db.bike["v1"] /\ db.bike["v1"].unrecorded \in Int
  /\ db.bike["v1"].unrecorded <= cut + Cardinality(Busy("bike", Recording))

LEMMA CommandsKept ==
  ASSUME InFlight, Places, CommandsHold, [RecordsNext]_recordVars
  PROVE  CommandsHold'
<1> DEFINE B == Busy("bike", Recording)
<1>0. /\ InFlight' /\ Places' /\ "power" \in DOMAIN Home /\ Home["power"] = "bike" /\ cut \in Nat
      /\ "bike" \in DOMAIN db /\ DOMAIN db.bike = {"v1"}
      /\ Cardinality(B) \in Nat /\ Cardinality(B') \in Nat
  BY InFlightKept, PlacesKept, HomeIs, BusyCounted DEF InFlight, Places
<1>1. CASE Calm("bike")
  <2>1. At("bike", "v1")'
    BY <1>0, <1>1, CalmAt DEF CommandsHold
  <2>2. db'.bike = db.bike /\ cut' \in Nat
    BY <1>0, <1>1 DEF Calm
  <2>3. cut + Cardinality(B) <= cut' + Cardinality(B')
    BY <1>1 DEF Calm, Midway, Owing, Recording
  <2> QED BY <1>0, <2>1, <2>2, <2>3 DEF CommandsHold
<1>2. CASE Ride
  <2>1. PICK v \in DOMAIN db.bike, seen \in {"riding", "still", "old"} : db' = [db EXCEPT !.bike[v].seen = seen]
    BY <1>2 DEF Ride
  <2>2. UNCHANGED <<at, cut>>
    BY <1>2 DEF Ride
  <2>3. /\ db'.bike["v1"].unrecorded = db.bike["v1"].unrecorded
        /\ DOMAIN db'.bike["v1"] = DOMAIN db.bike["v1"]
    BY <1>0, <2>1 DEF CommandsHold
  <2>4. B' = B
    BY <2>2 DEF Busy
  <2> QED BY <2>2, <2>3, <2>4 DEF CommandsHold, At
<1>3. ASSUME NEW q \in Requests, Alone(q), at'[q] = Idle \/ (at'[q].table = "bike" /\ at'[q].key = "v1")
      PROVE  At("bike", "v1")'
  BY <1>3 DEF CommandsHold, At, Alone
<1>4. ASSUME NEW q \in Requests, NEW v \in DOMAIN db.bike, NEW body, Begin(q, "power", "bike", v, body)
      PROVE  CommandsHold'
  <2>1. Alone(q) /\ db' = db /\ cut' = cut /\ at[q] = Idle /\ at'[q].table = "bike" /\ at'[q].key = v /\ at'[q].do = "write"
    BY <1>4, BeginIs
  <2>2. Cardinality(B') = Cardinality(B)
    BY <2>1, BusyMoves DEF Recording
  <2>3. At("bike", "v1")'
    BY <1>0, <1>3, <2>1
  <2> QED BY <2>1, <2>2, <2>3 DEF CommandsHold
<1>5. ASSUME NEW q \in Requests, Doing(q, "power", "write") \/ Doing(q, "power", "record")
      PROVE  at[q] # Idle /\ at[q].op \in DOMAIN Home /\ at[q].table = "bike" /\ at[q].key = "v1"
  <2>1. at[q] # Idle /\ at[q].op \in DOMAIN Home /\ at[q].table = "bike"
    BY <1>0, <1>5 DEF Doing, InFlight, Flight, Idle
  <2> QED BY <2>1 DEF CommandsHold, At
<1>6. ASSUME NEW q \in Requests, Doing(q, "power", "write"), Throw(q) PROVE CommandsHold'
  <2>1. db' = db /\ cut' = cut /\ Alone(q) /\ at'[q] = Idle
    BY <1>5, <1>6, ThrowIs
  <2>2. Cardinality(B') = Cardinality(B)
    BY <1>6, <2>1, BusyMoves DEF Recording, Doing
  <2>3. At("bike", "v1")'
    BY <1>3, <2>1
  <2> QED BY <2>1, <2>2, <2>3 DEF CommandsHold
<1>7. ASSUME NEW q \in Requests, Doing(q, "power", "write"),
             Put(q, [Current(q) EXCEPT !.status = at[q].body.status, !.unrecorded = @ + 1], "record")
      PROVE  CommandsHold'
  <2>1. PICK was, status, row : /\ was = db.bike["v1"] /\ status = at[q].body.status
                                /\ row = [was EXCEPT !.status = status, !.unrecorded = @ + 1]
    OBVIOUS
  <2>2. Current(q) = was
    BY <1>5, <1>7, <2>1 DEF Current
  <2>3. Onward(q, "record") /\ cut' = cut /\ db' = [db EXCEPT !["bike"]["v1"] = row]
    <3>1. Put(q, row, "record")
      BY <1>7, <2>1, <2>2
    <3> QED BY <1>5, <1>7, <3>1, PutIs, ZenonT(60) DEF Owing
  <2>4. {"status", "unrecorded"} \subseteq DOMAIN was /\ was.unrecorded \in Int /\ was.unrecorded <= cut + Cardinality(B)
    BY <2>1 DEF CommandsHold
  <2>5. {"status", "unrecorded"} \subseteq DOMAIN row /\ row.unrecorded = was.unrecorded + 1
    BY <2>1, <2>4
  <2>6. db'.bike["v1"] = row
    BY <1>0, <2>3
  <2>7. Cardinality(B') = Cardinality(B) + 1
    BY <1>5, <1>7, <2>3, BusyMoves DEF Recording, Doing, Onward
  <2>8. At("bike", "v1")'
    BY <1>3, <1>5, <1>7, <2>3 DEF Onward
  <2> QED BY <1>0, <2>3, <2>4, <2>5, <2>6, <2>7, <2>8 DEF CommandsHold
<1>8. ASSUME NEW q \in Requests, Doing(q, "power", "record"),
             Pass(q, [db EXCEPT !.bike[at[q].key].unrecorded = @ - 1], "audit")
      PROVE  CommandsHold'
  <2>1. Onward(q, "audit") /\ cut' = cut /\ db' = [db EXCEPT !.bike["v1"].unrecorded = @ - 1]
    <3>1. PICK tables : tables = [db EXCEPT !.bike[at[q].key].unrecorded = @ - 1]
      OBVIOUS
    <3>2. Pass(q, tables, "audit")
      BY <1>8, <3>1
    <3>3. Onward(q, "audit") /\ cut' = cut /\ db' = tables
      BY <1>5, <1>8, <3>2, PassIs DEF Owing
    <3> QED BY <1>5, <1>8, <3>1, <3>3
  <2>2. DOMAIN db'.bike["v1"] = DOMAIN db.bike["v1"] /\ db'.bike["v1"].unrecorded = db.bike["v1"].unrecorded - 1
    BY <1>0, <2>1 DEF CommandsHold
  <2>3. Cardinality(B') = Cardinality(B) - 1
    BY <1>5, <1>8, <2>1, BusyMoves DEF Recording, Doing, Onward
  <2>4. At("bike", "v1")'
    BY <1>3, <1>5, <1>8, <2>1 DEF Onward
  <2> QED BY <1>0, <2>1, <2>2, <2>3, <2>4 DEF CommandsHold
<1>9. ASSUME NEW q \in Requests, ControlBattery(q) PROVE CommandsHold'
  BY <1>4, <1>6, <1>7, <1>8, <1>9 DEF ControlBattery
<1> QED BY <1>1, <1>2, <1>9, StepsOfTables

\* Runs that are open: a request is in one.
Ingesting == {"image", "overwrite", "close", "failed"}
RunsHold ==
  /\ "open" \in DOMAIN db.runs["running"] /\ db.runs["running"].open \in Int
  /\ db.runs["running"].open <= cut + Cardinality(Busy("daily", Ingesting))

LEMMA RunsKept ==
  ASSUME InFlight, Places, RunsHold, [RecordsNext]_recordVars
  PROVE  RunsHold'
<1> DEFINE B == Busy("daily", Ingesting)
<1>0. /\ InFlight' /\ "ingest" \in DOMAIN Home /\ Home["ingest"] = "daily" /\ cut \in Nat
      /\ {"runs", "images", "daily"} \subseteq DOMAIN db /\ DOMAIN db.runs = {"running"}
      /\ Cardinality(B) \in Nat /\ Cardinality(B') \in Nat
  BY InFlightKept, HomeIs, BusyCounted DEF InFlight, Places
<1>1. CASE Calm("daily") /\ Calm("runs")
  <2>1. db'.runs = db.runs /\ cut' \in Nat
    BY <1>0, <1>1 DEF Calm
  <2>2. cut + Cardinality(B) <= cut' + Cardinality(B')
    BY <1>1 DEF Calm, Midway, Owing, Ingesting
  <2> QED BY <1>0, <2>1, <2>2 DEF RunsHold
<1>2. ASSUME NEW q \in Requests, NEW d, NEW body, NEW do \in {"failed", "image", "overwrite"},
             Enter(q, "ingest", "daily", d, body, do), db' = [db EXCEPT !.runs["running"].open = @ + 1]
      PROVE  RunsHold'
  <2>1. Alone(q) /\ cut' = cut /\ at[q] = Idle /\ at'[q].table = "daily" /\ at'[q].do = do /\ at'[q].op = "ingest"
    <3>1. Alone(q) /\ cut' = cut /\ at[q] = Idle
      BY <1>2 DEF Enter, Alone, InFlight
    <3> QED BY <1>2, <3>1 DEF Enter, InFlight
  <2>2. at'[q] # Idle
    BY <2>1 DEF Idle
  <2>3. Cardinality(B') = Cardinality(B) + 1
    BY <2>1, <2>2, BusyMoves DEF Ingesting
  <2>4. "open" \in DOMAIN db'.runs["running"] /\ db'.runs["running"].open = db.runs["running"].open + 1
    BY <1>0, <1>2 DEF RunsHold
  <2> QED BY <1>0, <2>1, <2>3, <2>4 DEF RunsHold
<1>3. ASSUME NEW q \in Requests, at[q].op = "ingest", at[q].do \in Ingesting
      PROVE  at[q] # Idle /\ at[q].op \in DOMAIN Home /\ at[q].table = "daily"
  BY <1>0, <1>3 DEF InFlight, Flight, Idle, Ingesting
<1>4. ASSUME NEW q \in Requests, NEW do \in Ingesting, at[q].op = "ingest", at[q].do \in Ingesting, Onward(q, do),
             cut' = cut, db'.runs = db.runs
      PROVE  RunsHold'
  <2>1. Cardinality(B') = Cardinality(B)
    BY <1>3, <1>4, BusyMoves DEF Onward
  <2> QED BY <1>4, <2>1 DEF RunsHold
<1>5. ASSUME NEW q \in Requests, Doing(q, "ingest", "image"),
             Pass(q, [db EXCEPT !.images[at[q].key].of = @ \cup {[row |-> Read(q), forced |-> Authoritative(Read(q)) /\ at[q].body.override]}],
                  "overwrite")
      PROVE  RunsHold'
  <2>1. PICK tables, images : /\ tables = [db EXCEPT !.images = images]
                              /\ tables = [db EXCEPT !.images[at[q].key].of = @ \cup {[row |-> Read(q), forced |-> Authoritative(Read(q)) /\ at[q].body.override]}]
    OBVIOUS
  <2>2. Pass(q, tables, "overwrite")
    BY <1>5, <2>1
  <2>3. at[q].op = "ingest" /\ at[q].do \in Ingesting /\ "overwrite" \in Ingesting
    BY <1>5 DEF Doing, Ingesting
  <2>4. Onward(q, "overwrite") /\ cut' = cut /\ db' = tables
    BY <1>3, <2>2, <2>3, PassIs
  <2>5. db'.runs = db.runs
    BY <1>0, <2>1, <2>4
  <2> QED BY <1>4, <2>3, <2>4, <2>5
<1>6. ASSUME NEW q \in Requests, Doing(q, "ingest", "overwrite"), Store(q, Figure(Read(q), at[q].body), "close")
      PROVE  RunsHold'
  <2>1. at[q].op = "ingest" /\ at[q].do \in Ingesting /\ "close" \in Ingesting
    BY <1>6 DEF Doing, Ingesting
  <2>2. Onward(q, "close") /\ cut' = cut /\ db' = [db EXCEPT ![at[q].table][at[q].key] = Figure(Read(q), at[q].body)]
    BY <1>3, <1>6, <2>1, StoreIs DEF Owing
  <2>3. db'.runs = db.runs
    BY <1>0, <1>3, <2>1, <2>2
  <2> QED BY <1>4, <2>1, <2>2, <2>3
<1>7. ASSUME NEW q \in Requests, at[q].op = "ingest", at[q].do \in {"close", "failed"},
             Pass(q, [db EXCEPT !.runs["running"].open = @ - 1], IF at[q].do = "close" THEN "audit" ELSE "end")
      PROVE  RunsHold'
  <2>1. PICK do : do = (IF at[q].do = "close" THEN "audit" ELSE "end")
    OBVIOUS
  <2>2. PICK tables : tables = [db EXCEPT !.runs["running"].open = @ - 1]
    OBVIOUS
  <2>3. Pass(q, tables, do) /\ do \in {"audit", "end"}
    BY <1>7, <2>1, <2>2
  <2>4. at[q] # Idle /\ at[q].op \in DOMAIN Home /\ at[q].table = "daily" /\ at[q].do \in Ingesting
    BY <1>3, <1>7 DEF Ingesting
  <2>5. db' = tables /\ cut' = cut /\ (do = "audit" => Onward(q, "audit")) /\ (do = "end" => Alone(q) /\ at'[q] = Idle)
    BY <2>3, <2>4, PassIs DEF Owing
  <2>6. Alone(q) /\ (at'[q] = Idle \/ at'[q].do \notin Ingesting)
    BY <2>3, <2>5 DEF Onward, Ingesting
  <2>7. Cardinality(B') = Cardinality(B) - 1
    BY <2>4, <2>6, BusyMoves
  <2>8. "open" \in DOMAIN db'.runs["running"] /\ db'.runs["running"].open = db.runs["running"].open - 1
    BY <1>0, <2>2, <2>5 DEF RunsHold
  <2> QED BY <1>0, <2>5, <2>7, <2>8 DEF RunsHold
<1>8. ASSUME NEW q \in Requests, IngestDailyRecords(q) PROVE RunsHold'
  <2>1. CASE \E d \in DOMAIN db.daily, body \in Corrections \cup Syncs :
               /\ Enter(q, "ingest", "daily", d, body,
                        IF Refuses(db.daily[d], body) THEN "failed"
                        ELSE IF body.source = "manual" /\ Live(db.daily[d]) THEN "image" ELSE "overwrite")
               /\ db' = [db EXCEPT !.runs["running"].open = @ + 1]
    <3>1. PICK d \in DOMAIN db.daily, body \in Corrections \cup Syncs, do \in {"failed", "image", "overwrite"} :
               /\ Enter(q, "ingest", "daily", d, body, do)
               /\ db' = [db EXCEPT !.runs["running"].open = @ + 1]
      BY <2>1
    <3> QED BY <1>2, <3>1
  <2> QED BY <1>5, <1>6, <1>7, <1>8, <2>1 DEF IngestDailyRecords
<1> QED BY <1>1, <1>8, StepsOfTables

-----------------------------------------------------------------------------
(* Rows that are reported once and followed.                                *)

Good(table, r) ==
  \/ /\ table = "incident" /\ DOMAIN r = {"status", "cost", "told"}
     /\ r.status \in {"open", "acknowledged", "resolved"} /\ r.told \in BOOLEAN
  \/ /\ table = "inspection" /\ DOMAIN r = {"status"}
     /\ r.status \in {"not_required", "pending", "approved", "follow_up"}
  \/ /\ table = "repair" /\ DOMAIN r = {"status", "cost"}
     /\ r.status \in {"open", "in_repair", "resolved"}
  \/ /\ table = "trainee" /\ DOMAIN r = {"status", "phase"}
     /\ r.status \in {"active", "graduated"}
  \/ /\ table = "document" /\ DOMAIN r = {"status"}
     /\ r.status \in {"stored", "media", "linked", "hidden"}

\* op reports the row, under a key nobody else has; the other handlers follow it.
Followed(table, key, op) ==
  /\ At(table, key)
  /\ Good(table, db[table][key]) \/ db[table][key] = Absent
  /\ \A q \in Requests : (at[q] # Idle /\ at[q].table = table /\ at[q].op # op) =>
       Good(table, at[q].row) /\ Good(table, db[table][key])
  /\ \A q \in Requests : Doing(q, op, "write") =>
       /\ db[table][key] = Absent
       /\ \A p \in Requests \ {q} : at[p] = Idle \/ at[p].table # table

LEMMA GoodIsLive ==
  ASSUME NEW table, NEW r, Good(table, r)
  PROVE  Live(r) /\ r # Absent
BY DEF Good, Live, Absent

LEMMA CalmFollowed ==
  ASSUME InFlight', NEW table \in DOMAIN db, NEW key, NEW op, op \in DOMAIN Home, Home[op] = table,
         Followed(table, key, op), Calm(table)
  PROVE  Followed(table, key, op)'
<1>1. db'[table] = db[table]
  BY DEF Calm
<1>2. At(table, key)'
  BY CalmAt DEF Followed
<1>3. \A p \in Requests : (at'[p] # Idle /\ at'[p].table = table) => at'[p] = at[p]
  BY CalmRequests
<1>4. \A p \in Requests : (at'[p].op = op /\ at'[p].do = "write") => at'[p] # Idle /\ at'[p].table = table
  BY HomeIs DEF InFlight, Flight, Idle
<1>5. \A p \in Requests : (at[p] = Idle \/ at[p].table # table) => (at'[p] = Idle \/ at'[p].table # table)
  BY <1>3
<1> QED BY <1>1, <1>2, <1>3, <1>4, <1>5 DEF Followed, Doing

LEMMA BeginReport ==
  ASSUME InFlight, NEW table \in DOMAIN db, NEW key, NEW op, op \in DOMAIN Home, Home[op] = table, NEW body,
         Followed(table, key, op), NEW q \in Requests, Unused(table, key), Begin(q, op, table, key, body)
  PROVE  Followed(table, key, op)' /\ db' = db
<1>1. /\ Alone(q) /\ db' = db /\ at[q] = Idle /\ at'[q].op = op /\ at'[q].table = table /\ at'[q].key = key
  BY BeginIs
<1>2. db[table][key] = Absent /\ \A p \in Requests : at[p] = Idle \/ at[p].table # table
  BY GoodIsLive DEF Unused, Followed
<1>3. At(table, key)'
  BY <1>1, <1>2 DEF At, Alone
<1>4. \A p \in Requests : (at[p].op = op /\ at[p].do = "write") => at[p] # Idle /\ at[p].table = table
  BY HomeIs DEF InFlight, Flight, Idle
<1> QED BY <1>1, <1>2, <1>3, <1>4 DEF Followed, Doing, Alone

LEMMA BeginFollowUp ==
  ASSUME InFlight, NEW table \in DOMAIN db, NEW key, NEW op, NEW next, next # op, NEW body,
         Followed(table, key, op), NEW q \in Requests, Live(db[table][key]), Begin(q, next, table, key, body)
  PROVE  /\ Followed(table, key, op)' /\ db' = db /\ stale' = stale /\ Alone(q) /\ cut' = cut /\ at[q] = Idle
         /\ at'[q].op = next /\ at'[q].row = db[table][key] /\ at'[q].body = body
<1>1. /\ Alone(q) /\ db' = db /\ stale' = stale /\ at[q] = Idle /\ at'[q].op = next /\ at'[q].table = table /\ at'[q].key = key
      /\ at'[q].row = db[table][key] /\ at'[q].body = body /\ cut' = cut
  BY BeginIs
<1>2. Good(table, db[table][key])
  BY DEF Followed, Live, Absent
<1>3. At(table, key)'
  BY <1>1 DEF Followed, At, Alone
<1>4. \A p \in Requests : ~Doing(p, op, "write")
  BY <1>2, GoodIsLive DEF Followed
<1> QED BY <1>1, <1>2, <1>3, <1>4 DEF Followed, Doing, Alone

\* The report is written, or what follows is; in either case the row is there.
LEMMA WriteFollowed ==
  ASSUME InFlight, NEW table \in DOMAIN db, NEW key \in DOMAIN db[table], NEW op, op \in DOMAIN Home, Home[op] = table,
         Followed(table, key, op), NEW q \in Requests, at[q] # Idle, at[q].table = table,
         NEW row, Good(table, row), NEW do \in Owing, Onward(q, do), db' = [db EXCEPT ![table][key] = row],
         \A p \in Requests \ {q} : ~Doing(p, op, "write")
  PROVE  /\ Followed(table, key, op)' /\ db'[table][key] = row
         /\ DOMAIN db'[table] = DOMAIN db[table]
<1>1. db'[table][key] = row /\ DOMAIN db'[table] = DOMAIN db[table]
  OBVIOUS
<1>2. At(table, key)'
  BY DEF Followed, At, Onward, Alone
<1>3. \A p \in Requests : ~Doing(p, op, "write")'
  BY DEF Doing, Onward, Alone, Owing
<1>4. \A p \in Requests : (at'[p] # Idle /\ at'[p].table = table /\ at'[p].op # op) => Good(table, at'[p].row)
  BY DEF Followed, Onward, Alone
<1> QED BY <1>1, <1>2, <1>3, <1>4 DEF Followed

LEMMA PutReport ==
  ASSUME InFlight, NEW table \in DOMAIN db, NEW key \in DOMAIN db[table], NEW op, op \in DOMAIN Home, Home[op] = table,
         Followed(table, key, op), NEW q \in Requests, Doing(q, op, "write"),
         NEW row, Good(table, row), NEW do \in Owing, Put(q, row, do)
  PROVE  /\ Followed(table, key, op)' /\ db[table][key] = Absent /\ db'[table][key] = row
         /\ Onward(q, do) /\ stale' = stale /\ cut' = cut /\ DOMAIN db'[table] = DOMAIN db[table]
         /\ db' = [db EXCEPT ![table][key] = row] /\ at[q].table = table
<1>1. at[q] # Idle /\ at[q].op = op /\ at[q].table = table
  BY HomeIs DEF Doing, InFlight, Flight, Idle
<1>2. at[q].key = key /\ db[table][key] = Absent
  BY <1>1 DEF Followed, At
<1>3. Onward(q, do) /\ stale' = stale /\ cut' = cut /\ db' = [db EXCEPT ![table][key] = row]
  BY <1>1, <1>2, PutIs, ZenonT(60)
<1>4. \A p \in Requests \ {q} : ~Doing(p, op, "write")
  <2>1. \A p \in Requests \ {q} : at[p] = Idle \/ at[p].table # table
    BY DEF Followed
  <2> QED BY <2>1, HomeIs DEF Doing, InFlight, Flight, Idle
<1>5. Followed(table, key, op)' /\ db'[table][key] = row /\ DOMAIN db'[table] = DOMAIN db[table]
  BY <1>1, <1>3, <1>4, WriteFollowed
<1> QED BY <1>1, <1>2, <1>3, <1>5

LEMMA StoreFollowUp ==
  ASSUME InFlight, NEW table \in DOMAIN db, NEW key \in DOMAIN db[table], NEW op, op \in DOMAIN Home, Home[op] = table,
         Followed(table, key, op), NEW q \in Requests, at[q].op \in DOMAIN Home, at[q].op # op, Home[at[q].op] = table,
         NEW row, Good(table, row), Store(q, row, "audit")
  PROVE  /\ Followed(table, key, op)' /\ db'[table][key] = row
         /\ Onward(q, "audit") /\ cut' = cut /\ DOMAIN db'[table] = DOMAIN db[table]
         /\ stale \subseteq stale' /\ (db[table][key] # at[q].row => <<table, key>> \in stale')
<1>1. at[q] # Idle /\ at[q].table = table
  BY HomeIs DEF InFlight, Flight, Idle
<1>2. at[q].key = key /\ Good(table, db[table][key])
  BY <1>1 DEF Followed, At
<1>3. /\ Onward(q, "audit") /\ cut' = cut /\ db' = [db EXCEPT ![table][key] = row]
      /\ stale' = IF Unseen(q) THEN stale \cup {<<table, key>>} ELSE stale
  BY <1>1, <1>2, StoreIs, ZenonT(60) DEF Owing
<1>4. \A p \in Requests : ~Doing(p, op, "write")
  BY <1>2, GoodIsLive DEF Followed
<1>5. Followed(table, key, op)' /\ db'[table][key] = row /\ DOMAIN db'[table] = DOMAIN db[table]
  BY <1>1, <1>3, <1>4, WriteFollowed DEF Owing
<1>6. Unseen(q) <=> db[table][key] # at[q].row
  BY <1>1, <1>2 DEF Unseen, Current, Read
<1> QED BY <1>3, <1>5, <1>6

\* What a follow-up has read.
LEMMA FollowUpReads ==
  ASSUME InFlight, NEW table, NEW key, NEW op, Followed(table, key, op), NEW q \in Requests,
         at[q].op \in DOMAIN Home, at[q].op # op, Home[at[q].op] = table
  PROVE  /\ Good(table, at[q].row) /\ Good(table, db[table][key])
         /\ Current(q) = db[table][key] /\ Read(q) = at[q].row
<1>1. at[q] # Idle /\ at[q].table = table
  BY HomeIs DEF InFlight, Flight, Idle
<1> QED BY <1>1 DEF Followed, At, Current, Read

LEMMA RankIs ==
  /\ \A x \in {"open", "pending", "active"} : Rank(x) = 1
  /\ Rank("acknowledged") = 2
  /\ \A x \in {"resolved", "approved", "follow_up", "graduated", "not_required"} : Rank(x) = 3
  /\ Rank("absent") = 0
BY DEF Rank

\* The row does not go back, unless the step rests on a row that had changed.
Forward(table, key) ==
  Rank(db'[table][key].status) >= Rank(db[table][key].status) \/ <<table, key>> \in stale'

\* Incidents: one that has no notice yet has a request that is about to give it.
NoticeDue == cut > 0 \/ \E q \in Requests : Doing(q, "incident", "notice")
IncidentsHold ==
  /\ Followed("incident", "i1", "incident")
  /\ \A q \in Requests : at[q].op = "acknowledge" => at[q].row.status = "open"
  /\ (db.incident["i1"] # Absent /\ ~db.incident["i1"].told) => NoticeDue

LEMMA NoticeStays ==
  ASSUME NoticeDue, NEW q \in Requests, Alone(q), cut' = cut, ~Doing(q, "incident", "notice")
  PROVE  NoticeDue'
BY DEF NoticeDue, Doing, Alone

LEMMA IncidentsKept ==
  ASSUME InFlight, Places, IncidentsHold, [RecordsNext]_recordVars
  PROVE  IncidentsHold' /\ Forward("incident", "i1")
<1> DEFINE was == db.incident["i1"]
<1>0. /\ InFlight' /\ {"incident", "acknowledge", "details", "resolve"} \subseteq DOMAIN Home
      /\ Home["incident"] = "incident" /\ Home["acknowledge"] = "incident" /\ Home["details"] = "incident" /\ Home["resolve"] = "incident"
      /\ "incident" \in DOMAIN db /\ DOMAIN db.incident = {"i1"} /\ cut \in Nat
      /\ Followed("incident", "i1", "incident")
  BY InFlightKept, HomeIs DEF InFlight, Places, IncidentsHold
<1>r. Rank(was.status) \in Nat
  <2>1. was = Absent \/ Good("incident", was)
    BY <1>0 DEF Followed
  <2> QED BY <2>1, RankIs DEF Good, Absent
<1>1. CASE Calm("incident")
  <2>1. db'.incident = db.incident /\ Followed("incident", "i1", "incident")'
    BY <1>0, <1>1, CalmFollowed DEF Calm
  <2>2. \A q \in Requests : at'[q].op = "acknowledge" => at'[q] = at[q]
    BY <1>0, <1>1, HomeIs DEF Calm, Apart, Idle
  <2>3. NoticeDue => NoticeDue'
    BY <1>0, <1>1, HomeIs DEF NoticeDue, Doing, Calm, Apart, Idle
  <2> QED BY <1>r, <2>1, <2>2, <2>3 DEF IncidentsHold, Forward
<1>2. ASSUME NEW q \in Requests, CreateIncident(q) PROVE IncidentsHold' /\ Forward("incident", "i1")
  <2>1. ASSUME NEW i \in DOMAIN db.incident, NEW body, Unused("incident", i), Begin(q, "incident", "incident", i, body)
        PROVE  IncidentsHold' /\ Forward("incident", "i1")
    <3>1. Followed("incident", "i1", "incident")' /\ db' = db
      BY <1>0, <2>1, BeginReport
    <3>2. Alone(q) /\ cut' = cut /\ at[q] = Idle /\ at'[q].op = "incident"
      BY <2>1, BeginIs
    <3>3. NoticeDue => NoticeDue'
      BY <3>2, NoticeStays DEF Doing, Idle
    <3> QED BY <1>r, <3>1, <3>2, <3>3 DEF IncidentsHold, Forward, Alone
  <2>2. ASSUME Doing(q, "incident", "write"), NEW told \in BOOLEAN, NEW row, NEW do,
               row = [status |-> "open", cost |-> Given(at[q].body, "cost", NoCost), told |-> told],
               do = IF told THEN "audit" ELSE "notice", Put(q, row, do)
        PROVE  IncidentsHold' /\ Forward("incident", "i1")
    <3>1. Good("incident", row) /\ row.status = "open" /\ row.told = told /\ do \in Owing
      BY <2>2 DEF Good, Owing
    <3>2. /\ Followed("incident", "i1", "incident")' /\ was = Absent /\ db'.incident["i1"] = row /\ Onward(q, do)
      BY <1>0, <2>2, <3>1, PutReport
    <3>3. told \/ NoticeDue'
      BY <2>2, <3>2 DEF NoticeDue, Doing, Onward
    <3>4. \A p \in Requests : at'[p].op = "acknowledge" => at'[p].row.status = "open"
      BY <2>2, <3>2 DEF IncidentsHold, Onward, Alone, Doing
    <3>5. Rank(row.status) >= Rank(was.status)
      BY <3>1, <3>2, RankIs DEF Absent
    <3> QED BY <3>1, <3>2, <3>3, <3>4, <3>5 DEF IncidentsHold, Forward
  <2>3. ASSUME Doing(q, "incident", "notice"), Pass(q, [db EXCEPT !.incident[at[q].key].told = TRUE], "audit")
        PROVE  IncidentsHold' /\ Forward("incident", "i1")
    <3>1. at[q] # Idle /\ at[q].op = "incident" /\ at[q].table = "incident" /\ at[q].key = "i1" /\ at[q].op \in DOMAIN Home
      BY <1>0, <2>3 DEF Doing, InFlight, Flight, Idle, Followed, At
    <3>2. PICK tables : tables = [db EXCEPT !.incident["i1"].told = TRUE]
      OBVIOUS
    <3>3. Onward(q, "audit") /\ db' = tables /\ cut' = cut
      <4>1. Pass(q, tables, "audit")
        BY <2>3, <3>1, <3>2
      <4> QED BY <3>1, <4>1, PassIs DEF Owing
    <3>4. DOMAIN db'.incident = {"i1"} /\ db'.incident["i1"] = [was EXCEPT !.told = TRUE]
      BY <1>0, <3>2, <3>3
    <3>5. CASE was = Absent
      <4>1. db'.incident["i1"] = Absent
        BY <3>4, <3>5 DEF Absent
      <4>2. Followed("incident", "i1", "incident")'
        BY <1>0, <3>1, <3>3, <3>5, <4>1 DEF Followed, At, Onward, Alone, Doing
      <4> QED BY <1>r, <3>1, <3>3, <3>5, <4>1, <4>2 DEF IncidentsHold, Forward, Onward, Alone
    <3>6. CASE Good("incident", was)
      <4>1. Good("incident", db'.incident["i1"]) /\ db'.incident["i1"].status = was.status /\ db'.incident["i1"].told
        BY <3>4, <3>6 DEF Good
      <4>2. \A p \in Requests : ~Doing(p, "incident", "write")
        BY <1>0, <3>6, GoodIsLive DEF Followed
      <4>3. Followed("incident", "i1", "incident")'
        BY <1>0, <3>1, <3>3, <4>1, <4>2 DEF Followed, At, Onward, Alone, Doing
      <4> QED BY <1>r, <3>1, <3>3, <4>1, <4>3 DEF IncidentsHold, Forward, Onward, Alone
    <3> QED BY <1>0, <3>5, <3>6 DEF Followed
  <2> QED BY <1>2, <2>1, <2>2, <2>3 DEF CreateIncident
<1>3. ASSUME NEW q \in Requests, NEW next \in {"acknowledge", "details", "resolve"}, NEW i \in DOMAIN db.incident, NEW body,
             Live(db.incident[i]), next = "acknowledge" => db.incident[i].status = "open",
             Begin(q, next, "incident", i, body)
      PROVE  IncidentsHold' /\ Forward("incident", "i1")
  <2>1. /\ Followed("incident", "i1", "incident")' /\ db' = db /\ Alone(q) /\ cut' = cut /\ at[q] = Idle
        /\ at'[q].op = next /\ at'[q].row = was
    BY <1>0, <1>3, BeginFollowUp
  <2>2. NoticeDue => NoticeDue'
    BY <2>1, NoticeStays DEF Doing, Idle
  <2> QED BY <1>0, <1>3, <1>r, <2>1, <2>2 DEF IncidentsHold, Forward, Alone
<1>4. ASSUME NEW q \in Requests, NEW next \in {"acknowledge", "details", "resolve"}, at[q].op = next,
             NEW row, Good("incident", row), row.told = was.told,
             db.incident["i1"] = at[q].row => Rank(row.status) >= Rank(was.status),
             Store(q, row, "audit")
      PROVE  IncidentsHold' /\ Forward("incident", "i1")
  <2>1. /\ Followed("incident", "i1", "incident")' /\ db'.incident["i1"] = row /\ Onward(q, "audit") /\ cut' = cut
        /\ db.incident["i1"] # at[q].row => <<"incident", "i1">> \in stale'
    <3>1. /\ "i1" \in DOMAIN db["incident"] /\ at[q].op \in DOMAIN Home /\ at[q].op # "incident" /\ Home[at[q].op] = "incident"
          /\ "incident" \in DOMAIN db /\ "incident" \in DOMAIN Home /\ Home["incident"] = "incident"
          /\ Followed("incident", "i1", "incident") /\ Good("incident", row) /\ Store(q, row, "audit")
      BY <1>0, <1>4
    <3>2. /\ Followed("incident", "i1", "incident")' /\ db'["incident"]["i1"] = row /\ Onward(q, "audit") /\ cut' = cut
          /\ db["incident"]["i1"] # at[q].row => <<"incident", "i1">> \in stale'
      BY <3>1, StoreFollowUp
    <3> QED BY <3>2
  <2>2. was # Absent /\ row # Absent
    BY <1>0, <1>4, FollowUpReads, GoodIsLive
  <2>3. NoticeDue => NoticeDue'
    BY <1>4, <2>1, NoticeStays DEF Doing, Onward
  <2> QED BY <1>4, <2>1, <2>2, <2>3 DEF IncidentsHold, Forward, Onward, Alone
<1>5. ASSUME NEW q \in Requests, AcknowledgeIncident(q) PROVE IncidentsHold' /\ Forward("incident", "i1")
  <2>1. CASE \E i \in DOMAIN db.incident, body \in {<<>>} : db.incident[i].status = "open" /\ Begin(q, "acknowledge", "incident", i, body)
    BY <1>3, <2>1 DEF Live
  <2>2. ASSUME Doing(q, "acknowledge", "write"), Store(q, [Current(q) EXCEPT !.status = "acknowledged"], "audit")
        PROVE  IncidentsHold' /\ Forward("incident", "i1")
    <3>1. /\ Good("incident", at[q].row) /\ Good("incident", was) /\ Current(q) = was
          /\ at[q].row.status = "open"
      BY <1>0, <2>2, FollowUpReads DEF Doing, IncidentsHold
    <3>2. PICK row : row = [was EXCEPT !.status = "acknowledged"]
      OBVIOUS
    <3>3. Good("incident", row) /\ row.told = was.told /\ row.status = "acknowledged"
      BY <3>1, <3>2 DEF Good
    <3>4. db.incident["i1"] = at[q].row => Rank(row.status) >= Rank(was.status)
      BY <3>1, <3>3, RankIs
    <3>5. Store(q, row, "audit")
      BY <2>2, <3>1, <3>2
    <3> QED BY <1>4, <2>2, <3>3, <3>4, <3>5 DEF Doing
  <2> QED BY <1>5, <2>1, <2>2 DEF AcknowledgeIncident, Handler
<1>6. ASSUME NEW q \in Requests, UpdateIncidentDetails(q) PROVE IncidentsHold' /\ Forward("incident", "i1")
  <2>1. CASE \E i \in DOMAIN db.incident, body \in Costing : Live(db.incident[i]) /\ Begin(q, "details", "incident", i, body)
    BY <1>3, <2>1
  <2>2. ASSUME Doing(q, "details", "write"), Store(q, [Current(q) EXCEPT !.cost = Given(at[q].body, "cost", Read(q).cost)], "audit")
        PROVE  IncidentsHold' /\ Forward("incident", "i1")
    <3>1. Good("incident", was) /\ Current(q) = was
      BY <1>0, <2>2, FollowUpReads DEF Doing
    <3>2. PICK row, cost : cost = Given(at[q].body, "cost", Read(q).cost) /\ row = [was EXCEPT !.cost = cost]
      OBVIOUS
    <3>3. Good("incident", row) /\ row.told = was.told /\ row.status = was.status
      BY <3>1, <3>2 DEF Good
    <3>4. Rank(row.status) >= Rank(was.status)
      BY <1>r, <3>3
    <3>5. Store(q, row, "audit")
      BY <2>2, <3>1, <3>2
    <3> QED BY <1>4, <2>2, <3>3, <3>4, <3>5 DEF Doing
  <2> QED BY <1>6, <2>1, <2>2 DEF UpdateIncidentDetails, Handler, Existing
<1>7. ASSUME NEW q \in Requests, ResolveIncident(q) PROVE IncidentsHold' /\ Forward("incident", "i1")
  <2>1. CASE \E i \in DOMAIN db.incident, body \in Costing : Live(db.incident[i]) /\ Begin(q, "resolve", "incident", i, body)
    BY <1>3, <2>1
  <2>2. ASSUME Doing(q, "resolve", "write"),
               Store(q, [Current(q) EXCEPT !.status = "resolved", !.cost = Given(at[q].body, "cost", Read(q).cost)], "audit")
        PROVE  IncidentsHold' /\ Forward("incident", "i1")
    <3>1. Good("incident", was) /\ Current(q) = was
      BY <1>0, <2>2, FollowUpReads DEF Doing
    <3>2. PICK row, cost : cost = Given(at[q].body, "cost", Read(q).cost) /\ row = [was EXCEPT !.status = "resolved", !.cost = cost]
      OBVIOUS
    <3>3. Good("incident", row) /\ row.told = was.told /\ row.status = "resolved"
      BY <3>1, <3>2 DEF Good
    <3>4. Rank(row.status) >= Rank(was.status)
      BY <3>1, <3>3, RankIs DEF Good
    <3>5. Store(q, row, "audit")
      BY <2>2, <3>1, <3>2
    <3> QED BY <1>4, <2>2, <3>3, <3>4, <3>5 DEF Doing
  <2> QED BY <1>7, <2>1, <2>2 DEF ResolveIncident, Handler
<1> QED BY <1>1, <1>2, <1>5, <1>6, <1>7, StepsOfTables

\* A step that changes nothing of the table and nothing of its requests.
LEMMA CalmForward ==
  ASSUME InFlight', NEW table \in DOMAIN db, NEW key \in DOMAIN db[table], NEW op, op \in DOMAIN Home, Home[op] = table,
         Followed(table, key, op), Calm(table), Rank(db[table][key].status) \in Nat
  PROVE  /\ Followed(table, key, op)' /\ Forward(table, key)
         /\ \A q \in Requests : (at'[q] # Idle /\ at'[q].table = table) => at'[q] = at[q]
<1>1. db'[table] = db[table]
  BY DEF Calm
<1>2. \A q \in Requests : (at'[q] # Idle /\ at'[q].table = table) => at'[q] = at[q]
  BY CalmRequests
<1> QED BY <1>1, <1>2, CalmFollowed DEF Forward

\* Inspections: a review has read one that was pending.
InspectionsHold ==
  /\ Followed("inspection", "n1", "inspect")
  /\ \A q \in Requests : at[q].op = "review" =>
       at[q].row.status = "pending" /\ at[q].body.decision \in {"approved", "follow_up"}

LEMMA InspectionsKept ==
  ASSUME InFlight, Places, InspectionsHold, [RecordsNext]_recordVars
  PROVE  InspectionsHold' /\ Forward("inspection", "n1")
<1> DEFINE was == db.inspection["n1"]
<1>0. /\ InFlight' /\ {"inspect", "review"} \subseteq DOMAIN Home
      /\ Home["inspect"] = "inspection" /\ Home["review"] = "inspection"
      /\ "inspection" \in DOMAIN db /\ DOMAIN db.inspection = {"n1"}
      /\ Followed("inspection", "n1", "inspect")
  BY InFlightKept, HomeIs DEF Places, InspectionsHold
<1>r. Rank(was.status) \in Nat
  <2>1. was = Absent \/ Good("inspection", was)
    BY <1>0 DEF Followed
  <2> QED BY <2>1, RankIs DEF Good, Absent
<1>1. CASE Calm("inspection")
  <2>1. /\ Followed("inspection", "n1", "inspect")' /\ Forward("inspection", "n1")
        /\ \A q \in Requests : (at'[q] # Idle /\ at'[q].table = "inspection") => at'[q] = at[q]
    BY <1>0, <1>1, <1>r, CalmForward
  <2>2. \A q \in Requests : at'[q].op = "review" => at'[q] # Idle /\ at'[q].table = "inspection"
    BY <1>0, HomeIs DEF InFlight, Flight, Idle
  <2> QED BY <2>1, <2>2 DEF InspectionsHold
<1>2. ASSUME NEW q \in Requests, CreateInspection(q) PROVE InspectionsHold' /\ Forward("inspection", "n1")
  <2>1. ASSUME NEW n \in DOMAIN db.inspection, NEW body, Unused("inspection", n), Begin(q, "inspect", "inspection", n, body)
        PROVE  InspectionsHold' /\ Forward("inspection", "n1")
    <3>1. Followed("inspection", "n1", "inspect")' /\ db' = db
      BY <1>0, <2>1, BeginReport
    <3>2. Alone(q) /\ at'[q].op = "inspect"
      BY <2>1, BeginIs
    <3> QED BY <1>r, <3>1, <3>2 DEF InspectionsHold, Forward, Alone
  <2>2. ASSUME Doing(q, "inspect", "write"), NEW row,
               row = [status |-> IF at[q].body.condition = "ok" THEN "not_required" ELSE "pending"], Put(q, row, "audit")
        PROVE  InspectionsHold' /\ Forward("inspection", "n1")
    <3>1. Good("inspection", row)
      BY <2>2 DEF Good
    <3>2. /\ Followed("inspection", "n1", "inspect")' /\ was = Absent /\ db'.inspection["n1"] = row /\ Onward(q, "audit")
      BY <1>0, <2>2, <3>1, PutReport DEF Owing
    <3>3. Rank(row.status) >= Rank(was.status)
      BY <3>1, <3>2, RankIs DEF Absent, Good
    <3> QED BY <2>2, <3>2, <3>3 DEF InspectionsHold, Forward, Onward, Alone, Doing
  <2> QED BY <1>2, <2>1, <2>2 DEF CreateInspection, Report
<1>3. ASSUME NEW q \in Requests, ReviewInspection(q) PROVE InspectionsHold' /\ Forward("inspection", "n1")
  <2>1. ASSUME NEW n \in DOMAIN db.inspection, NEW body \in [decision : {"approved", "follow_up"}],
               db.inspection[n].status = "pending", Begin(q, "review", "inspection", n, body)
        PROVE  InspectionsHold' /\ Forward("inspection", "n1")
    <3>1. Live(was)
      BY <1>0, <2>1 DEF Live
    <3>2. /\ Followed("inspection", "n1", "inspect")' /\ db' = db /\ Alone(q)
          /\ at'[q].row = was /\ at'[q].body = body
      BY <1>0, <2>1, <3>1, BeginFollowUp
    <3> QED BY <1>0, <1>r, <2>1, <3>2 DEF InspectionsHold, Forward, Alone
  <2>2. ASSUME Doing(q, "review", "write"), NEW row, row = [status |-> at[q].body.decision], Store(q, row, "audit")
        PROVE  InspectionsHold' /\ Forward("inspection", "n1")
    <3>1. /\ at[q].op \in DOMAIN Home /\ at[q].op # "inspect" /\ Home[at[q].op] = "inspection"
          /\ "inspection" \in DOMAIN db /\ "inspect" \in DOMAIN Home /\ Home["inspect"] = "inspection"
          /\ "n1" \in DOMAIN db["inspection"] /\ Followed("inspection", "n1", "inspect") /\ Store(q, row, "audit")
      BY <1>0, <2>2 DEF Doing
    <3>2. Good("inspection", row) /\ row.status \in {"approved", "follow_up"}
      BY <2>2 DEF InspectionsHold, Doing, Good
    <3>3. /\ Followed("inspection", "n1", "inspect")' /\ db'["inspection"]["n1"] = row /\ Onward(q, "audit") /\ cut' = cut
          /\ db["inspection"]["n1"] # at[q].row => <<"inspection", "n1">> \in stale'
      BY <3>1, <3>2, StoreFollowUp
    <3>4. Rank(row.status) >= Rank(was.status)
      <4>1. Good("inspection", was)
        BY <1>0, <3>1, FollowUpReads
      <4> QED BY <3>2, <4>1, RankIs DEF Good
    <3> QED BY <3>3, <3>4 DEF InspectionsHold, Forward, Onward, Alone
  <2> QED BY <1>3, <2>1, <2>2 DEF ReviewInspection, Handler
<1> QED BY <1>1, <1>2, <1>3, StepsOfTables

\* Supervisors who learn the work: who advances or graduates was learning.
TraineesHold ==
  /\ Followed("trainee", "s1", "train")
  /\ \A q \in Requests : at[q].op = "advance" => at[q].row.status = "active"

LEMMA TraineesKept ==
  ASSUME InFlight, Places, TraineesHold, [RecordsNext]_recordVars
  PROVE  TraineesHold' /\ Forward("trainee", "s1")
<1> DEFINE was == db.trainee["s1"]
<1>0. /\ InFlight' /\ {"train", "advance", "graduate"} \subseteq DOMAIN Home
      /\ Home["train"] = "trainee" /\ Home["advance"] = "trainee" /\ Home["graduate"] = "trainee"
      /\ "trainee" \in DOMAIN db /\ DOMAIN db.trainee = {"s1"}
      /\ Followed("trainee", "s1", "train")
  BY InFlightKept, HomeIs DEF Places, TraineesHold
<1>r. Rank(was.status) \in Nat
  <2>1. was = Absent \/ Good("trainee", was)
    BY <1>0 DEF Followed
  <2> QED BY <2>1, RankIs DEF Good, Absent
<1>1. CASE Calm("trainee")
  <2>1. /\ Followed("trainee", "s1", "train")' /\ Forward("trainee", "s1")
        /\ \A q \in Requests : (at'[q] # Idle /\ at'[q].table = "trainee") => at'[q] = at[q]
    BY <1>0, <1>1, <1>r, CalmForward
  <2>2. \A q \in Requests : at'[q].op = "advance" => at'[q] # Idle /\ at'[q].table = "trainee"
    BY <1>0, HomeIs DEF InFlight, Flight, Idle
  <2> QED BY <2>1, <2>2 DEF TraineesHold
<1>2. ASSUME NEW q \in Requests, CreateSupervisorOnboarding(q) PROVE TraineesHold' /\ Forward("trainee", "s1")
  <2>1. ASSUME NEW s \in DOMAIN db.trainee, NEW body, Unused("trainee", s), Begin(q, "train", "trainee", s, body)
        PROVE  TraineesHold' /\ Forward("trainee", "s1")
    <3>1. Followed("trainee", "s1", "train")' /\ db' = db
      BY <1>0, <2>1, BeginReport
    <3>2. Alone(q) /\ at'[q].op = "train"
      BY <2>1, BeginIs
    <3> QED BY <1>r, <3>1, <3>2 DEF TraineesHold, Forward, Alone
  <2>2. ASSUME Doing(q, "train", "write"), NEW row,
               row = [status |-> "active", phase |-> "scheduled_assist"], Put(q, row, "audit")
        PROVE  TraineesHold' /\ Forward("trainee", "s1")
    <3>1. Good("trainee", row)
      BY <2>2 DEF Good
    <3>2. /\ Followed("trainee", "s1", "train")' /\ was = Absent /\ db'.trainee["s1"] = row /\ Onward(q, "audit")
      BY <1>0, <2>2, <3>1, PutReport DEF Owing
    <3>3. Rank(row.status) >= Rank(was.status)
      BY <3>1, <3>2, RankIs DEF Absent, Good
    <3> QED BY <2>2, <3>2, <3>3 DEF TraineesHold, Forward, Onward, Alone, Doing
  <2> QED BY <1>2, <2>1, <2>2 DEF CreateSupervisorOnboarding, Report
<1>3. ASSUME NEW q \in Requests, NEW next \in {"advance", "graduate"}, NEW s \in DOMAIN db.trainee, NEW body,
             db.trainee[s].status = "active", Begin(q, next, "trainee", s, body)
      PROVE  TraineesHold' /\ Forward("trainee", "s1")
  <2>1. Live(was)
    BY <1>0, <1>3 DEF Live
  <2>2. /\ Followed("trainee", "s1", "train")' /\ db' = db /\ Alone(q) /\ at'[q].row = was
    BY <1>0, <1>3, <2>1, BeginFollowUp
  <2> QED BY <1>0, <1>r, <1>3, <2>2 DEF TraineesHold, Forward, Alone
<1>4. ASSUME NEW q \in Requests, at[q].op \in {"advance", "graduate"}, NEW row, Good("trainee", row),
             Store(q, row, "audit"), was = at[q].row => Rank(row.status) >= Rank(was.status)
      PROVE  TraineesHold' /\ Forward("trainee", "s1")
  <2>1. /\ at[q].op \in DOMAIN Home /\ at[q].op # "train" /\ Home[at[q].op] = "trainee"
        /\ "s1" \in DOMAIN db["trainee"]
    BY <1>0, <1>4
  <2>2. /\ Followed("trainee", "s1", "train")' /\ db'["trainee"]["s1"] = row /\ Onward(q, "audit")
        /\ db["trainee"]["s1"] # at[q].row => <<"trainee", "s1">> \in stale'
    BY <1>0, <1>4, <2>1, StoreFollowUp
  <2> QED BY <1>4, <2>2 DEF TraineesHold, Forward, Onward, Alone
<1>5. ASSUME NEW q \in Requests, AdvanceSupervisorPhase(q) PROVE TraineesHold' /\ Forward("trainee", "s1")
  <2>1. ASSUME Doing(q, "advance", "write"), Store(q, [Current(q) EXCEPT !.phase = at[q].body.phase], "audit")
        PROVE  TraineesHold' /\ Forward("trainee", "s1")
    <3>1. Good("trainee", was) /\ Current(q) = was
      BY <1>0, <2>1, FollowUpReads DEF Doing
    <3>2. PICK row, phase : phase = at[q].body.phase /\ row = [was EXCEPT !.phase = phase]
      OBVIOUS
    <3>3. Good("trainee", row) /\ row.status = was.status
      BY <3>1, <3>2 DEF Good
    <3>4. Store(q, row, "audit") /\ Rank(row.status) >= Rank(was.status)
      BY <1>r, <2>1, <3>1, <3>2, <3>3
    <3> QED BY <1>4, <2>1, <3>3, <3>4 DEF Doing
  <2> QED BY <1>3, <1>5, <2>1 DEF AdvanceSupervisorPhase, Handler
<1>6. ASSUME NEW q \in Requests, GraduateSupervisor(q) PROVE TraineesHold' /\ Forward("trainee", "s1")
  <2>1. ASSUME Doing(q, "graduate", "write"), NEW row, row = [status |-> "graduated", phase |-> "graduated"], Store(q, row, "audit")
        PROVE  TraineesHold' /\ Forward("trainee", "s1")
    <3>1. Good("trainee", was)
      BY <1>0, <2>1, FollowUpReads DEF Doing
    <3>2. Good("trainee", row) /\ Rank(row.status) >= Rank(was.status)
      BY <2>1, <3>1, RankIs DEF Good
    <3> QED BY <1>4, <2>1, <3>2 DEF Doing
  <2> QED BY <1>3, <1>6, <2>1 DEF GraduateSupervisor, Handler
<1> QED BY <1>1, <1>2, <1>5, <1>6, StepsOfTables

\* Documents: one that is not linked yet has a request that is about to link it.
LinkDue == cut > 0 \/ \E q \in Requests : at[q].op = "document" /\ at[q].do \in {"media", "link"}
DocumentsHold ==
  /\ Followed("document", "d1", "document")
  /\ db.document["d1"].status \in {"stored", "media"} => LinkDue

LEMMA DocumentsKept ==
  ASSUME InFlight, Places, DocumentsHold, [RecordsNext]_recordVars
  PROVE  DocumentsHold'
<1> DEFINE was == db.document["d1"]
<1>0. /\ InFlight' /\ {"document", "undocument"} \subseteq DOMAIN Home
      /\ Home["document"] = "document" /\ Home["undocument"] = "document"
      /\ "document" \in DOMAIN db /\ DOMAIN db.document = {"d1"} /\ cut \in Nat
      /\ Followed("document", "d1", "document")
  BY InFlightKept, HomeIs DEF Places, DocumentsHold, InFlight
<1>1. CASE Calm("document")
  <2>1. Followed("document", "d1", "document")' /\ db'.document = db.document
    BY <1>0, <1>1, CalmFollowed DEF Calm
  <2>2. LinkDue => LinkDue'
    BY <1>0, <1>1, HomeIs DEF LinkDue, Calm, Apart, Idle
  <2> QED BY <2>1, <2>2 DEF DocumentsHold
<1>2. ASSUME NEW q \in Requests, Alone(q), cut' = cut, ~(at[q].op = "document" /\ at[q].do \in {"media", "link"})
      PROVE  LinkDue => LinkDue'
  BY <1>2 DEF LinkDue, Alone
<1>3. ASSUME NEW q \in Requests, NEW d \in DOMAIN db.document, Unused("document", d), Begin(q, "document", "document", d, <<>>)
      PROVE  DocumentsHold'
  <2>1. Followed("document", "d1", "document")' /\ db' = db
    BY <1>0, <1>3, BeginReport
  <2>2. Alone(q) /\ cut' = cut /\ at[q] = Idle
    BY <1>3, BeginIs
  <2>3. LinkDue => LinkDue'
    BY <1>2, <2>2 DEF Idle
  <2> QED BY <2>1, <2>3 DEF DocumentsHold
<1>4. ASSUME NEW q \in Requests, Doing(q, "document", "write"), Throw(q)
      PROVE  DocumentsHold'
  <2>1. db' = db /\ Alone(q) /\ at'[q] = Idle /\ cut' = cut
    BY <1>0, <1>4, ThrowIs DEF Doing
  <2>2. LinkDue => LinkDue'
    BY <1>2, <1>4, <2>1 DEF Doing
  <2>3. Followed("document", "d1", "document")'
    BY <2>1, <1>0 DEF Followed, At, Alone, Doing, Idle
  <2> QED BY <2>1, <2>2, <2>3 DEF DocumentsHold
<1>5. ASSUME NEW q \in Requests, Doing(q, "document", "write"), NEW row, row = [status |-> "stored"], Put(q, row, "media")
      PROVE  DocumentsHold'
  <2>1. Good("document", row)
    BY <1>5 DEF Good
  <2>2. /\ Followed("document", "d1", "document")' /\ db'.document["d1"] = row /\ Onward(q, "media")
    BY <1>0, <1>5, <2>1, PutReport DEF Owing
  <2>3. LinkDue'
    BY <1>5, <2>2 DEF LinkDue, Onward, Doing
  <2> QED BY <2>2, <2>3 DEF DocumentsHold
<1>6. ASSUME NEW q \in Requests, NEW do \in {"link", "audit"}, NEW status \in {"media", "linked"},
             do = "audit" => status = "linked",
             at[q].op = "document", at[q].do \in {"media", "link"},
             Pass(q, [db EXCEPT !.document[at[q].key].status = status], do)
      PROVE  DocumentsHold'
  <2>1. at[q] # Idle /\ at[q].table = "document" /\ at[q].key = "d1" /\ at[q].op \in DOMAIN Home
    BY <1>0, <1>6 DEF InFlight, Flight, Idle, Followed, At
  <2>2. PICK row : row = [was EXCEPT !.status = status]
    OBVIOUS
  <2>3. Good("document", row) /\ row.status = status
    BY <1>0, <2>2, GoodIsLive DEF Followed, Good, Absent
  <2>4. PICK tables : tables = [db EXCEPT !.document[at[q].key].status = status]
    OBVIOUS
  <2>5. Onward(q, do) /\ cut' = cut /\ db' = tables
    <3>1. Pass(q, tables, do)
      BY <1>6, <2>4
    <3> QED BY <2>1, <3>1, PassIs DEF Owing
  <2>6. db' = [db EXCEPT !["document"]["d1"] = row]
    BY <1>0, <2>1, <2>2, <2>4, <2>5
  <2>7. \A p \in Requests \ {q} : ~Doing(p, "document", "write")
    BY <1>0, <2>1 DEF Followed
  <2>8. Followed("document", "d1", "document")' /\ db'["document"]["d1"] = row
    <3>1. do \in Owing /\ "d1" \in DOMAIN db["document"]
      BY <1>0 DEF Owing
    <3> QED BY <1>0, <2>1, <2>3, <2>5, <2>6, <2>7, <3>1, WriteFollowed
  <2>9. do = "link" => LinkDue'
    BY <1>6, <2>5 DEF LinkDue, Onward
  <2> QED BY <1>6, <2>3, <2>8, <2>9 DEF DocumentsHold
<1>7. ASSUME NEW q \in Requests, CreateDocument(q) PROVE DocumentsHold'
  BY <1>3, <1>4, <1>5, <1>6, <1>7 DEF CreateDocument, Doing
<1>8. ASSUME NEW q \in Requests, DeleteDocument(q) PROVE DocumentsHold'
  <2>1. ASSUME NEW d \in DOMAIN db.document, db.document[d].status = "linked", Begin(q, "undocument", "document", d, <<>>)
        PROVE  DocumentsHold'
    <3>1. Live(was)
      BY <1>0, <2>1 DEF Live
    <3>2. Followed("document", "d1", "document")' /\ db' = db /\ Alone(q) /\ cut' = cut /\ at[q] = Idle
      BY <1>0, <2>1, <3>1, BeginFollowUp
    <3>3. LinkDue => LinkDue'
      BY <1>2, <3>2 DEF Idle
    <3> QED BY <3>2, <3>3 DEF DocumentsHold
  <2>2. ASSUME Doing(q, "undocument", "write"), NEW row, row = [status |-> "hidden"], Store(q, row, "audit")
        PROVE  DocumentsHold'
    <3>1. /\ at[q].op \in DOMAIN Home /\ at[q].op # "document" /\ Home[at[q].op] = "document"
          /\ "document" \in DOMAIN db /\ "document" \in DOMAIN Home /\ Home["document"] = "document"
          /\ "d1" \in DOMAIN db["document"] /\ Followed("document", "d1", "document") /\ Store(q, row, "audit")
      BY <1>0, <2>2 DEF Doing
    <3>2. Good("document", row) /\ row.status = "hidden"
      BY <2>2 DEF Good
    <3>3. /\ Followed("document", "d1", "document")' /\ db'["document"]["d1"] = row /\ Onward(q, "audit") /\ cut' = cut
          /\ db["document"]["d1"] # at[q].row => <<"document", "d1">> \in stale'
      BY <3>1, <3>2, StoreFollowUp
    <3> QED BY <3>2, <3>3 DEF DocumentsHold
  <2> QED BY <1>8, <2>1, <2>2 DEF DeleteDocument, Handler
<1> QED BY <1>1, <1>7, <1>8, StepsOfTables

\* Ramp profiles: while none is open a request is about to add one.
InsertDue == cut > 0 \/ \E q \in Requests : Doing(q, "ramp", "insert")
RampHolds ==
  /\ At("ramp", "rider") /\ "versions" \in DOMAIN db.ramp["rider"]
  /\ (\A v \in db.ramp["rider"].versions : v.to # Forever) => InsertDue

LEMMA RampKept ==
  ASSUME InFlight, Places, RampHolds, [RecordsNext]_recordVars
  PROVE  RampHolds'
<1> DEFINE was == db.ramp["rider"]
<1>0. /\ InFlight' /\ "ramp" \in DOMAIN Home /\ Home["ramp"] = "ramp"
      /\ "ramp" \in DOMAIN db /\ DOMAIN db.ramp = {"rider"} /\ cut \in Nat
  BY InFlightKept, HomeIs DEF Places, InFlight
<1>1. CASE Calm("ramp")
  <2>1. At("ramp", "rider")' /\ db'.ramp = db.ramp
    BY <1>0, <1>1, CalmAt DEF Calm, RampHolds
  <2>2. InsertDue => InsertDue'
    BY <1>0, <1>1, HomeIs DEF InsertDue, Doing, Calm, Apart, Idle
  <2> QED BY <2>1, <2>2 DEF RampHolds
<1>2. ASSUME NEW q \in Requests, NEW c \in DOMAIN db.ramp, NEW body, Begin(q, "ramp", "ramp", c, body) PROVE RampHolds'
  <2>1. Alone(q) /\ db' = db /\ cut' = cut /\ at[q] = Idle /\ at'[q].key = c
    BY <1>2, BeginIs
  <2>2. InsertDue => InsertDue'
    BY <2>1 DEF InsertDue, Doing, Idle, Alone
  <2> QED BY <1>0, <2>1, <2>2 DEF RampHolds, At, Alone
<1>3. ASSUME NEW q \in Requests, at[q].op = "ramp", NEW do \in {"insert", "audit"}, Onward(q, do)
      PROVE  At("ramp", "rider")' /\ at[q].table = "ramp" /\ at[q].key = "rider"
  <2>1. at[q] # Idle /\ at[q].table = "ramp" /\ at[q].key = "rider"
    BY <1>0, <1>3, HomeIs DEF InFlight, Flight, Idle, RampHolds, At
  <2> QED BY <1>3, <2>1 DEF RampHolds, At, Onward, Alone
<1>4. ASSUME NEW q \in Requests, Doing(q, "ramp", "write"), NEW V, Put(q, [Current(q) EXCEPT !.versions = V], "insert")
      PROVE  RampHolds'
  <2>1. PICK row : row = [Current(q) EXCEPT !.versions = V]
    OBVIOUS
  <2>2. Onward(q, "insert") /\ db' = [db EXCEPT ![at[q].table][at[q].key] = row]
    BY <1>0, <1>4, <2>1, PutIs DEF Doing, Owing
  <2>3. At("ramp", "rider")' /\ at[q].table = "ramp" /\ at[q].key = "rider"
    BY <1>3, <1>4, <2>2 DEF Doing
  <2>4. "versions" \in DOMAIN db'.ramp["rider"]
    BY <1>0, <2>1, <2>2, <2>3 DEF Current, RampHolds
  <2>5. InsertDue'
    BY <1>4, <2>2 DEF InsertDue, Doing, Onward
  <2> QED BY <2>3, <2>4, <2>5 DEF RampHolds
<1>5. ASSUME NEW q \in Requests, Doing(q, "ramp", "insert"), NEW n, NEW from,
             Pass(q, [db EXCEPT !.ramp[at[q].key].versions = @ \cup {[n |-> n, from |-> from, to |-> Forever]}], "audit")
      PROVE  RampHolds'
  <2>1. PICK tables : tables = [db EXCEPT !.ramp[at[q].key].versions = @ \cup {[n |-> n, from |-> from, to |-> Forever]}]
    OBVIOUS
  <2>2. Onward(q, "audit") /\ db' = tables
    <3>1. Pass(q, tables, "audit")
      BY <1>5, <2>1
    <3> QED BY <1>0, <1>5, <3>1, PassIs DEF Doing, Owing
  <2>3. At("ramp", "rider")' /\ at[q].key = "rider"
    BY <1>3, <1>5, <2>2 DEF Doing
  <2>4. DOMAIN db'.ramp["rider"] = DOMAIN was /\ db'.ramp["rider"].versions = was.versions \cup {[n |-> n, from |-> from, to |-> Forever]}
    BY <1>0, <2>1, <2>2, <2>3 DEF RampHolds
  <2>5. \E v \in db'.ramp["rider"].versions : v.to = Forever
    <3>1. PICK v : v = [n |-> n, from |-> from, to |-> Forever]
      OBVIOUS
    <3>2. v \in db'.ramp["rider"].versions /\ v.to = Forever
      BY <2>4, <3>1
    <3> QED BY <3>2
  <2> QED BY <2>3, <2>4, <2>5 DEF RampHolds
<1>6. ASSUME NEW q \in Requests, CreateRampProfile(q) PROVE RampHolds'
  <2>1. CASE \E c \in DOMAIN db.ramp, d \in Days : Begin(q, "ramp", "ramp", c, [from |-> d])
    BY <1>2, <2>1
  <2>2. CASE ~\E c \in DOMAIN db.ramp, d \in Days : Begin(q, "ramp", "ramp", c, [from |-> d])
    BY <1>4, <1>5, <1>6, <2>2 DEF CreateRampProfile
  <2> QED BY <2>1, <2>2
<1> QED BY <1>1, <1>6, StepsOfTables

\* Fuel: while a price over the policy has no alert a request is about to raise it.
FuelRow(r) == DOMAIN r = {"status", "over", "flagged"} /\ r.status = "kept" /\ r.over \in BOOLEAN /\ r.flagged \in BOOLEAN
FlagDue == cut > 0 \/ \E q \in Requests : at[q] # Idle /\ at[q].table = "fuel" /\ at[q].do \in {"tell", "flag"} /\ at[q].body.over
FuelHold ==
  /\ At("fuel", "f1")
  /\ db.fuel["f1"] = Absent \/ FuelRow(db.fuel["f1"])
  /\ \A q \in Requests : (at[q] # Idle /\ at[q].table = "fuel") =>
       /\ at[q].body.over \in BOOLEAN
       /\ (at[q].op = "fuel_cost" \/ at[q].do # "write") => FuelRow(db.fuel["f1"])
  /\ (FuelRow(db.fuel["f1"]) /\ db.fuel["f1"].over /\ ~db.fuel["f1"].flagged) => FlagDue

LEMMA FuelKept ==
  ASSUME InFlight, Places, FuelHold, [RecordsNext]_recordVars
  PROVE  FuelHold'
<1> DEFINE was == db.fuel["f1"]
<1>0. /\ InFlight' /\ {"fuel", "fuel_cost"} \subseteq DOMAIN Home /\ Home["fuel"] = "fuel" /\ Home["fuel_cost"] = "fuel"
      /\ "fuel" \in DOMAIN db /\ DOMAIN db.fuel = {"f1"} /\ cut \in Nat
  BY InFlightKept, HomeIs DEF Places, InFlight
<1>1. CASE Calm("fuel")
  <2>1. At("fuel", "f1")' /\ db'.fuel = db.fuel
    BY <1>0, <1>1, CalmAt DEF Calm, FuelHold
  <2>2. FlagDue => FlagDue'
    <3>1. ASSUME NEW q \in Requests, at[q] # Idle, at[q].table = "fuel", at[q].do \in {"tell", "flag"}, at[q].body.over
          PROVE  FlagDue'
      <4>1. ~Apart(at[q], "fuel")
        BY <3>1 DEF Apart, InFlight, Flight
      <4>2. at'[q] = at[q] \/ cut' > 0
        BY <1>1, <3>1, <4>1 DEF Calm
      <4> QED BY <3>1, <4>2 DEF FlagDue
    <3>2. cut > 0 => cut' > 0
      BY <1>0, <1>1 DEF Calm
    <3> QED BY <3>1, <3>2 DEF FlagDue
  <2>3. \A q \in Requests : (at'[q] # Idle /\ at'[q].table = "fuel") => at'[q] = at[q]
    BY <1>0, <1>1, CalmRequests
  <2> QED BY <2>1, <2>2, <2>3 DEF FuelHold
<1>2. ASSUME NEW q \in Requests, NEW op \in {"fuel", "fuel_cost"}, NEW f \in DOMAIN db.fuel, NEW over \in BOOLEAN,
             op = "fuel_cost" => Live(db.fuel[f]), NEW body, body = [over |-> over], Begin(q, op, "fuel", f, body)
      PROVE  FuelHold'
  <2>1. /\ Alone(q) /\ db' = db /\ cut' = cut /\ at[q] = Idle /\ at'[q].key = "f1" /\ at'[q].body = body
        /\ at'[q].op = op /\ at'[q].do = "write"
    BY <1>0, <1>2, BeginIs
  <2>2. body.over \in BOOLEAN
    BY <1>2
  <2>3. op = "fuel_cost" => FuelRow(was)
    BY <1>0, <1>2 DEF FuelHold, Live, Absent
  <2>4. FlagDue => FlagDue'
    BY <2>1 DEF FlagDue, Alone
  <2>5. \A p \in Requests : (at'[p] # Idle /\ at'[p].table = "fuel") =>
          at'[p].key = "f1" /\ at'[p].body.over \in BOOLEAN /\ ((at'[p].op = "fuel_cost" \/ at'[p].do # "write") => FuelRow(was))
    BY <2>1, <2>2, <2>3 DEF FuelHold, At, Alone
  <2> QED BY <2>1, <2>4, <2>5 DEF FuelHold, At
<1>3. ASSUME NEW q \in Requests, NEW op \in {"fuel", "fuel_cost"}, at[q].op = op
      PROVE  /\ at[q] # Idle /\ at[q].table = "fuel" /\ at[q].key = "f1" /\ at[q].op \in DOMAIN Home
             /\ at[q].body.over \in BOOLEAN /\ (at[q].op = "fuel_cost" \/ at[q].do # "write" => FuelRow(was))
  <2>1. at[q] # Idle /\ at[q].table = "fuel" /\ at[q].op \in DOMAIN Home
    BY <1>0, <1>3, HomeIs DEF InFlight, Flight, Idle
  <2> QED BY <2>1 DEF FuelHold, At
\* The row is written and the request goes on with the audit entry.
<1>4. ASSUME NEW q \in Requests, NEW op \in {"fuel", "fuel_cost"}, Doing(q, op, "write"),
             NEW row, FuelRow(row), row.over = at[q].body.over, Put(q, row, "tell")
      PROVE  FuelHold'
  <2>1. at[q] # Idle /\ at[q].table = "fuel" /\ at[q].key = "f1" /\ at[q].op \in DOMAIN Home /\ at[q].body.over \in BOOLEAN
    BY <1>3, <1>4 DEF Doing
  <2>2. Onward(q, "tell") /\ db' = [db EXCEPT !["fuel"]["f1"] = row]
    BY <1>4, <2>1, PutIs DEF Owing
  <2>3. db'.fuel["f1"] = row
    BY <1>0, <2>2
  <2>4. \A p \in Requests : (at'[p] # Idle /\ at'[p].table = "fuel") => at'[p].key = "f1" /\ at'[p].body.over \in BOOLEAN
    BY <2>1, <2>2 DEF FuelHold, At, Onward, Alone
  <2>5. row.over => FlagDue'
    BY <1>4, <2>1, <2>2 DEF FlagDue, Onward
  <2> QED BY <1>4, <2>3, <2>4, <2>5 DEF FuelHold, At
<1>5. ASSUME NEW q \in Requests, Doing(q, "fuel", "write"), Throw(q) PROVE FuelHold'
  <2>1. db' = db /\ Alone(q) /\ at'[q] = Idle /\ cut' = cut /\ at[q].do = "write"
    BY <1>3, <1>5, ThrowIs DEF Doing
  <2>2. FlagDue => FlagDue'
    BY <2>1 DEF FlagDue, Alone
  <2> QED BY <2>1, <2>2 DEF FuelHold, At, Alone
<1>6. ASSUME NEW q \in Requests, NEW op \in {"fuel", "fuel_cost"}, Doing(q, op, "tell"), Tell(q, "flag") PROVE FuelHold'
  <2>1. /\ at[q] # Idle /\ at[q].table = "fuel" /\ at[q].key = "f1" /\ at[q].body.over \in BOOLEAN /\ FuelRow(was)
        /\ at[q].op \in DOMAIN Home
    BY <1>3, <1>6 DEF Doing
  <2>2. db' = db /\ cut' = cut /\ Onward(q, "flag")
    BY <1>6, <2>1, TellIs
  <2>3. FlagDue => FlagDue'
    BY <2>1, <2>2 DEF FlagDue, Onward, Alone
  <2>4. \A p \in Requests : (at'[p] # Idle /\ at'[p].table = "fuel") => at'[p].key = "f1" /\ at'[p].body.over \in BOOLEAN
    BY <2>1, <2>2 DEF FuelHold, At, Onward, Alone
  <2> QED BY <2>1, <2>2, <2>3, <2>4 DEF FuelHold, At
<1>7. ASSUME NEW q \in Requests, NEW op \in {"fuel", "fuel_cost"}, Doing(q, op, "flag"),
             Pass(q, IF at[q].body.over THEN [db EXCEPT !.fuel[at[q].key].flagged = TRUE] ELSE db, "end")
      PROVE  FuelHold'
  <2>1. at[q] # Idle /\ at[q].table = "fuel" /\ at[q].key = "f1" /\ at[q].op \in DOMAIN Home /\ at[q].body.over \in BOOLEAN /\ FuelRow(was)
    BY <1>3, <1>7 DEF Doing
  <2>2. PICK tables : tables = IF at[q].body.over THEN [db EXCEPT !.fuel[at[q].key].flagged = TRUE] ELSE db
    OBVIOUS
  <2>3. db' = tables /\ cut' = cut /\ Alone(q) /\ at'[q] = Idle
    <3>1. Pass(q, tables, "end")
      BY <1>7, <2>2
    <3> QED BY <2>1, <3>1, PassIs
  <2>4. At("fuel", "f1")' /\ \A p \in Requests : (at'[p] # Idle /\ at'[p].table = "fuel") => at'[p].body.over \in BOOLEAN
    BY <2>3 DEF FuelHold, At, Alone
  <2>5. CASE at[q].body.over
    <3>1. db'.fuel["f1"] = [was EXCEPT !.flagged = TRUE]
      BY <1>0, <2>1, <2>2, <2>3, <2>5
    <3>2. PICK row : row = [was EXCEPT !.flagged = TRUE]
      OBVIOUS
    <3>3. FuelRow(row) /\ row.flagged
      BY <2>1, <3>2 DEF FuelRow
    <3> QED BY <2>4, <3>1, <3>2, <3>3 DEF FuelHold
  <2>6. CASE ~at[q].body.over
    <3>1. db' = db
      BY <2>2, <2>3, <2>6
    <3>2. FlagDue => FlagDue'
      BY <2>3, <2>6 DEF FlagDue, Alone
    <3> QED BY <2>1, <2>4, <3>1, <3>2 DEF FuelHold
  <2> QED BY <2>5, <2>6
<1>8. ASSUME NEW q \in Requests, CreateFuelIssue(q) PROVE FuelHold'
  <2>1. CASE \E f \in DOMAIN db.fuel, over \in BOOLEAN : Begin(q, "fuel", "fuel", f, [over |-> over])
    BY <1>2, <2>1
  <2>2. ASSUME Doing(q, "fuel", "write"), ~Live(Current(q)), NEW row,
               row = [status |-> "kept", over |-> at[q].body.over, flagged |-> FALSE], Put(q, row, "tell")
        PROVE  FuelHold'
    <3>1. at[q].body.over \in BOOLEAN
      BY <1>3, <2>2 DEF Doing
    <3>2. FuelRow(row) /\ row.over = at[q].body.over
      BY <2>2, <3>1 DEF FuelRow
    <3>3. Doing(q, "fuel", "write") /\ Put(q, row, "tell")
      BY <2>2
    <3> QED BY <1>4, <3>2, <3>3
  <2> QED BY <1>5, <1>6, <1>7, <1>8, <2>1, <2>2 DEF CreateFuelIssue, Flag
<1>9. ASSUME NEW q \in Requests, UpdateFuelIssue(q) PROVE FuelHold'
  <2>1. CASE \E f \in DOMAIN db.fuel, over \in BOOLEAN : Live(db.fuel[f]) /\ Begin(q, "fuel_cost", "fuel", f, [over |-> over])
    BY <1>2, <2>1
  <2>2. ASSUME Doing(q, "fuel_cost", "write"), Put(q, [Current(q) EXCEPT !.over = at[q].body.over], "tell")
        PROVE  FuelHold'
    <3>1. /\ at[q].body.over \in BOOLEAN /\ FuelRow(was) /\ at[q].table = "fuel" /\ at[q].key = "f1"
      BY <1>3, <2>2 DEF Doing
    <3>2. Current(q) = was
      BY <3>1 DEF Current
    <3>3. PICK over, row : over = at[q].body.over /\ row = [was EXCEPT !.over = over]
      OBVIOUS
    <3>4. FuelRow(row) /\ row.over = at[q].body.over
      BY <3>1, <3>3 DEF FuelRow
    <3>5. Doing(q, "fuel_cost", "write") /\ Put(q, row, "tell")
      BY <2>2, <3>2, <3>3
    <3> QED BY <1>4, <3>4, <3>5
  <2> QED BY <1>6, <1>7, <1>9, <2>1, <2>2 DEF UpdateFuelIssue, Flag
<1> QED BY <1>1, <1>8, <1>9, StepsOfTables

-----------------------------------------------------------------------------
(* What a step may not do.                                                  *)

\* Repairs are reported once; what may follow names a status.
RepairsHold ==
  /\ Followed("repair", "m1", "repair")
  /\ \A q \in Requests : at[q].op = "progress" => at[q].body.status \in {"open", "in_repair", "resolved"}

LEMMA RepairsKept ==
  ASSUME InFlight, Places, RepairsHold, [RecordsNext]_recordVars
  PROVE  RepairsHold'
<1> DEFINE was == db.repair["m1"]
<1>0. /\ InFlight' /\ {"repair", "progress"} \subseteq DOMAIN Home
      /\ Home["repair"] = "repair" /\ Home["progress"] = "repair"
      /\ "repair" \in DOMAIN db /\ DOMAIN db.repair = {"m1"}
      /\ Followed("repair", "m1", "repair")
  BY InFlightKept, HomeIs DEF Places, RepairsHold
<1>1. CASE Calm("repair")
  <2>1. Followed("repair", "m1", "repair")'
    BY <1>0, <1>1, CalmFollowed
  <2>2. \A q \in Requests : at'[q].op = "progress" => at'[q] = at[q]
    BY <1>0, <1>1, HomeIs DEF Calm, Apart, Idle
  <2> QED BY <2>1, <2>2 DEF RepairsHold
<1>2. ASSUME NEW q \in Requests, CreateMaintenanceReport(q) PROVE RepairsHold'
  <2>1. ASSUME NEW m \in DOMAIN db.repair, NEW body, Unused("repair", m), Begin(q, "repair", "repair", m, body)
        PROVE  RepairsHold'
    <3>1. Followed("repair", "m1", "repair")'
      BY <1>0, <2>1, BeginReport
    <3>2. Alone(q) /\ at'[q].op = "repair"
      BY <2>1, BeginIs
    <3> QED BY <3>1, <3>2 DEF RepairsHold, Alone
  <2>2. ASSUME Doing(q, "repair", "write"), NEW row, row = [status |-> "open", cost |-> NoCost], Put(q, row, "audit")
        PROVE  RepairsHold'
    <3>1. Good("repair", row)
      BY <2>2 DEF Good
    <3>2. Followed("repair", "m1", "repair")' /\ Onward(q, "audit")
      BY <1>0, <2>2, <3>1, PutReport DEF Owing
    <3> QED BY <2>2, <3>2 DEF RepairsHold, Onward, Alone, Doing
  <2> QED BY <1>2, <2>1, <2>2 DEF CreateMaintenanceReport, Report
<1>3. ASSUME NEW q \in Requests, UpdateMaintenanceStatus(q) PROVE RepairsHold'
  <2>1. ASSUME NEW m \in DOMAIN db.repair, NEW body, body.status \in {"open", "in_repair", "resolved"},
               Existing(db.repair[m], body), Begin(q, "progress", "repair", m, body)
        PROVE  RepairsHold'
    <3>1. Followed("repair", "m1", "repair")' /\ Alone(q) /\ at'[q].body = body
      <4>1. Live(was)
        BY <1>0, <2>1 DEF Existing
      <4> QED BY <1>0, <2>1, <4>1, BeginFollowUp
    <3> QED BY <2>1, <3>1 DEF RepairsHold, Alone
  <2>2. ASSUME Doing(q, "progress", "write"), NEW cost, NEW row, row = [status |-> at[q].body.status, cost |-> cost], Store(q, row, "audit")
        PROVE  RepairsHold'
    <3>1. /\ at[q].op \in DOMAIN Home /\ at[q].op # "repair" /\ Home[at[q].op] = "repair"
          /\ "repair" \in DOMAIN db /\ "repair" \in DOMAIN Home /\ Home["repair"] = "repair"
          /\ "m1" \in DOMAIN db["repair"] /\ Followed("repair", "m1", "repair") /\ Store(q, row, "audit")
      BY <1>0, <2>2 DEF Doing
    <3>2. Good("repair", row)
      BY <2>2 DEF Good, RepairsHold, Doing
    <3>3. /\ Followed("repair", "m1", "repair")' /\ db'["repair"]["m1"] = row /\ Onward(q, "audit") /\ cut' = cut
          /\ db["repair"]["m1"] # at[q].row => <<"repair", "m1">> \in stale'
      BY <3>1, <3>2, StoreFollowUp
    <3> QED BY <3>3 DEF RepairsHold, Onward, Alone
  <2>3. \A body \in [status : {"open", "in_repair", "resolved"}] \cup [status : {"resolved"}, cost : Costs] :
          body.status \in {"open", "in_repair", "resolved"}
    OBVIOUS
  <2> QED BY <1>3, <2>1, <2>2, <2>3 DEF UpdateMaintenanceStatus, Handler
<1> QED BY <1>1, <1>2, <1>3, StepsOfTables

\* Adjustments: one that has heard of the day has heard that it is open.
PeriodsHold ==
  /\ At("period", "day") /\ DOMAIN db.period["day"] = {"status", "booked"}
  /\ \A q \in Requests : at[q].op = "adjust" => (at[q].body.heard => at[q].row.status = "open")

\* A day that is closed is booked on by whom Payments did not tell.
Booked(d) ==
  (db.period[d].status = "closed" /\ db'.period[d].booked # db.period[d].booked) =>
    \E q \in Requests : Doing(q, "adjust", "write") /\ (Unseen(q) \/ ~at[q].body.heard)

LEMMA PeriodsKept ==
  ASSUME InFlight, Places, PeriodsHold, [RecordsNext]_recordVars
  PROVE  PeriodsHold' /\ Booked("day")
<1> DEFINE was == db.period["day"]
<1>0. /\ InFlight' /\ "adjust" \in DOMAIN Home /\ Home["adjust"] = "period"
      /\ "period" \in DOMAIN db /\ DOMAIN db.period = {"day"}
  BY InFlightKept, HomeIs DEF Places
<1>1. CASE Calm("period")
  <2>1. At("period", "day")' /\ db'.period = db.period
    BY <1>0, <1>1, CalmAt DEF Calm, PeriodsHold
  <2>2. \A q \in Requests : at'[q].op = "adjust" => at'[q] = at[q]
    BY <1>0, <1>1, HomeIs DEF Calm, Apart, Idle
  <2> QED BY <2>1, <2>2 DEF PeriodsHold, Booked
<1>2. CASE ClosePeriod
  <2>1. at' = at
    BY <1>2 DEF ClosePeriod
  <2>2. PICK row : row = [was EXCEPT !.status = "closed"]
    OBVIOUS
  <2>3. db'.period["day"] = row
    BY <1>0, <1>2, <2>2 DEF ClosePeriod
  <2>4. DOMAIN row = {"status", "booked"} /\ row.booked = was.booked
    BY <2>2 DEF PeriodsHold
  <2> QED BY <2>1, <2>3, <2>4 DEF PeriodsHold, Booked, At
<1>3. ASSUME NEW q \in Requests, NEW d \in DOMAIN db.period, NEW body, OpenAsFarAsKnown(db.period[d], body),
             Begin(q, "adjust", "period", d, body)
      PROVE  PeriodsHold' /\ Booked("day")
  <2>1. Alone(q) /\ db' = db /\ at'[q].key = d /\ at'[q].body = body /\ at'[q].row = db.period[d]
    BY <1>3, BeginIs
  <2> QED BY <1>0, <1>3, <2>1 DEF PeriodsHold, Booked, At, Alone, OpenAsFarAsKnown
<1>4. ASSUME NEW q \in Requests, Doing(q, "adjust", "write"), Store(q, [Current(q) EXCEPT !.booked = @ + 1], "audit")
      PROVE  PeriodsHold' /\ Booked("day")
  <2>1. at[q] # Idle /\ at[q].op \in DOMAIN Home /\ at[q].table = "period" /\ at[q].key = "day"
    BY <1>0, <1>4, HomeIs DEF Doing, InFlight, Flight, Idle, PeriodsHold, At
  <2>2. PICK row : row = [was EXCEPT !.booked = @ + 1]
    OBVIOUS
  <2>3. Current(q) = was /\ Read(q) = at[q].row
    BY <2>1 DEF Current, Read
  <2>4. Onward(q, "audit") /\ db' = [db EXCEPT !["period"]["day"] = row]
    <3>1. Store(q, row, "audit")
      BY <1>4, <2>2, <2>3
    <3> QED BY <2>1, <3>1, StoreIs DEF Owing
  <2>5. db'.period["day"] = row /\ DOMAIN row = {"status", "booked"}
    BY <1>0, <2>2, <2>4 DEF PeriodsHold
  <2>6. PeriodsHold'
    BY <2>1, <2>4, <2>5 DEF PeriodsHold, At, Onward, Alone
  <2>7. was.status = "closed" => Unseen(q) \/ ~at[q].body.heard
    BY <1>4, <2>3 DEF PeriodsHold, Doing, Unseen
  <2> QED BY <1>4, <2>6, <2>7 DEF Booked
<1>5. ASSUME NEW q \in Requests, CreateCashAdjustment(q) PROVE PeriodsHold' /\ Booked("day")
  BY <1>3, <1>4, <1>5 DEF CreateCashAdjustment, Handler
<1> QED BY <1>1, <1>2, <1>5, StepsOfTables

\* Distances: a backfill has found no record.
DistancesHold ==
  /\ At("distance", "v1")
  /\ \A q \in Requests : at[q].op = "backfill" => ~Live(at[q].row)
  /\ \A q \in Requests : at[q].op = "capture" => at[q].body.source \in {"live", "manual"}

\* A record that is there is not filled in again.
FilledIn(v) ==
  (Live(db.distance[v]) /\ db'.distance[v] # db.distance[v] /\ db'.distance[v].status = "backfill") =>
    <<"distance", v>> \in stale'

LEMMA DistancesKept ==
  ASSUME InFlight, Places, DistancesHold, [RecordsNext]_recordVars
  PROVE  DistancesHold' /\ FilledIn("v1")
<1> DEFINE was == db.distance["v1"]
<1>0. /\ InFlight' /\ {"capture", "backfill"} \subseteq DOMAIN Home
      /\ Home["capture"] = "distance" /\ Home["backfill"] = "distance"
      /\ "distance" \in DOMAIN db /\ DOMAIN db.distance = {"v1"}
  BY InFlightKept, HomeIs DEF Places
<1>1. CASE Calm("distance")
  <2>1. At("distance", "v1")' /\ db'.distance = db.distance
    BY <1>0, <1>1, CalmAt DEF Calm, DistancesHold
  <2>2. \A q \in Requests : at'[q].op \in {"capture", "backfill"} => at'[q] = at[q]
    BY <1>0, <1>1, HomeIs DEF Calm, Apart, Idle
  <2> QED BY <2>1, <2>2 DEF DistancesHold, FilledIn
<1>2. ASSUME NEW q \in Requests, NEW op \in {"capture", "backfill"}, NEW v \in DOMAIN db.distance, NEW body,
             op = "backfill" => ~Live(db.distance[v]), op = "capture" => body.source \in {"live", "manual"},
             Begin(q, op, "distance", v, body)
      PROVE  DistancesHold' /\ FilledIn("v1")
  <2>1. Alone(q) /\ db' = db /\ at'[q].op = op /\ at'[q].key = v /\ at'[q].body = body /\ at'[q].row = db.distance[v]
    BY <1>2, BeginIs
  <2> QED BY <1>0, <1>2, <2>1 DEF DistancesHold, FilledIn, At, Alone
<1>3. ASSUME NEW q \in Requests, at[q].op \in {"capture", "backfill"}
      PROVE  at[q] # Idle /\ at[q].op \in DOMAIN Home /\ at[q].table = "distance" /\ at[q].key = "v1"
  BY <1>0, <1>3, HomeIs DEF InFlight, Flight, Idle, DistancesHold, At
<1>4. ASSUME NEW q \in Requests, Doing(q, "capture", "write"), Put(q, [status |-> at[q].body.source], "audit")
      PROVE  DistancesHold' /\ FilledIn("v1")
  <2>1. PICK row : row = [status |-> at[q].body.source]
    OBVIOUS
  <2>2. Onward(q, "audit") /\ db' = [db EXCEPT !["distance"]["v1"] = row] /\ at[q] # Idle /\ at[q].table = "distance" /\ at[q].key = "v1"
    <3>1. Put(q, row, "audit")
      BY <1>4, <2>1
    <3>2. at[q].op = "capture" /\ at[q] # Idle /\ at[q].op \in DOMAIN Home /\ at[q].table = "distance" /\ at[q].key = "v1"
      BY <1>3, <1>4 DEF Doing
    <3>3. Onward(q, "audit") /\ db' = [db EXCEPT ![at[q].table][at[q].key] = row]
      BY <3>1, <3>2, PutIs DEF Owing
    <3> QED BY <3>2, <3>3
  <2>3. db'.distance["v1"] = row /\ row.status # "backfill"
    BY <1>0, <1>4, <2>1, <2>2 DEF DistancesHold, Doing
  <2> QED BY <2>2, <2>3 DEF DistancesHold, FilledIn, At, Onward, Alone
<1>5. ASSUME NEW q \in Requests, Doing(q, "backfill", "write"), Store(q, [status |-> "backfill"], "audit")
      PROVE  DistancesHold' /\ FilledIn("v1")
  <2>1. PICK row : row = [status |-> "backfill"]
    OBVIOUS
  <2>2. /\ Onward(q, "audit") /\ at[q] # Idle /\ at[q].table = "distance" /\ at[q].key = "v1"
        /\ stale' = IF Unseen(q) THEN stale \cup {<<"distance", "v1">>} ELSE stale
    <3>1. Store(q, row, "audit")
      BY <1>5, <2>1
    <3> QED BY <1>3, <1>5, <3>1, StoreIs DEF Owing, Doing
  <2>3. Live(was) => Unseen(q)
    <3>1. Current(q) = was /\ Read(q) = at[q].row
      BY <2>2 DEF Current, Read
    <3>2. ~Live(at[q].row)
      BY <1>5 DEF DistancesHold, Doing
    <3> QED BY <3>1, <3>2 DEF Unseen, Live
  <2>4. <<"distance", "v1">> \in stale' \/ ~Live(was)
    BY <2>2, <2>3
  <2>5. DistancesHold'
    BY <2>2 DEF DistancesHold, At, Onward, Alone
  <2> QED BY <2>4, <2>5 DEF FilledIn
<1>6. ASSUME NEW q \in Requests, UpsertRecord(q) PROVE DistancesHold' /\ FilledIn("v1")
  <2>1. \A body \in [source : {"live", "manual"}] : body.source \in {"live", "manual"}
    OBVIOUS
  <2> QED BY <1>2, <1>4, <1>6, <2>1 DEF UpsertRecord, Upsert
<1>7. ASSUME NEW q \in Requests, BackfillMissing(q) PROVE DistancesHold' /\ FilledIn("v1")
  BY <1>2, <1>5, <1>7 DEF BackfillMissing, Handler
<1> QED BY <1>1, <1>6, <1>7, StepsOfTables

\* Daily figures: who corrects one that was there has kept an image of it.
Imaged(row) == \E i \in db.images["day"].of : i.row = row /\ (Authoritative(row) => i.forced)
DailyRow(r) == r = Absent \/ r.status = "kept"
DailyHold ==
  /\ At("daily", "day") /\ "of" \in DOMAIN db.images["day"] /\ DailyRow(db.daily["day"])
  /\ \A q \in Requests : Doing(q, "ingest", "image") => (Authoritative(at[q].row) => at[q].body.override)
  /\ \A q \in Requests : (Doing(q, "ingest", "overwrite") /\ at[q].body.source = "manual" /\ Live(at[q].row)) => Imaged(at[q].row)

\* A correction of a figure that was there has its image.
Traced(d) ==
  (db'.daily[d] # db.daily[d] /\ Live(db.daily[d]) /\ db'.daily[d].source = "manual") =>
    \/ <<"daily", d>> \in stale'
    \/ \E i \in db.images[d].of : i.row = db.daily[d] /\ (Authoritative(db.daily[d]) => i.forced)

LEMMA DailyKept ==
  ASSUME InFlight, Places, DailyHold, [RecordsNext]_recordVars
  PROVE  DailyHold' /\ Traced("day")
<1> DEFINE was == db.daily["day"]
<1>0. /\ InFlight' /\ "ingest" \in DOMAIN Home /\ Home["ingest"] = "daily"
      /\ {"daily", "images", "runs"} \subseteq DOMAIN db /\ DOMAIN db.daily = {"day"} /\ DOMAIN db.images = {"day"}
  BY InFlightKept, HomeIs DEF Places
<1>1. CASE Calm("daily") /\ Calm("images")
  <2>1. At("daily", "day")' /\ db'.daily = db.daily /\ db'.images = db.images
    BY <1>0, <1>1, CalmAt DEF Calm, DailyHold
  <2>2. \A q \in Requests : at'[q].op = "ingest" => at'[q] = at[q]
    BY <1>0, <1>1, HomeIs DEF Calm, Apart, Idle
  <2> QED BY <2>1, <2>2 DEF DailyHold, Traced, Imaged, Doing
<1>2. ASSUME NEW q \in Requests, NEW d \in DOMAIN db.daily, NEW body, NEW do \in {"failed", "image", "overwrite"},
             do = "image" => (Authoritative(was) => body.override),
             (do = "overwrite" /\ body.source = "manual") => ~Live(was),
             Enter(q, "ingest", "daily", d, body, do), db' = [db EXCEPT !.runs["running"].open = @ + 1]
      PROVE  DailyHold' /\ Traced("day")
  <2>1. db'.daily = db.daily /\ db'.images = db.images
    BY <1>0, <1>2
  <2>2. Alone(q) /\ at'[q].do = do /\ at'[q].key = "day" /\ at'[q].body = body /\ at'[q].row = was
    <3>1. at'[q] = [op |-> "ingest", do |-> do, table |-> "daily", key |-> d, body |-> body, row |-> db["daily"][d]]
      BY <1>2 DEF Enter, InFlight
    <3>2. Alone(q)
      BY <1>2 DEF Enter, Alone, InFlight
    <3> QED BY <1>0, <3>1, <3>2
  <2>3. At("daily", "day")'
    BY <2>2 DEF DailyHold, At, Alone
  <2> QED BY <1>2, <2>1, <2>2, <2>3 DEF DailyHold, Traced, Imaged, Doing, Alone
<1>3. ASSUME NEW q \in Requests, at[q].op = "ingest"
      PROVE  at[q] # Idle /\ at[q].op \in DOMAIN Home /\ at[q].table = "daily" /\ at[q].key = "day"
  BY <1>0, <1>3, HomeIs DEF InFlight, Flight, Idle, DailyHold, At
<1>4. ASSUME NEW q \in Requests, Doing(q, "ingest", "image"),
             Pass(q, [db EXCEPT !.images[at[q].key].of = @ \cup {[row |-> Read(q), forced |-> Authoritative(Read(q)) /\ at[q].body.override]}],
                  "overwrite")
      PROVE  DailyHold' /\ Traced("day")
  <2>1. PICK i : i = [row |-> at[q].row, forced |-> Authoritative(at[q].row) /\ at[q].body.override]
    OBVIOUS
  <2>2. PICK tables : tables = [db EXCEPT !.images["day"].of = @ \cup {i}]
    OBVIOUS
  <2>3. at[q] # Idle /\ at[q].op \in DOMAIN Home /\ at[q].table = "daily" /\ at[q].key = "day"
    BY <1>3, <1>4 DEF Doing
  <2>4. Pass(q, tables, "overwrite")
    BY <1>4, <2>1, <2>2, <2>3 DEF Read
  <2>5. Onward(q, "overwrite") /\ db' = tables
    BY <2>3, <2>4, PassIs
  <2>6. db'.daily = db.daily /\ "of" \in DOMAIN db'.images["day"] /\ db'.images["day"].of = db.images["day"].of \cup {i}
    BY <1>0, <2>2, <2>5 DEF DailyHold
  <2>7. \A row : Imaged(row) => Imaged(row)'
    BY <2>6 DEF Imaged
  <2>8. Imaged(at[q].row)'
    <3>1. i.row = at[q].row /\ (Authoritative(at[q].row) => i.forced)
      BY <1>4, <2>1 DEF DailyHold
    <3> QED BY <2>5, <2>6, <3>1 DEF Imaged, Onward
  <2>9. At("daily", "day")'
    BY <2>3, <2>5 DEF DailyHold, At, Onward, Alone
  <2> QED BY <2>5, <2>6, <2>7, <2>8, <2>9 DEF DailyHold, Traced, Doing, Onward, Alone
<1>5. ASSUME NEW q \in Requests, Doing(q, "ingest", "overwrite"), Store(q, Figure(Read(q), at[q].body), "close")
      PROVE  DailyHold' /\ Traced("day")
  <2>1. PICK row : row = Figure(at[q].row, at[q].body)
    OBVIOUS
  <2>2. row.source = at[q].body.source /\ row.status = "kept"
    BY <2>1 DEF Figure
  <2>3. at[q] # Idle /\ at[q].op \in DOMAIN Home /\ at[q].table = "daily" /\ at[q].key = "day"
    BY <1>3, <1>5 DEF Doing
  <2>4. Current(q) = was /\ Read(q) = at[q].row
    BY <2>3 DEF Current, Read
  <2>5. /\ Onward(q, "close") /\ stale' = IF Unseen(q) THEN stale \cup {<<"daily", "day">>} ELSE stale
        /\ db' = [db EXCEPT !["daily"]["day"] = row]
    <3>1. Store(q, row, "close")
      BY <1>5, <2>1, <2>4
    <3>2. /\ Onward(q, "close") /\ stale' = IF Unseen(q) THEN stale \cup {<<at[q].table, at[q].key>>} ELSE stale
          /\ db' = [db EXCEPT ![at[q].table][at[q].key] = row]
      BY <2>3, <3>1, StoreIs DEF Owing
    <3> QED BY <2>3, <3>2
  <2>6. db'.daily["day"] = row /\ db'.images = db.images
    BY <1>0, <2>5
  <2>7. Unseen(q) \/ was = at[q].row
    BY <2>4 DEF Unseen
  <2>8. Unseen(q) => <<"daily", "day">> \in stale'
    BY <2>5
  <2>9. Traced("day")
    BY <1>5, <2>2, <2>6, <2>7, <2>8 DEF Traced, DailyHold, Imaged
  <2>10. DailyHold'
    BY <2>2, <2>3, <2>5, <2>6 DEF DailyHold, DailyRow, Imaged, Doing, At, Onward, Alone
  <2> QED BY <2>9, <2>10
<1>6. ASSUME NEW q \in Requests, at[q].op = "ingest", at[q].do \in {"close", "failed"},
             Pass(q, [db EXCEPT !.runs["running"].open = @ - 1], IF at[q].do = "close" THEN "audit" ELSE "end")
      PROVE  DailyHold' /\ Traced("day")
  <2>1. PICK do, tables : do = (IF at[q].do = "close" THEN "audit" ELSE "end") /\ tables = [db EXCEPT !.runs["running"].open = @ - 1]
    OBVIOUS
  <2>2. Pass(q, tables, do) /\ do \in {"audit", "end"}
    BY <1>6, <2>1
  <2>3. db' = tables /\ Alone(q) /\ (at'[q] = Idle \/ Onward(q, "audit"))
    BY <1>3, <1>6, <2>2, PassIs DEF Owing, Onward
  <2>4. db'.daily = db.daily /\ db'.images = db.images
    BY <1>0, <2>1, <2>3
  <2>5. at'[q].do \in {"start", "audit"} /\ (at'[q] = Idle \/ at'[q].key = "day")
    BY <1>3, <1>6, <2>3 DEF Idle, Onward
  <2> QED BY <2>3, <2>4, <2>5 DEF DailyHold, Traced, Imaged, Doing, At, Alone
<1>7. ASSUME NEW q \in Requests, IngestDailyRecords(q) PROVE DailyHold' /\ Traced("day")
  <2>1. ASSUME NEW d \in DOMAIN db.daily, NEW body,
               Enter(q, "ingest", "daily", d, body,
                     IF Refuses(db.daily[d], body) THEN "failed"
                     ELSE IF body.source = "manual" /\ Live(db.daily[d]) THEN "image" ELSE "overwrite"),
               db' = [db EXCEPT !.runs["running"].open = @ + 1]
        PROVE  DailyHold' /\ Traced("day")
    <3>1. PICK do : do = IF Refuses(db.daily[d], body) THEN "failed"
                         ELSE IF body.source = "manual" /\ Live(db.daily[d]) THEN "image" ELSE "overwrite"
      OBVIOUS
    <3>2. Enter(q, "ingest", "daily", d, body, do)
      BY <2>1, <3>1
    <3>3. /\ do \in {"failed", "image", "overwrite"} /\ (do = "image" => (Authoritative(was) => body.override))
          /\ (do = "overwrite" /\ body.source = "manual") => ~Live(was)
      BY <1>0, <3>1 DEF Refuses
    <3> QED BY <1>2, <2>1, <3>2, <3>3
  <2> QED BY <1>4, <1>5, <1>6, <1>7, <2>1 DEF IngestDailyRecords
<1> QED BY <1>1, <1>7, StepsOfTables

-----------------------------------------------------------------------------
(* The invariant.                                                           *)

RecordsInv ==
  /\ InFlight /\ Places
  /\ CheckinsHold
  /\ VersionsHold("policy") /\ VersionsHold("cohort") /\ ReportsHold
  /\ UntoldBounded /\ CommandsHold /\ RunsHold
  /\ IncidentsHold /\ InspectionsHold /\ TraineesHold /\ DocumentsHold /\ RampHolds /\ FuelHold
  /\ RepairsHold /\ PeriodsHold /\ DistancesHold /\ DailyHold

LEMMA RecordsStep ==
  ASSUME RecordsInv, [RecordsNext]_recordVars
  PROVE  /\ RecordsInv'
         /\ Forward("incident", "i1") /\ Forward("inspection", "n1") /\ Forward("trainee", "s1")
         /\ Booked("day") /\ FilledIn("v1") /\ Traced("day")
BY InFlightKept, PlacesKept, CheckinsKept, VersionsKept, ReportsKept, UntoldKept, CommandsKept, RunsKept,
   IncidentsKept, InspectionsKept, TraineesKept, DocumentsKept, RampKept, FuelKept,
   RepairsKept, PeriodsKept, DistancesKept, DailyKept
   DEF RecordsInv

\* What the body of a request does not name stays as it was read.
Fields == {"cost", "trips", "first", "second", "acceptance", "online"}
Keeps(q, row) ==
  \A f \in Fields \cap DOMAIN Current(q) \cap DOMAIN row : Current(q)[f] = row[f] \/ f \in DOMAIN at[q].body
NamedStep ==
  \A q \in Requests :
    LET Old == Current(q)
        New == db'[at[q].table][at[q].key]
    IN (at[q].do \in {"write", "overwrite"} /\ at'[q] \notin {at[q], Idle} /\ ~Unseen(q)) =>
         \A f \in {"cost", "trips", "first", "second", "acceptance", "online"} \cap DOMAIN Old \cap DOMAIN New :
           Old[f] = New[f] \/ f \in DOMAIN at[q].body

LEMMA HandlersNameFields ==
  ASSUME RecordsInv, NEW q \in Requests
  PROVE  (\/ CreateIncident(q) \/ AcknowledgeIncident(q) \/ UpdateIncidentDetails(q) \/ ResolveIncident(q)
          \/ CreateInspection(q) \/ ReviewInspection(q) \/ CreateMaintenanceReport(q) \/ UpdateMaintenanceStatus(q)
          \/ RequestCheckin(q) \/ DecideCheckin(q)
          \/ CreateSupervisorOnboarding(q) \/ AdvanceSupervisorPhase(q) \/ GraduateSupervisor(q) \/ CreateRampProfile(q)
          \/ CreateDocument(q) \/ DeleteDocument(q) \/ UpsertRecord(q) \/ BackfillMissing(q) \/ ControlBattery(q)
          \/ IngestDailyRecords(q) \/ CreateCashAdjustment(q) \/ CreateDailyCloseout(q)
          \/ UpsertPaymentRecord(q) \/ UpsertPerformanceCashRecord(q) \/ ConfirmNoOnDemand(q)
          \/ GenerateDailyReport(q) \/ DeleteDailyReport(q)
          \/ CreateRevenuePaceProfile(q) \/ CreateEfficiencyPolicy(q) \/ FindOrCreateCohort(q)
          \/ UpdateLeaderboardConfig(q) \/ UpdateFleetPolicy(q) \/ UpdateRevenuePaceProfile(q)
          \/ UpdatePlatformAccount(q) \/ UpdateRampProfile(q) \/ CreateFuelIssue(q) \/ UpdateFuelIssue(q)
          \/ CreateTransferPriceEvent(q) \/ RegisterPlatform(q) \/ CreateExpense(q)
          \/ CreateEconomicsPolicy(q) \/ CreatePlatformAccount(q) \/ AssignMonnifyAccount(q)) => NamedStep
<1>0. InFlight
  BY DEF RecordsInv
<1>a. ASSUME NEW op, Effect(q, op), at[q].do \notin {"write", "overwrite"} \/ at'[q] = Idle PROVE NamedStep
  BY <1>a DEF Effect, NamedStep
<1>t. Throw(q) => at'[q] = Idle
  BY <1>0 DEF Throw, Pass, Goto, InFlight
<1>b. ASSUME NEW row, NEW do \in Owing, Put(q, row, do) \/ Store(q, row, do), at[q].op \in DOMAIN Home, Unseen(q) \/ Keeps(q, row)
      PROVE  NamedStep
  <2>1. Alone(q) /\ db' = [db EXCEPT ![at[q].table][at[q].key] = row]
    BY <1>0, <1>b, PutIs, StoreIs DEF Onward
  <2>2. db'[at[q].table][at[q].key] = row \/ db'[at[q].table][at[q].key] = Current(q)
    BY <2>1 DEF Current
  <2> QED BY <1>b, <2>1, <2>2 DEF NamedStep, Keeps, Fields, Alone
<1>c. ASSUME NEW row, DOMAIN row \cap Fields = {} PROVE Keeps(q, row)
  BY <1>c DEF Keeps
<1>1. ASSUME CreateIncident(q) PROVE NamedStep
  <2>1. CASE at[q].do \notin {"write", "overwrite"}
    BY <1>0, <1>1, <1>a, <2>1, EveryHandler
  <2>2. CASE at[q].do \in {"write", "overwrite"}
    <3> DEFINE made(told) == [status |-> "open", cost |-> Given(at[q].body, "cost", NoCost), told |-> told]
               next(told) == IF told THEN "audit" ELSE "notice"
    <3>0. Doing(q, "incident", "write") /\ \E told \in BOOLEAN : Put(q, made(told), next(told))
      <4>1. ASSUME NEW i, NEW body, Begin(q, "incident", "incident", i, body) PROVE FALSE
        BY <2>2, <4>1 DEF Begin, Enter, Idle
      <4>2. ~Doing(q, "incident", "notice")
        BY <2>2 DEF Doing
      <4> QED BY <1>1, <4>1, <4>2 DEF CreateIncident
    <3>1. PICK told \in BOOLEAN : Put(q, made(told), next(told))
      BY <3>0
    <3> DEFINE row == made(told)
               do == next(told)
    <3>2. Put(q, row, do) /\ at[q].op = "incident"
      BY <3>0, <3>1 DEF Doing
    <3>5. do \in Owing
      BY DEF Owing
    <3> HIDE DEF row, do
    <3>3. Current(q) = Absent
      <4>1. Doing(q, "incident", "write")
        BY <3>0
      <4>2. at[q] # Idle /\ at[q].table = "incident"
        BY <3>2, HomeIs DEF RecordsInv, InFlight, Flight, Idle
      <4> QED BY <4>1, <4>2 DEF RecordsInv, IncidentsHold, Followed, At, Current
    <3>4. Keeps(q, row)
      BY <3>3 DEF Keeps, Fields, Absent
    <3> QED BY <3>2, <3>4, <3>5, <1>b, HomeIs
  <2> QED BY <2>1, <2>2
<1>2. ASSUME AcknowledgeIncident(q) PROVE NamedStep
  <2>1. CASE at[q].do \notin {"write", "overwrite"}
    BY <1>0, <1>2, <1>a, <2>1, EveryHandler
  <2>2. CASE at[q].do \in {"write", "overwrite"}
    <3>1. PICK row : row = [Current(q) EXCEPT !.status = "acknowledged"]
      OBVIOUS
    <3>2. Store(q, row, "audit") /\ at[q].op = "acknowledge"
      BY <1>2, <2>2, <3>1 DEF AcknowledgeIncident, Handler, Doing, Begin, Enter, Idle
    <3>3. Keeps(q, row)
      BY <3>1 DEF Keeps, Fields
    <3> QED BY <3>2, <3>3, <1>b, HomeIs DEF Owing
  <2> QED BY <2>1, <2>2
<1>3. ASSUME UpdateIncidentDetails(q) PROVE NamedStep
  <2>1. CASE at[q].do \notin {"write", "overwrite"}
    BY <1>0, <1>3, <1>a, <2>1, EveryHandler
  <2>2. CASE at[q].do \in {"write", "overwrite"}
    <3>1. PICK row : row = [Current(q) EXCEPT !.cost = Given(at[q].body, "cost", Read(q).cost)]
      OBVIOUS
    <3>2. Store(q, row, "audit") /\ at[q].op = "details"
      BY <1>3, <2>2, <3>1 DEF UpdateIncidentDetails, Handler, Doing, Begin, Enter, Idle
    <3>3. Unseen(q) \/ Keeps(q, row)
      BY <3>1 DEF Unseen, Keeps, Fields, Given
    <3> QED BY <3>2, <3>3, <1>b, HomeIs DEF Owing
  <2> QED BY <2>1, <2>2
<1>4. ASSUME ResolveIncident(q) PROVE NamedStep
  <2>1. CASE at[q].do \notin {"write", "overwrite"}
    BY <1>0, <1>4, <1>a, <2>1, EveryHandler
  <2>2. CASE at[q].do \in {"write", "overwrite"}
    <3>1. PICK row : row = [Current(q) EXCEPT !.status = "resolved", !.cost = Given(at[q].body, "cost", Read(q).cost)]
      OBVIOUS
    <3>2. Store(q, row, "audit") /\ at[q].op = "resolve"
      BY <1>4, <2>2, <3>1 DEF ResolveIncident, Handler, Doing, Begin, Enter, Idle
    <3>3. Unseen(q) \/ Keeps(q, row)
      BY <3>1 DEF Unseen, Keeps, Fields, Given
    <3> QED BY <3>2, <3>3, <1>b, HomeIs DEF Owing
  <2> QED BY <2>1, <2>2
<1>5. ASSUME CreateInspection(q) PROVE NamedStep
  <2>1. CASE at[q].do \notin {"write", "overwrite"}
    BY <1>0, <1>5, <1>a, <2>1, EveryHandler
  <2>2. CASE at[q].do \in {"write", "overwrite"}
    <3>1. PICK row : row = [status |-> IF at[q].body.condition = "ok" THEN "not_required" ELSE "pending"]
      OBVIOUS
    <3>2. Put(q, row, "audit") /\ at[q].op = "inspect"
      BY <1>5, <2>2, <3>1 DEF CreateInspection, Report, Doing, Begin, Enter, Idle
    <3>3. Keeps(q, row)
      BY <3>1, <1>c DEF Fields
    <3> QED BY <3>2, <3>3, <1>b, HomeIs DEF Owing
  <2> QED BY <2>1, <2>2
<1>6. ASSUME ReviewInspection(q) PROVE NamedStep
  <2>1. CASE at[q].do \notin {"write", "overwrite"}
    BY <1>0, <1>6, <1>a, <2>1, EveryHandler
  <2>2. CASE at[q].do \in {"write", "overwrite"}
    <3>1. PICK row : row = [status |-> at[q].body.decision]
      OBVIOUS
    <3>2. Store(q, row, "audit") /\ at[q].op = "review"
      BY <1>6, <2>2, <3>1 DEF ReviewInspection, Handler, Doing, Begin, Enter, Idle
    <3>3. Keeps(q, row)
      BY <3>1, <1>c DEF Fields
    <3> QED BY <3>2, <3>3, <1>b, HomeIs DEF Owing
  <2> QED BY <2>1, <2>2
<1>7. ASSUME CreateMaintenanceReport(q) PROVE NamedStep
  <2>1. CASE at[q].do \notin {"write", "overwrite"}
    BY <1>0, <1>7, <1>a, <2>1, EveryHandler
  <2>2. CASE at[q].do \in {"write", "overwrite"}
    <3>1. PICK row : row = [status |-> "open", cost |-> NoCost]
      OBVIOUS
    <3>2. Put(q, row, "audit") /\ at[q].op = "repair"
      BY <1>7, <2>2, <3>1 DEF CreateMaintenanceReport, Report, Doing, Begin, Enter, Idle
    <3>3. Current(q) = Absent
      <4>1. Doing(q, "repair", "write")
        BY <1>7, <2>2, <3>2 DEF CreateMaintenanceReport, Report, Begin, Enter, Idle, Doing
      <4>2. at[q] # Idle /\ at[q].table = "repair"
        BY <3>2, HomeIs DEF RecordsInv, InFlight, Flight, Idle
      <4> QED BY <4>1, <4>2 DEF RecordsInv, RepairsHold, Followed, At, Current
    <3>4. Keeps(q, row)
      BY <3>3 DEF Keeps, Fields, Absent
    <3> QED BY <3>2, <3>4, <1>b, HomeIs DEF Owing
  <2> QED BY <2>1, <2>2
<1>8. ASSUME UpdateMaintenanceStatus(q) PROVE NamedStep
  <2>1. CASE at[q].do \notin {"write", "overwrite"}
    BY <1>0, <1>8, <1>a, <2>1, EveryHandler
  <2>2. CASE at[q].do \in {"write", "overwrite"}
    <3>1. PICK row : row = [status |-> at[q].body.status, cost |-> Given(at[q].body, "cost", Read(q).cost)]
      OBVIOUS
    <3>2. Store(q, row, "audit") /\ at[q].op = "progress"
      BY <1>8, <2>2, <3>1 DEF UpdateMaintenanceStatus, Handler, Doing, Begin, Enter, Idle
    <3>3. Unseen(q) \/ Keeps(q, row)
      BY <3>1 DEF Unseen, Keeps, Fields, Given
    <3> QED BY <3>2, <3>3, <1>b, HomeIs DEF Owing
  <2> QED BY <2>1, <2>2
<1>9. ASSUME RequestCheckin(q) PROVE NamedStep
  <2>1. CASE at[q].do \notin {"write", "overwrite"}
    BY <1>0, <1>9, <1>a, <2>1, EveryHandler
  <2>2. CASE at[q].do \in {"write", "overwrite"}
    <3>1. PICK row : row = IF Current(q).status = "approved" THEN Current(q)
                          ELSE [status |-> "pending", fence |-> at[q].body.fence,
                                asked |-> IF Live(Current(q)) THEN 3 - Current(q).asked ELSE 1, judged |-> 0]
      OBVIOUS
    <3>2. Put(q, row, "audit") /\ at[q].op = "checkin"
      BY <1>9, <2>2, <3>1 DEF RequestCheckin, Upsert, Doing, Begin, Enter, Idle
    <3>3. Keeps(q, row)
      <4>1. row = Current(q) \/ DOMAIN row = {"status", "fence", "asked", "judged"}
        BY <3>1
      <4> QED BY <4>1, <1>c DEF Keeps, Fields
    <3> QED BY <3>2, <3>3, <1>b, HomeIs DEF Owing
  <2> QED BY <2>1, <2>2
<1>10. ASSUME DecideCheckin(q) PROVE NamedStep
  <2>1. CASE at[q].do \notin {"write", "overwrite"}
    BY <1>0, <1>10, <1>a, <2>1, EveryHandler
  <2>2. CASE at[q].do \in {"write", "overwrite"}
    <3>1. PICK row : row = [Current(q) EXCEPT !.status = at[q].body.decision, !.judged = Read(q).asked]
      OBVIOUS
    <3>2. Store(q, row, "audit") /\ at[q].op = "decide"
      BY <1>10, <2>2, <3>1 DEF DecideCheckin, Handler, Doing, Begin, Enter, Idle
    <3>3. Keeps(q, row)
      BY <3>1 DEF Keeps, Fields
    <3> QED BY <3>2, <3>3, <1>b, HomeIs DEF Owing
  <2> QED BY <2>1, <2>2
<1>11. ASSUME CreateSupervisorOnboarding(q) PROVE NamedStep
  <2>1. CASE at[q].do \notin {"write", "overwrite"}
    BY <1>0, <1>11, <1>a, <2>1, EveryHandler
  <2>2. CASE at[q].do \in {"write", "overwrite"}
    <3>1. PICK row : row = [status |-> "active", phase |-> "scheduled_assist"]
      OBVIOUS
    <3>2. Put(q, row, "audit") /\ at[q].op = "train"
      BY <1>11, <2>2, <3>1 DEF CreateSupervisorOnboarding, Report, Doing, Begin, Enter, Idle
    <3>3. Keeps(q, row)
      BY <3>1, <1>c DEF Fields
    <3> QED BY <3>2, <3>3, <1>b, HomeIs DEF Owing
  <2> QED BY <2>1, <2>2
<1>12. ASSUME AdvanceSupervisorPhase(q) PROVE NamedStep
  <2>1. CASE at[q].do \notin {"write", "overwrite"}
    BY <1>0, <1>12, <1>a, <2>1, EveryHandler
  <2>2. CASE at[q].do \in {"write", "overwrite"}
    <3>1. PICK row : row = [Current(q) EXCEPT !.phase = at[q].body.phase]
      OBVIOUS
    <3>2. Store(q, row, "audit") /\ at[q].op = "advance"
      BY <1>12, <2>2, <3>1 DEF AdvanceSupervisorPhase, Handler, Doing, Begin, Enter, Idle
    <3>3. Keeps(q, row)
      BY <3>1 DEF Keeps, Fields
    <3> QED BY <3>2, <3>3, <1>b, HomeIs DEF Owing
  <2> QED BY <2>1, <2>2
<1>13. ASSUME GraduateSupervisor(q) PROVE NamedStep
  <2>1. CASE at[q].do \notin {"write", "overwrite"}
    BY <1>0, <1>13, <1>a, <2>1, EveryHandler
  <2>2. CASE at[q].do \in {"write", "overwrite"}
    <3>1. PICK row : row = [status |-> "graduated", phase |-> "graduated"]
      OBVIOUS
    <3>2. Store(q, row, "audit") /\ at[q].op = "graduate"
      BY <1>13, <2>2, <3>1 DEF GraduateSupervisor, Handler, Doing, Begin, Enter, Idle
    <3>3. Keeps(q, row)
      BY <3>1, <1>c DEF Fields
    <3> QED BY <3>2, <3>3, <1>b, HomeIs DEF Owing
  <2> QED BY <2>1, <2>2
<1>14. ASSUME CreateRampProfile(q) PROVE NamedStep
  <2>1. CASE at[q].do \notin {"write", "overwrite"}
    BY <1>0, <1>14, <1>a, <2>1, EveryHandler
  <2>2. ASSUME at[q].do \in {"write", "overwrite"}, NEW V, Put(q, [Current(q) EXCEPT !.versions = V], "insert") PROVE NamedStep
    <3>1. PICK row : row = [Current(q) EXCEPT !.versions = V]
      OBVIOUS
    <3>2. Put(q, row, "insert") /\ at[q].op = "ramp"
      BY <1>14, <2>2, <3>1 DEF CreateRampProfile, Doing, Begin, Enter, Idle
    <3>3. Keeps(q, row)
      BY <3>1 DEF Keeps, Fields
    <3> QED BY <3>2, <3>3, <1>b, HomeIs DEF Owing
  <2> QED BY <1>14, <2>1, <2>2 DEF CreateRampProfile, Doing, Begin, Enter, Idle
<1>15. ASSUME CreateDocument(q) PROVE NamedStep
  <2>1. CASE at[q].do \notin {"write", "overwrite"} \/ Throw(q)
    BY <1>0, <1>15, <1>a, <2>1, EveryHandler, <1>t
  <2>2. CASE at[q].do \in {"write", "overwrite"} /\ ~Throw(q)
    <3>1. PICK row : row = [status |-> "stored"]
      OBVIOUS
    <3>2. Put(q, row, "media") /\ at[q].op = "document"
      BY <1>15, <2>2, <3>1 DEF CreateDocument, Doing, Begin, Enter, Idle
    <3>3. Keeps(q, row)
      BY <3>1, <1>c DEF Fields
    <3> QED BY <3>2, <3>3, <1>b, HomeIs DEF Owing
  <2> QED BY <2>1, <2>2
<1>16. ASSUME DeleteDocument(q) PROVE NamedStep
  <2>1. CASE at[q].do \notin {"write", "overwrite"}
    BY <1>0, <1>16, <1>a, <2>1, EveryHandler
  <2>2. CASE at[q].do \in {"write", "overwrite"}
    <3>1. PICK row : row = [status |-> "hidden"]
      OBVIOUS
    <3>2. Store(q, row, "audit") /\ at[q].op = "undocument"
      BY <1>16, <2>2, <3>1 DEF DeleteDocument, Handler, Doing, Begin, Enter, Idle
    <3>3. Keeps(q, row)
      BY <3>1, <1>c DEF Fields
    <3> QED BY <3>2, <3>3, <1>b, HomeIs DEF Owing
  <2> QED BY <2>1, <2>2
<1>17. ASSUME UpsertRecord(q) PROVE NamedStep
  <2>1. CASE at[q].do \notin {"write", "overwrite"}
    BY <1>0, <1>17, <1>a, <2>1, EveryHandler
  <2>2. CASE at[q].do \in {"write", "overwrite"}
    <3>1. PICK row : row = [status |-> at[q].body.source]
      OBVIOUS
    <3>2. Put(q, row, "audit") /\ at[q].op = "capture"
      BY <1>17, <2>2, <3>1 DEF UpsertRecord, Upsert, Doing, Begin, Enter, Idle
    <3>3. Keeps(q, row)
      BY <3>1, <1>c DEF Fields
    <3> QED BY <3>2, <3>3, <1>b, HomeIs DEF Owing
  <2> QED BY <2>1, <2>2
<1>18. ASSUME BackfillMissing(q) PROVE NamedStep
  <2>1. CASE at[q].do \notin {"write", "overwrite"}
    BY <1>0, <1>18, <1>a, <2>1, EveryHandler
  <2>2. CASE at[q].do \in {"write", "overwrite"}
    <3>1. PICK row : row = [status |-> "backfill"]
      OBVIOUS
    <3>2. Store(q, row, "audit") /\ at[q].op = "backfill"
      BY <1>18, <2>2, <3>1 DEF BackfillMissing, Handler, Doing, Begin, Enter, Idle
    <3>3. Keeps(q, row)
      BY <3>1, <1>c DEF Fields
    <3> QED BY <3>2, <3>3, <1>b, HomeIs DEF Owing
  <2> QED BY <2>1, <2>2
<1>19. ASSUME ControlBattery(q) PROVE NamedStep
  <2>1. CASE at[q].do \notin {"write", "overwrite"} \/ Throw(q)
    BY <1>0, <1>19, <1>a, <2>1, EveryHandler, <1>t
  <2>2. CASE at[q].do \in {"write", "overwrite"} /\ ~Throw(q)
    <3>1. PICK row : row = [Current(q) EXCEPT !.status = at[q].body.status, !.unrecorded = @ + 1]
      OBVIOUS
    <3>2. Put(q, row, "record") /\ at[q].op = "power"
      BY <1>19, <2>2, <3>1 DEF ControlBattery, Doing, Begin, Enter, Idle
    <3>3. Keeps(q, row)
      BY <3>1 DEF Keeps, Fields
    <3> QED BY <3>2, <3>3, <1>b, HomeIs DEF Owing
  <2> QED BY <2>1, <2>2
<1>20. ASSUME IngestDailyRecords(q) PROVE NamedStep
  <2>1. CASE at[q].do \notin {"write", "overwrite"}
    BY <1>0, <1>20, <1>a, <2>1, EveryHandler
  <2>2. CASE at[q].do \in {"write", "overwrite"}
    <3>1. PICK row : row = Figure(Read(q), at[q].body)
      OBVIOUS
    <3>2. Store(q, row, "close") /\ at[q].op = "ingest"
      BY <1>20, <2>2, <3>1 DEF IngestDailyRecords, Doing, Begin, Enter, Idle
    <3>3. Unseen(q) \/ Keeps(q, row)
      <4>1. SUFFICES ASSUME ~Unseen(q) PROVE Keeps(q, row)
        OBVIOUS
      <4>2. at[q] # Idle /\ at[q].table = "daily" /\ Read(q) = Current(q)
        BY <3>2, <4>1, HomeIs DEF RecordsInv, InFlight, Flight, Idle, Unseen
      <4>3. DailyRow(Current(q))
        BY <4>2 DEF RecordsInv, DailyHold, At, Current
      <4>4. "trips" \in DOMAIN Current(q) => Live(Current(q))
        BY <4>3 DEF DailyRow, Live, Absent
      <4>5. DOMAIN row = {"status", "source", "trips", "quality"}
            /\ row.trips = Given(at[q].body, "trips", IF Live(Read(q)) THEN Read(q).trips ELSE 0)
        BY <3>1 DEF Figure
      <4> QED BY <4>2, <4>4, <4>5 DEF Keeps, Fields, Given
    <3> QED BY <3>2, <3>3, <1>b, HomeIs DEF Owing
  <2> QED BY <2>1, <2>2
<1>21. ASSUME CreateCashAdjustment(q) PROVE NamedStep
  <2>1. CASE at[q].do \notin {"write", "overwrite"}
    BY <1>0, <1>21, <1>a, <2>1, EveryHandler
  <2>2. CASE at[q].do \in {"write", "overwrite"}
    <3>1. PICK row : row = [Current(q) EXCEPT !.booked = @ + 1]
      OBVIOUS
    <3>2. Store(q, row, "audit") /\ at[q].op = "adjust"
      BY <1>21, <2>2, <3>1 DEF CreateCashAdjustment, Handler, Doing, Begin, Enter, Idle
    <3>3. Keeps(q, row)
      BY <3>1 DEF Keeps, Fields
    <3> QED BY <3>2, <3>3, <1>b, HomeIs DEF Owing
  <2> QED BY <2>1, <2>2
<1>22. ASSUME CreateDailyCloseout(q) PROVE NamedStep
  <2>1. CASE at[q].do \notin {"write", "overwrite"}
    BY <1>0, <1>22, <1>a, <2>1, EveryHandler
  <2>2. CASE at[q].do \in {"write", "overwrite"}
    <3>1. PICK row : row = [status |-> "submitted", cash |-> at[q].body.cash]
      OBVIOUS
    <3>2. Put(q, row, "audit") /\ at[q].op = "closeout"
      BY <1>22, <2>2, <3>1 DEF CreateDailyCloseout, Doing, Begin, Enter, Idle
    <3>3. Keeps(q, row)
      BY <3>1, <1>c DEF Fields
    <3> QED BY <3>2, <3>3, <1>b, HomeIs DEF Owing
  <2> QED BY <2>1, <2>2
<1>23. ASSUME GenerateDailyReport(q) PROVE NamedStep
  <2>1. CASE at[q].do \notin {"write", "overwrite"} \/ Throw(q)
    BY <1>0, <1>23, <1>a, <2>1, EveryHandler, <1>t
  <2>2. CASE at[q].do \in {"write", "overwrite"} /\ ~Throw(q)
    <3>1. PICK row : row = [Current(q) EXCEPT !.of[NextRevision(Read(q))] = @ + 1]
      OBVIOUS
    <3>2. Store(q, row, "audit") /\ at[q].op = "generate"
      BY <1>23, <2>2, <3>1 DEF GenerateDailyReport, Doing, Begin, Enter, Idle
    <3>3. Keeps(q, row)
      BY <3>1 DEF Keeps, Fields
    <3> QED BY <3>2, <3>3, <1>b, HomeIs DEF Owing
  <2> QED BY <2>1, <2>2
<1>24. ASSUME DeleteDailyReport(q) PROVE NamedStep
  <2>1. CASE at[q].do \notin {"write", "overwrite"}
    BY <1>0, <1>24, <1>a, <2>1, EveryHandler
  <2>2. CASE at[q].do \in {"write", "overwrite"}
    <3>1. PICK row : row = [Current(q) EXCEPT !.of[at[q].body.revision] = IF @ = 0 THEN 0 ELSE @ - 1]
      OBVIOUS
    <3>2. Store(q, row, "audit") /\ at[q].op = "ungenerate"
      BY <1>24, <2>2, <3>1 DEF DeleteDailyReport, Doing, Begin, Enter, Idle
    <3>3. Keeps(q, row)
      BY <3>1 DEF Keeps, Fields
    <3> QED BY <3>2, <3>3, <1>b, HomeIs DEF Owing
  <2> QED BY <2>1, <2>2
<1>25. ASSUME UpdateLeaderboardConfig(q) PROVE NamedStep
  <2>1. CASE at[q].do \notin {"write", "overwrite"}
    BY <1>0, <1>25, <1>a, <2>1, EveryHandler
  <2>2. CASE at[q].do \in {"write", "overwrite"}
    <3>1. PICK row : row = Merged(Read(q), at[q].body)
      OBVIOUS
    <3>2. Store(q, row, "audit") /\ at[q].op = "weights"
      BY <1>25, <2>2, <3>1 DEF UpdateLeaderboardConfig, Handler, Doing, Begin, Enter, Idle
    <3>3. Unseen(q) \/ Keeps(q, row)
      BY <3>1 DEF Unseen, Keeps, Fields, Merged, Given
    <3> QED BY <3>2, <3>3, <1>b, HomeIs DEF Owing
  <2> QED BY <2>1, <2>2
<1>26. ASSUME CreateFuelIssue(q) PROVE NamedStep
  <2>1. CASE at[q].do \notin {"write", "overwrite"} \/ Throw(q)
    BY <1>0, <1>26, <1>a, <2>1, EveryHandler, <1>t
  <2>2. CASE at[q].do \in {"write", "overwrite"} /\ ~Throw(q)
    <3>1. PICK row : row = [status |-> "kept", over |-> at[q].body.over, flagged |-> FALSE]
      OBVIOUS
    <3>2. Put(q, row, "tell") /\ at[q].op = "fuel"
      BY <1>26, <2>2, <3>1 DEF CreateFuelIssue, Flag, Doing, Begin, Enter, Idle
    <3>3. Keeps(q, row)
      BY <3>1, <1>c DEF Fields
    <3> QED BY <3>2, <3>3, <1>b, HomeIs DEF Owing
  <2> QED BY <2>1, <2>2
<1>27. ASSUME UpdateFuelIssue(q) PROVE NamedStep
  <2>1. CASE at[q].do \notin {"write", "overwrite"}
    BY <1>0, <1>27, <1>a, <2>1, EveryHandler
  <2>2. CASE at[q].do \in {"write", "overwrite"}
    <3>1. PICK row : row = [Current(q) EXCEPT !.over = at[q].body.over]
      OBVIOUS
    <3>2. Put(q, row, "tell") /\ at[q].op = "fuel_cost"
      BY <1>27, <2>2, <3>1 DEF UpdateFuelIssue, Flag, Doing, Begin, Enter, Idle
    <3>3. Keeps(q, row)
      BY <3>1 DEF Keeps, Fields
    <3> QED BY <3>2, <3>3, <1>b, HomeIs DEF Owing
  <2> QED BY <2>1, <2>2
<1>28. ASSUME AssignMonnifyAccount(q) PROVE NamedStep
  <2>1. CASE at[q].do \notin {"write", "overwrite"} \/ Throw(q)
    BY <1>0, <1>28, <1>a, <2>1, EveryHandler, <1>t
  <2>2. CASE at[q].do \in {"write", "overwrite"} /\ ~Throw(q)
    <3>1. PICK row : row = [status |-> at[q].body.number]
      OBVIOUS
    <3>2. Put(q, row, "audit") /\ at[q].op = "account"
      BY <1>28, <2>2, <3>1 DEF AssignMonnifyAccount, Doing, Begin, Enter, Idle
    <3>3. Keeps(q, row)
      BY <3>1, <1>c DEF Fields
    <3> QED BY <3>2, <3>3, <1>b, HomeIs DEF Owing
  <2> QED BY <2>1, <2>2
<1>29. ASSUME UpsertPaymentRecord(q) \/ UpsertPerformanceCashRecord(q) \/ ConfirmNoOnDemand(q) PROVE NamedStep
  <2>1. PICK op \in {"payment_record", "performance_record", "no_on_demand"} : Effect(q, op) /\ (at[q] = Idle \/ at[q].op = op)
    BY <1>0, <1>29, EveryHandler DEF Effect
  <2>2. CASE at[q].do \notin {"write", "overwrite"}
    BY <1>a, <2>1, <2>2
  <2>3. CASE at[q].do \in {"write", "overwrite"}
    <3>1. PICK row : row = [status |-> "kept", amount |-> at[q].body.amount]
      OBVIOUS
    <3>2. Put(q, row, "audit") /\ at[q].op \in DOMAIN Home
      BY <1>29, <2>1, <2>3, <3>1, HomeIs DEF UpsertPaymentRecord, UpsertPerformanceCashRecord, ConfirmNoOnDemand,
         Total, Doing, Begin, Enter, Idle
    <3>3. Keeps(q, row)
      BY <3>1, <1>c DEF Fields
    <3> QED BY <3>2, <3>3, <1>b DEF Owing
  <2> QED BY <2>2, <2>3
<1>30. ASSUME CreateRevenuePaceProfile(q) \/ CreateEfficiencyPolicy(q) \/ FindOrCreateCohort(q) PROVE NamedStep
  <2>1. PICK op \in {"pace", "efficiency", "cohort"} : Effect(q, op) /\ (at[q] = Idle \/ at[q].op = op)
    BY <1>0, <1>30, EveryHandler DEF Effect
  <2>2. CASE at[q].do \notin {"write", "overwrite"}
    BY <1>a, <2>1, <2>2
  <2>3. CASE at[q].do \in {"write", "overwrite"}
    <3>1. PICK row : row = [Current(q) EXCEPT !.versions = IF Read(q).versions = 0 THEN @ + 1 ELSE @]
      OBVIOUS
    <3>2. Store(q, row, "audit") /\ at[q].op \in DOMAIN Home
      BY <1>30, <2>1, <2>3, <3>1, HomeIs DEF CreateRevenuePaceProfile, CreateEfficiencyPolicy, FindOrCreateCohort,
         Version, Doing, Begin, Enter, Idle
    <3>3. Keeps(q, row)
      BY <3>1 DEF Keeps, Fields
    <3> QED BY <3>2, <3>3, <1>b DEF Owing
  <2> QED BY <2>2, <2>3
<1>31. ASSUME UpdateFleetPolicy(q) \/ UpdateRevenuePaceProfile(q) \/ UpdatePlatformAccount(q) \/ UpdateRampProfile(q) PROVE NamedStep
  <2>1. PICK op \in {"fleet_terms", "pace_terms", "platform_terms", "ramp_terms"} : Effect(q, op) /\ (at[q] = Idle \/ at[q].op = op)
    BY <1>0, <1>31, EveryHandler DEF Effect
  <2>2. CASE at[q].do \notin {"write", "overwrite"}
    BY <1>a, <2>1, <2>2
  <2>3. CASE at[q].do \in {"write", "overwrite"}
    <3>1. PICK row : row = Merged(Read(q), at[q].body)
      OBVIOUS
    <3>2. Store(q, row, "audit") /\ at[q].op \in DOMAIN Home
      BY <1>31, <2>1, <2>3, <3>1, HomeIs DEF UpdateFleetPolicy, UpdateRevenuePaceProfile, UpdatePlatformAccount,
         UpdateRampProfile, Terms, Doing, Begin, Enter, Idle
    <3>3. Unseen(q) \/ Keeps(q, row)
      BY <3>1 DEF Unseen, Keeps, Fields, Merged, Given
    <3> QED BY <3>2, <3>3, <1>b DEF Owing
  <2> QED BY <2>2, <2>3
<1>32. ASSUME CreateExpense(q) \/ CreateEconomicsPolicy(q) \/ CreatePlatformAccount(q) \/ RegisterPlatform(q) \/ CreateTransferPriceEvent(q) PROVE NamedStep
  <2>1. PICK op \in {"expense", "economics", "platform", "registration", "transfer"} : Effect(q, op) /\ (at[q] = Idle \/ at[q].op = op)
    BY <1>0, <1>32, EveryHandler DEF Effect
  <2>2. CASE at[q].do \notin {"write", "overwrite"} \/ Throw(q)
    BY <1>a, <2>1, <2>2, <1>t
  <2>3. CASE at[q].do \in {"write", "overwrite"} /\ ~Throw(q)
    <3>1. PICK row : row = Kept
      OBVIOUS
    <3>2. Put(q, row, "audit") /\ at[q].op \in DOMAIN Home
      BY <1>32, <2>1, <2>3, <3>1, HomeIs DEF CreateExpense, CreateEconomicsPolicy, CreatePlatformAccount,
         RegisterPlatform, CreateTransferPriceEvent, NewEntry, NamedEntry, Doing, Begin, Enter, Idle
    <3>3. Keeps(q, row)
      BY <3>1, <1>c DEF Fields, Kept
    <3> QED BY <3>2, <3>3, <1>b DEF Owing
  <2> QED BY <2>2, <2>3
<1> QED BY <1>1, <1>2, <1>3, <1>4, <1>5, <1>6, <1>7, <1>8, <1>9, <1>10, <1>11, <1>12, <1>13, <1>14, <1>15, <1>16,
           <1>17, <1>18, <1>19, <1>20, <1>21, <1>22, <1>23, <1>24, <1>25, <1>26, <1>27, <1>28, <1>29, <1>30, <1>31,
           <1>32

LEMMA NamesKept ==
  ASSUME RecordsInv, [RecordsNext]_recordVars
  PROVE  NamedStep
<1>0. InFlight
  BY DEF RecordsInv
<1>1. CASE Ride \/ ClosePeriod \/ UNCHANGED recordVars
  BY <1>1 DEF Ride, ClosePeriod, recordVars, NamedStep
<1>2. CASE Restart
  BY <1>2, <1>0, RestartCuts DEF NamedStep
<1>3. ASSUME NEW q \in Requests, Audit(q) PROVE NamedStep
  <2>1. at[q].do = "audit" /\ \A p \in Requests \ {q} : at'[p] = at[p]
    BY <1>0, <1>3, AuditDoes DEF Effect
  <2> QED BY <2>1 DEF NamedStep
<1> QED BY <1>1, <1>2, <1>3, HandlersNameFields DEF RecordsNext, FieldWorkNext, BooksNext

LEMMA HalfDoneFollows ==
  ASSUME RecordsInv
  PROVE  HalfDoneByDeathsOnly
<1> DEFINE bound == cut + Cardinality(Unfinished)
<1>0. /\ cut \in Nat /\ IsFiniteSet(Unfinished) /\ Cardinality(Unfinished) \in Nat /\ bound \in Nat
      /\ InFlight /\ Places
  BY UnfinishedCounted DEF RecordsInv, InFlight
<1>1. \A q \in Requests : at[q].do \notin {"start", "write"} => bound > 0
  <2>1. ASSUME NEW q \in Requests, at[q].do \notin {"start", "write"} PROVE Cardinality(Unfinished) > 0
    <3>1. Unfinished # {}
      BY <2>1 DEF Unfinished
    <3> QED BY <1>0, <3>1, FS_EmptySet
  <2> QED BY <1>0, <2>1
<1>2. cut > 0 => bound > 0
  BY <1>0
<1>3. ASSUME NEW S, S \subseteq Unfinished PROVE Cardinality(S) \in Nat /\ cut + Cardinality(S) <= bound
  BY <1>0, <1>3, FS_Subset, FS_CardinalityType
<1>4. untold <= bound
  <2>1. OwingRequests \subseteq Unfinished
    BY DEF OwingRequests, Unfinished, Owing
  <2> QED BY <1>0, <1>3, <2>1 DEF RecordsInv, UntoldBounded, InFlight
<1>5. db.bike["v1"].unrecorded <= bound
  <2>1. Busy("bike", Recording) \subseteq Unfinished
    BY DEF Busy, Recording, Unfinished
  <2> QED BY <1>0, <1>3, <2>1 DEF RecordsInv, CommandsHold
<1>6. db.runs["running"].open <= bound
  <2>1. Busy("daily", Ingesting) \subseteq Unfinished
    BY DEF Busy, Ingesting, Unfinished
  <2> QED BY <1>0, <1>3, <2>1 DEF RecordsInv, RunsHold
<1>7. Cardinality({k \in DOMAIN db.incident : Live(db.incident[k]) /\ ~db.incident[k].told}) <= bound
  <2> DEFINE S == {k \in DOMAIN db.incident : Live(db.incident[k]) /\ ~db.incident[k].told}
  <2>2. S = {} \/ S = {"i1"}
    BY <1>0 DEF Places
  <2>3. S # {} => NoticeDue
    BY <1>0 DEF RecordsInv, IncidentsHold, Places, Live, Absent
  <2> HIDE DEF S
  <2>4. NoticeDue => bound > 0
    BY <1>1, <1>2 DEF NoticeDue, Doing
  <2>5. ASSUME S = {} PROVE Cardinality(S) <= bound
    BY <1>0, <2>5, FS_EmptySet
  <2>6. ASSUME S = {"i1"} PROVE Cardinality(S) <= bound
    <3>1. bound > 0
      BY <2>3, <2>4, <2>6
    <3>2. Cardinality(S) = 1
      BY <2>6, FS_Singleton
    <3> QED BY <1>0, <3>1, <3>2
  <2>7. Cardinality(S) <= bound
    BY <2>2, <2>5, <2>6
  <2> QED BY <2>7 DEF S
<1>8. Cardinality({k \in DOMAIN db.document : db.document[k].status \in {"stored", "media"}}) <= bound
  <2> DEFINE S == {k \in DOMAIN db.document : db.document[k].status \in {"stored", "media"}}
  <2>2. S = {} \/ S = {"d1"}
    BY <1>0 DEF Places
  <2>3. S # {} => LinkDue
    BY <1>0 DEF RecordsInv, DocumentsHold, Places
  <2> HIDE DEF S
  <2>4. LinkDue => bound > 0
    BY <1>1, <1>2 DEF LinkDue
  <2>5. ASSUME S = {} PROVE Cardinality(S) <= bound
    BY <1>0, <2>5, FS_EmptySet
  <2>6. ASSUME S = {"d1"} PROVE Cardinality(S) <= bound
    <3>1. bound > 0
      BY <2>3, <2>4, <2>6
    <3>2. Cardinality(S) = 1
      BY <2>6, FS_Singleton
    <3> QED BY <1>0, <3>1, <3>2
  <2>7. Cardinality(S) <= bound
    BY <2>2, <2>5, <2>6
  <2> QED BY <2>7 DEF S
<1>9. Cardinality({k \in DOMAIN db.ramp : \A v \in db.ramp[k].versions : v.to # Forever}) <= bound
  <2> DEFINE S == {k \in DOMAIN db.ramp : \A v \in db.ramp[k].versions : v.to # Forever}
  <2>2. S = {} \/ S = {"rider"}
    BY <1>0 DEF Places
  <2>3. S # {} => InsertDue
    BY <1>0 DEF RecordsInv, RampHolds, Places
  <2> HIDE DEF S
  <2>4. InsertDue => bound > 0
    BY <1>1, <1>2 DEF InsertDue, Doing
  <2>5. ASSUME S = {} PROVE Cardinality(S) <= bound
    BY <1>0, <2>5, FS_EmptySet
  <2>6. ASSUME S = {"rider"} PROVE Cardinality(S) <= bound
    <3>1. bound > 0
      BY <2>3, <2>4, <2>6
    <3>2. Cardinality(S) = 1
      BY <2>6, FS_Singleton
    <3> QED BY <1>0, <3>1, <3>2
  <2>7. Cardinality(S) <= bound
    BY <2>2, <2>5, <2>6
  <2> QED BY <2>7 DEF S
<1>10. Cardinality({k \in DOMAIN db.fuel : Live(db.fuel[k]) /\ db.fuel[k].over /\ ~db.fuel[k].flagged}) <= bound
  <2> DEFINE S == {k \in DOMAIN db.fuel : Live(db.fuel[k]) /\ db.fuel[k].over /\ ~db.fuel[k].flagged}
  <2>2. S = {} \/ S = {"f1"}
    BY <1>0 DEF Places
  <2>3. S # {} => FlagDue
    BY <1>0 DEF RecordsInv, FuelHold, Places, Live, Absent
  <2> HIDE DEF S
  <2>4. FlagDue => bound > 0
    BY <1>1, <1>2 DEF FlagDue
  <2>5. ASSUME S = {} PROVE Cardinality(S) <= bound
    BY <1>0, <2>5, FS_EmptySet
  <2>6. ASSUME S = {"f1"} PROVE Cardinality(S) <= bound
    <3>1. bound > 0
      BY <2>3, <2>4, <2>6
    <3>2. Cardinality(S) = 1
      BY <2>6, FS_Singleton
    <3> QED BY <1>0, <3>1, <3>2
  <2>7. Cardinality(S) <= bound
    BY <2>2, <2>5, <2>6
  <2> QED BY <2>7 DEF S
<1> HIDE DEF bound
<1> QED BY <1>4, <1>5, <1>6, <1>7, <1>8, <1>9, <1>10 DEF HalfDoneByDeathsOnly, bound

-----------------------------------------------------------------------------
(* The start.                                                               *)

LEMMA Lookup ==
  ASSUME NEW groups, NEW g \in groups, NEW t \in DOMAIN g, \A h \in groups : t \in DOMAIN h => h = g
  PROVE  t \in DOMAIN Database(groups) /\ Database(groups)[t] = g[t]
<1>1. (CHOOSE h \in groups : t \in DOMAIN h) = g
  OBVIOUS
<1>2. t \in UNION {DOMAIN h : h \in groups}
  OBVIOUS
<1> QED BY <1>1, <1>2 DEF Database

Groups == FieldTables \cup BooksTables

LEMMA GroupsAre ==
  /\ ReportTables \in Groups /\ DOMAIN ReportTables = {"incident", "inspection", "repair"}
  /\ CheckinTable \in Groups /\ DOMAIN CheckinTable = {"checkin"}
  /\ OnboardingTables \in Groups /\ DOMAIN OnboardingTables = {"trainee", "ramp"}
  /\ DocumentTable \in Groups /\ DOMAIN DocumentTable = {"document"}
  /\ BikeTable \in Groups /\ DOMAIN BikeTable = {"bike"}
  /\ DistanceTable \in Groups /\ DOMAIN DistanceTable = {"distance"}
  /\ DailyTables \in Groups /\ DOMAIN DailyTables = {"daily", "images", "runs"}
  /\ CashTables \in Groups /\ DOMAIN CashTables = {"period", "closeout"}
  /\ ReportTable \in Groups /\ DOMAIN ReportTable = {"report"}
  /\ PolicyTables \in Groups /\ DOMAIN PolicyTables = {"policy", "cohort", "fuel"}
  /\ SettingTables \in Groups /\ DOMAIN SettingTables = {"weights", "terms"}
  /\ EntryTables \in Groups /\ DOMAIN EntryTables = {"total", "entry"}
  /\ AccountTable \in Groups /\ DOMAIN AccountTable = {"account"}
  /\ \A g \in Groups : g \in {ReportTables, CheckinTable, OnboardingTables, DocumentTable, BikeTable,
                              DistanceTable, DailyTables, CashTables, ReportTable, PolicyTables,
                              SettingTables, EntryTables, AccountTable}
<1>1. DOMAIN ReportTables = {"incident", "inspection", "repair"}
  BY DEF ReportTables
<1>2. DOMAIN CheckinTable = {"checkin"}
  BY DEF CheckinTable
<1>3. DOMAIN OnboardingTables = {"trainee", "ramp"}
  BY DEF OnboardingTables
<1>4. DOMAIN DocumentTable = {"document"}
  BY DEF DocumentTable
<1>5. DOMAIN BikeTable = {"bike"}
  BY DEF BikeTable
<1>6. DOMAIN DistanceTable = {"distance"}
  BY DEF DistanceTable
<1>7. DOMAIN DailyTables = {"daily", "images", "runs"}
  BY DEF DailyTables
<1>8. DOMAIN CashTables = {"period", "closeout"}
  BY DEF CashTables
<1>9. DOMAIN ReportTable = {"report"}
  BY DEF ReportTable
<1>10. DOMAIN PolicyTables = {"policy", "cohort", "fuel"}
  BY DEF PolicyTables
<1>11. DOMAIN SettingTables = {"weights", "terms"}
  BY DEF SettingTables
<1>12. DOMAIN EntryTables = {"total", "entry"}
  BY DEF EntryTables
<1>13. DOMAIN AccountTable = {"account"}
  BY DEF AccountTable
<1>20. \A g : g \in Groups <=> g \in {ReportTables, CheckinTable, OnboardingTables, DocumentTable, BikeTable,
                                      DistanceTable, DailyTables, CashTables, ReportTable, PolicyTables,
                                      SettingTables, EntryTables, AccountTable}
  BY DEF Groups, FieldTables, BooksTables
<1> QED BY <1>1, <1>2, <1>3, <1>4, <1>5, <1>6, <1>7, <1>8, <1>9, <1>10, <1>11, <1>12, <1>13, <1>20

LEMMA InitTables ==
  ASSUME RecordsInit
  PROVE  Places
         /\ db.incident["i1"] = Absent
         /\ db.inspection["n1"] = Absent
         /\ db.repair["m1"] = Absent
         /\ db.checkin["today"] = Absent
         /\ db.trainee["s1"] = Absent
         /\ db.ramp["rider"] = [status |-> "kept", versions |-> {[n |-> 1, from |-> 1, to |-> Forever]}]
         /\ db.document["d1"] = Absent
         /\ db.bike["v1"] = [status |-> "on", seen |-> "still", unrecorded |-> 0]
         /\ db.distance["v1"] = Absent
         /\ db.daily["day"] = Absent
         /\ db.images["day"] = [status |-> "kept", of |-> {}]
         /\ db.runs["running"] = [status |-> "kept", open |-> 0]
         /\ db.period["day"] = [status |-> "open", booked |-> 0]
         /\ \A a \in {"company", "amoeba"} : db.report[a] = [status |-> "kept", of |-> [r \in 1..LastRevision |-> IF r = 1 THEN 1 ELSE 0]]
         /\ \A p \in {"pace", "efficiency"} : db.policy[p] = NoVersion
         /\ db.cohort["week"] = NoVersion
         /\ db.fuel["f1"] = Absent
<1>0. db = Database(Groups)
  BY DEF RecordsInit, Fresh, Groups
<1>1. "incident" \in DOMAIN db /\ DOMAIN db.incident = {"i1"} /\ db.incident["i1"] = Absent
  <2>1. "incident" \in DOMAIN db /\ db["incident"] = ReportTables["incident"]
    <3>1. ReportTables \in Groups /\ "incident" \in DOMAIN ReportTables /\ \A h \in Groups : "incident" \in DOMAIN h => h = ReportTables
      BY GroupsAre
    <3> QED BY <1>0, <3>1, Lookup
  <2> QED BY <2>1 DEF ReportTables
<1>2. "inspection" \in DOMAIN db /\ DOMAIN db.inspection = {"n1"} /\ db.inspection["n1"] = Absent
  <2>1. "inspection" \in DOMAIN db /\ db["inspection"] = ReportTables["inspection"]
    <3>1. ReportTables \in Groups /\ "inspection" \in DOMAIN ReportTables /\ \A h \in Groups : "inspection" \in DOMAIN h => h = ReportTables
      BY GroupsAre
    <3> QED BY <1>0, <3>1, Lookup
  <2> QED BY <2>1 DEF ReportTables
<1>3. "checkin" \in DOMAIN db /\ DOMAIN db.checkin = {"today"} /\ db.checkin["today"] = Absent
  <2>1. "checkin" \in DOMAIN db /\ db["checkin"] = CheckinTable["checkin"]
    <3>1. CheckinTable \in Groups /\ "checkin" \in DOMAIN CheckinTable /\ \A h \in Groups : "checkin" \in DOMAIN h => h = CheckinTable
      BY GroupsAre
    <3> QED BY <1>0, <3>1, Lookup
  <2> QED BY <2>1 DEF CheckinTable
<1>4. "trainee" \in DOMAIN db /\ DOMAIN db.trainee = {"s1"} /\ db.trainee["s1"] = Absent
  <2>1. "trainee" \in DOMAIN db /\ db["trainee"] = OnboardingTables["trainee"]
    <3>1. OnboardingTables \in Groups /\ "trainee" \in DOMAIN OnboardingTables /\ \A h \in Groups : "trainee" \in DOMAIN h => h = OnboardingTables
      BY GroupsAre
    <3> QED BY <1>0, <3>1, Lookup
  <2> QED BY <2>1 DEF OnboardingTables
<1>5. "ramp" \in DOMAIN db /\ DOMAIN db.ramp = {"rider"} /\ db.ramp["rider"] = [status |-> "kept", versions |-> {[n |-> 1, from |-> 1, to |-> Forever]}]
  <2>1. "ramp" \in DOMAIN db /\ db["ramp"] = OnboardingTables["ramp"]
    <3>1. OnboardingTables \in Groups /\ "ramp" \in DOMAIN OnboardingTables /\ \A h \in Groups : "ramp" \in DOMAIN h => h = OnboardingTables
      BY GroupsAre
    <3> QED BY <1>0, <3>1, Lookup
  <2> QED BY <2>1 DEF OnboardingTables
<1>6. "document" \in DOMAIN db /\ DOMAIN db.document = {"d1"} /\ db.document["d1"] = Absent
  <2>1. "document" \in DOMAIN db /\ db["document"] = DocumentTable["document"]
    <3>1. DocumentTable \in Groups /\ "document" \in DOMAIN DocumentTable /\ \A h \in Groups : "document" \in DOMAIN h => h = DocumentTable
      BY GroupsAre
    <3> QED BY <1>0, <3>1, Lookup
  <2> QED BY <2>1 DEF DocumentTable
<1>7. "bike" \in DOMAIN db /\ DOMAIN db.bike = {"v1"} /\ db.bike["v1"] = [status |-> "on", seen |-> "still", unrecorded |-> 0]
  <2>1. "bike" \in DOMAIN db /\ db["bike"] = BikeTable["bike"]
    <3>1. BikeTable \in Groups /\ "bike" \in DOMAIN BikeTable /\ \A h \in Groups : "bike" \in DOMAIN h => h = BikeTable
      BY GroupsAre
    <3> QED BY <1>0, <3>1, Lookup
  <2> QED BY <2>1 DEF BikeTable
<1>8. "distance" \in DOMAIN db /\ DOMAIN db.distance = {"v1"} /\ db.distance["v1"] = Absent
  <2>1. "distance" \in DOMAIN db /\ db["distance"] = DistanceTable["distance"]
    <3>1. DistanceTable \in Groups /\ "distance" \in DOMAIN DistanceTable /\ \A h \in Groups : "distance" \in DOMAIN h => h = DistanceTable
      BY GroupsAre
    <3> QED BY <1>0, <3>1, Lookup
  <2> QED BY <2>1 DEF DistanceTable
<1>9. "daily" \in DOMAIN db /\ DOMAIN db.daily = {"day"} /\ db.daily["day"] = Absent
  <2>1. "daily" \in DOMAIN db /\ db["daily"] = DailyTables["daily"]
    <3>1. DailyTables \in Groups /\ "daily" \in DOMAIN DailyTables /\ \A h \in Groups : "daily" \in DOMAIN h => h = DailyTables
      BY GroupsAre
    <3> QED BY <1>0, <3>1, Lookup
  <2> QED BY <2>1 DEF DailyTables
<1>10. "images" \in DOMAIN db /\ DOMAIN db.images = {"day"} /\ db.images["day"] = [status |-> "kept", of |-> {}]
  <2>1. "images" \in DOMAIN db /\ db["images"] = DailyTables["images"]
    <3>1. DailyTables \in Groups /\ "images" \in DOMAIN DailyTables /\ \A h \in Groups : "images" \in DOMAIN h => h = DailyTables
      BY GroupsAre
    <3> QED BY <1>0, <3>1, Lookup
  <2> QED BY <2>1 DEF DailyTables
<1>11. "runs" \in DOMAIN db /\ DOMAIN db.runs = {"running"} /\ db.runs["running"] = [status |-> "kept", open |-> 0]
  <2>1. "runs" \in DOMAIN db /\ db["runs"] = DailyTables["runs"]
    <3>1. DailyTables \in Groups /\ "runs" \in DOMAIN DailyTables /\ \A h \in Groups : "runs" \in DOMAIN h => h = DailyTables
      BY GroupsAre
    <3> QED BY <1>0, <3>1, Lookup
  <2> QED BY <2>1 DEF DailyTables
<1>12. "period" \in DOMAIN db /\ DOMAIN db.period = {"day"} /\ db.period["day"] = [status |-> "open", booked |-> 0]
  <2>1. "period" \in DOMAIN db /\ db["period"] = CashTables["period"]
    <3>1. CashTables \in Groups /\ "period" \in DOMAIN CashTables /\ \A h \in Groups : "period" \in DOMAIN h => h = CashTables
      BY GroupsAre
    <3> QED BY <1>0, <3>1, Lookup
  <2> QED BY <2>1 DEF CashTables
<1>13. /\ "report" \in DOMAIN db /\ DOMAIN db.report = {"company", "amoeba"}
       /\ (\A a \in {"company", "amoeba"} : db.report[a] = [status |-> "kept", of |-> [r \in 1..LastRevision |-> IF r = 1 THEN 1 ELSE 0]])
  <2>1. "report" \in DOMAIN db /\ db["report"] = ReportTable["report"]
    <3>1. ReportTable \in Groups /\ "report" \in DOMAIN ReportTable /\ \A h \in Groups : "report" \in DOMAIN h => h = ReportTable
      BY GroupsAre
    <3> QED BY <1>0, <3>1, Lookup
  <2> QED BY <2>1 DEF ReportTable
<1>14. /\ "policy" \in DOMAIN db /\ DOMAIN db.policy = {"pace", "efficiency"}
       /\ (\A p \in {"pace", "efficiency"} : db.policy[p] = NoVersion)
  <2>1. "policy" \in DOMAIN db /\ db["policy"] = PolicyTables["policy"]
    <3>1. PolicyTables \in Groups /\ "policy" \in DOMAIN PolicyTables /\ \A h \in Groups : "policy" \in DOMAIN h => h = PolicyTables
      BY GroupsAre
    <3> QED BY <1>0, <3>1, Lookup
  <2> QED BY <2>1 DEF PolicyTables
<1>15. "cohort" \in DOMAIN db /\ DOMAIN db.cohort = {"week"} /\ db.cohort["week"] = NoVersion
  <2>1. "cohort" \in DOMAIN db /\ db["cohort"] = PolicyTables["cohort"]
    <3>1. PolicyTables \in Groups /\ "cohort" \in DOMAIN PolicyTables /\ \A h \in Groups : "cohort" \in DOMAIN h => h = PolicyTables
      BY GroupsAre
    <3> QED BY <1>0, <3>1, Lookup
  <2> QED BY <2>1 DEF PolicyTables
<1>16. "fuel" \in DOMAIN db /\ DOMAIN db.fuel = {"f1"} /\ db.fuel["f1"] = Absent
  <2>1. "fuel" \in DOMAIN db /\ db["fuel"] = PolicyTables["fuel"]
    <3>1. PolicyTables \in Groups /\ "fuel" \in DOMAIN PolicyTables /\ \A h \in Groups : "fuel" \in DOMAIN h => h = PolicyTables
      BY GroupsAre
    <3> QED BY <1>0, <3>1, Lookup
  <2> QED BY <2>1 DEF PolicyTables
<1>17. "repair" \in DOMAIN db /\ DOMAIN db.repair = {"m1"} /\ db.repair["m1"] = Absent
  <2>1. "repair" \in DOMAIN db /\ db["repair"] = ReportTables["repair"]
    <3>1. ReportTables \in Groups /\ "repair" \in DOMAIN ReportTables /\ \A h \in Groups : "repair" \in DOMAIN h => h = ReportTables
      BY GroupsAre
    <3> QED BY <1>0, <3>1, Lookup
  <2> QED BY <2>1 DEF ReportTables
<1> QED BY <1>17, <1>1, <1>2, <1>3, <1>4, <1>5, <1>6, <1>7, <1>8, <1>9, <1>10, <1>11, <1>12, <1>13, <1>14, <1>15,
           <1>16 DEF Places

LEMMA RecordsStart ==
  ASSUME RecordsInit
  PROVE  RecordsInv
<1>1. /\ at = [q \in Requests |-> Idle] /\ stale = {} /\ untold = 0 /\ cut = 0
      /\ \A q \in Requests : at[q] = Idle
  BY DEF RecordsInit, Fresh
<1>2. InFlight
  BY <1>1 DEF InFlight
<1>3. \A table, key : At(table, key)
  BY <1>1 DEF At
<1>4. \A q \in Requests, op \in DOMAIN Home : at[q].op # op
  BY <1>1, HomeIs DEF Idle
<1>5. \A table, key, op : (op \in DOMAIN Home /\ db[table][key] = Absent) => Followed(table, key, op)
  BY <1>1, <1>3, <1>4 DEF Followed, Doing
<1>6. CheckinsHold
  BY <1>4, InitTables, HomeIs DEF CheckinsHold, CheckinRow, ApprovedAsSeen, Places, Absent, Deciding
<1>7. VersionsHold("policy") /\ VersionsHold("cohort")
  BY <1>1, InitTables DEF VersionsHold, VersionRow, Places, NoVersion
<1>8. ReportsHold
  <2>1. PICK row : row = [status |-> "kept", of |-> [r \in 1..LastRevision |-> IF r = 1 THEN 1 ELSE 0]]
    OBVIOUS
  <2>2. ReportRow(row) /\ \A r \in 1..LastRevision : row.of[r] <= 1
    BY <2>1 DEF ReportRow
  <2>3. \A a \in DOMAIN db.report : db.report[a] = row
    <3>1. DOMAIN db.report = {"company", "amoeba"}
      BY InitTables DEF Places
    <3>2. \A a \in {"company", "amoeba"} : db.report[a] = [status |-> "kept", of |-> [r \in 1..LastRevision |-> IF r = 1 THEN 1 ELSE 0]]
      BY InitTables
    <3> QED BY <2>1, <3>1, <3>2, Zenon
  <2> QED BY <1>1, <2>2, <2>3 DEF ReportsHold
<1>9. UntoldBounded /\ CommandsHold /\ RunsHold
  <2>1. /\ Cardinality(OwingRequests) \in Nat /\ Cardinality(Busy("bike", Recording)) \in Nat
        /\ Cardinality(Busy("daily", Ingesting)) \in Nat
    BY HandlersAssumption, FS_Subset, FS_CardinalityType, BusyCounted DEF OwingRequests
  <2>2. UntoldBounded
    BY <1>1, <2>1 DEF UntoldBounded
  <2>3. CommandsHold
    BY <1>1, <1>3, <2>1, InitTables DEF CommandsHold
  <2>4. RunsHold
    BY <1>1, <2>1, InitTables DEF RunsHold
  <2> QED BY <2>2, <2>3, <2>4
<1>10. IncidentsHold /\ InspectionsHold /\ TraineesHold /\ DocumentsHold
  BY <1>4, <1>5, InitTables, HomeIs DEF IncidentsHold, InspectionsHold, TraineesHold, DocumentsHold, Absent
<1>11. RampHolds
  <2>1. PICK v : v = [n |-> 1, from |-> 1, to |-> Forever]
    OBVIOUS
  <2>2. v.to = Forever /\ db.ramp["rider"] = [status |-> "kept", versions |-> {v}]
    BY <2>1, InitTables
  <2> QED BY <1>3, <2>2 DEF RampHolds
<1>12. FuelHold
  BY <1>1, <1>3, InitTables DEF FuelHold, FuelRow, Absent
<1>13. RepairsHold /\ PeriodsHold /\ DistancesHold
  BY <1>3, <1>4, <1>5, InitTables, HomeIs DEF RepairsHold, PeriodsHold, DistancesHold
<1>14. DailyHold
  BY <1>3, <1>4, InitTables, HomeIs DEF DailyHold, DailyRow, Doing
<1> QED BY <1>2, <1>6, <1>7, <1>8, <1>9, <1>10, <1>11, <1>12, <1>13, <1>14, InitTables DEF RecordsInv

\* The strengthening the theorems below rest on: each request is at one statement
\* of its handler, what the handler has read still holds unless the request was
\* overtaken, and a row half done has a request that will finish it or was left by
\* a death.
THEOREM RecordsInvariant == RecordsSpec => []RecordsInv
<1>1. RecordsInit => RecordsInv
  BY RecordsStart
<1>2. RecordsInv /\ [RecordsNext]_recordVars => RecordsInv'
  BY RecordsStep
<1> QED BY <1>1, <1>2, PTL DEF RecordsSpec

\* A check-in that requestCheckin wrote and decideCheckin approved shows what the
\* supervisor saw (attendance.service.ts): decideCheckin does not look at the
\* status, so only a request that came between the look and the tap is excepted.
THEOREM CheckinsAreAsSeen == RecordsSpec => []ApprovedAsSeen
<1>1. RecordsInv => ApprovedAsSeen
  BY DEF RecordsInv, CheckinsHold
<1> QED BY <1>1, RecordsInvariant, PTL

\* No version of a policy, cohort of a week or revision of a report is stored twice
\* (createEfficiencyPolicy, createRevenuePaceProfile, findOrCreateCohort,
\* generateDailyReport, which look up and then insert), unless requests overlapped.
THEOREM OneOfEach == RecordsSpec => []NothingTwice
<1>1. RecordsInv => NothingTwice
  BY NothingTwiceFollows DEF RecordsInv
<1> QED BY <1>1, RecordsInvariant, PTL

\* The handlers write a row, then its notice, its link, its flag and its audit
\* entry, one statement at a time (audit, createIncident, createDocument,
\* ingestDailyRecords, createRampProfile, controlBattery, flagFuelOverspend): what is
\* half done is being done, or a process that died left it.
THEOREM OnlyDeathsLeaveHalf == RecordsSpec => []HalfDoneByDeathsOnly
<1>1. RecordsInv => HalfDoneByDeathsOnly
  BY HalfDoneFollows
<1> QED BY <1>1, RecordsInvariant, PTL

\* Incidents, inspections and supervisors' learning never go back
\* (acknowledgeIncident, reviewInspection, advanceSupervisorPhase and the handlers
\* beside them), but by a request that was overtaken between its read and its
\* write.
THEOREM StatusesGoForward == RecordsSpec => StatusesMoveForward
<1>1. ASSUME RecordsInv, [RecordsNext]_recordVars
      PROVE  [\A t \in {"incident", "inspection", "trainee"} : \A k \in DOMAIN db[t] :
                Rank(db'[t][k].status) >= Rank(db[t][k].status) \/ <<t, k>> \in stale']_recordVars
  BY <1>1, RecordsStep DEF Forward, RecordsInv, Places
<1> QED BY <1>1, RecordsInvariant, PTL DEF RecordsSpec, StatusesMoveForward

\* The merges (body.field === undefined ? current.field : body.field, and the
\* provided, num and keep of ingestDailyRecords): a request that was not overtaken
\* changes no column its body does not name.
THEOREM UnnamedFieldsStay == RecordsSpec => NamedFieldsOnly
<1>1. ASSUME RecordsInv, [RecordsNext]_recordVars PROVE [NamedStep]_recordVars
  BY <1>1, NamesKept
<1> QED BY <1>1, RecordsInvariant, PTL DEF RecordsSpec, NamedFieldsOnly, NamedStep

\* A day's figure is corrected by hand only with an image of what it was, and with
\* an override where it was authoritative (ingestDailyRecords); the backfill of
\* distances writes over none (backfillMissing), unless either was overtaken.
THEOREM CorrectionsLeaveImages == RecordsSpec => FiguresAreTraced
<1>1. ASSUME RecordsInv, [RecordsNext]_recordVars
      PROVE  [(\A d \in DOMAIN db.daily : Traced(d)) /\ (\A v \in DOMAIN db.distance : FilledIn(v))]_recordVars
  BY <1>1, RecordsStep DEF RecordsInv, Places
<1> QED BY <1>1, RecordsInvariant, PTL DEF RecordsSpec, FiguresAreTraced, Traced, FilledIn

\* No adjustment is booked on a closed day by a createCashAdjustment that had an
\* answer from isAccountingPeriodClosed and was not overtaken by the close.
THEOREM ClosedDaysStay == RecordsSpec => ClosedPeriodIsFixed
<1>1. ASSUME RecordsInv, [RecordsNext]_recordVars PROVE [\A d \in DOMAIN db.period : Booked(d)]_recordVars
  BY <1>1, RecordsStep DEF RecordsInv, Places
<1> QED BY <1>1, RecordsInvariant, PTL DEF RecordsSpec, ClosedPeriodIsFixed, Booked
=============================================================================
