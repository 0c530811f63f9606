--------------------------------- MODULE Jobs ---------------------------------
(***************************************************************************)
(* The scheduled-job ledger of the Ops API: ops_scheduled_job_runs, the     *)
(* schedulers that enqueue runs, the workers that drain them and the        *)
(* endpoint that records a completion from outside.                         *)
(*                                                                         *)
(* A run is a row; its number is its place in created_at order.  Every      *)
(* statement is a step of its own.  A trigger stands for a job name with a  *)
(* scheduler_trigger_id.  Audit entries and record counts are left out.     *)
(***************************************************************************)
EXTENDS Naturals, FiniteSets

CONSTANTS
  Enqueuers,    \* scheduler processes and POST .../scheduled-jobs/:job/runs
  Workers,      \* worker processes, or the drain loop embedded in the API
  Completers,   \* POST .../scheduled-job-runs/:id/complete
  Triggers,
  NoTrigger,
  MaxAttempts,  \* max_attempts of the job
  MaxRuns,      \* bound: rows in the ledger
  MaxOutside,   \* bound: runs that are completed from outside
  MaxFaults     \* bound: process deaths

ASSUME ConstantsAssumption ==
  /\ MaxAttempts \in Nat \ {0}
  /\ MaxRuns \in Nat
  /\ MaxOutside \in Nat
  /\ MaxFaults \in Nat
  /\ NoTrigger \notin Triggers
  /\ Workers \cap Completers = {}
  /\ Enqueuers \cap (Workers \cup Completers) = {}

RunIds    == 1 .. MaxRuns
NoRun     == 0
Finishers == Workers \cup Completers
Processes == Enqueuers \cup Finishers
Settled   == {"completed", "failed"}
Waiting   == {"queued", "retrying"}
RunStatus == {"absent", "running"} \cup Waiting \cup Settled

VARIABLES
  status,       \* [RunIds -> RunStatus]
  attempt,      \* [RunIds -> 0 .. MaxAttempts], the attempt column
  due,          \* [RunIds -> BOOLEAN]: next_retry_at is null or past
  trigger,      \* [RunIds -> Triggers \cup {NoTrigger}]
  starts,       \* [RunIds -> 0 .. MaxAttempts + 1]: how often a worker began to execute it
  outside,      \* the runs that were ever completed from outside
  pc,           \* the statement each process issues next
  run,          \* [Finishers -> RunIds \cup {NoRun}]: the run it works on
  result,       \* [Finishers -> Settled]: the status it will report
  seen,         \* [Finishers -> 0 .. MaxAttempts]: the attempt it read
  wanted,       \* [Enqueuers -> Triggers \cup {NoTrigger}]: no run found for it
  faults

rows   == <<status, attempt, due, trigger>>
locals == <<run, result, seen, wanted>>
counts == <<starts, outside>>
vars   == <<rows, counts, pc, locals, faults>>

Init ==
  /\ status = [r \in RunIds |-> "absent"]
  /\ attempt = [r \in RunIds |-> 0]
  /\ due = [r \in RunIds |-> FALSE]
  /\ trigger = [r \in RunIds |-> NoTrigger]
  /\ starts = [r \in RunIds |-> 0]
  /\ outside = {}
  /\ pc = [p \in Processes |-> "idle"]
  /\ run = [p \in Finishers |-> NoRun]
  /\ result = [p \in Finishers |-> "completed"]
  /\ seen = [p \in Finishers |-> 0]
  /\ wanted = [p \in Enqueuers |-> NoTrigger]
  /\ faults = 0

Goto(p, from, to) == pc[p] = from /\ pc' = [pc EXCEPT ![p] = to]

\* A finisher that returns, throws or dies forgets what it held.
Forget(p) ==
  /\ run' = [run EXCEPT ![p] = NoRun]
  /\ result' = [result EXCEPT ![p] = "completed"]
  /\ seen' = [seen EXCEPT ![p] = 0]
  /\ UNCHANGED wanted

\* starts is counted up to one more than the attempts allowed.
OneMore(n) == IF n > MaxAttempts THEN n ELSE n + 1

Rows == {r \in RunIds : status[r] # "absent"}
Inserting == {e \in Enqueuers : pc[e] = "insert"}

-----------------------------------------------------------------------------
(* enqueueScheduledJob.                                                     *)

\* A trigger that has a run already is answered with that run.
Enqueue(e, t) ==
  /\ Cardinality(Rows) + Cardinality(Inserting) < MaxRuns
  /\ \A r \in Rows : trigger[r] # t
  /\ Goto(e, "idle", "insert")
  /\ wanted' = [wanted EXCEPT ![e] = t]
  /\ UNCHANGED <<rows, counts, run, result, seen, faults>>

\* Nothing in the table makes (job_name, scheduler_trigger_id) unique.
InsertRun(e) ==
  \E r \in RunIds :
    /\ status[r] = "absent"
    /\ \A s \in RunIds : s < r => status[s] # "absent"
    /\ Goto(e, "insert", "idle")
    /\ status' = [status EXCEPT ![r] = "queued"]
    /\ attempt' = [attempt EXCEPT ![r] = 1]
    /\ due' = [due EXCEPT ![r] = TRUE]
    /\ trigger' = [trigger EXCEPT ![r] = wanted[e]]
    /\ wanted' = [wanted EXCEPT ![e] = NoTrigger]
    /\ UNCHANGED <<counts, run, result, seen, faults>>

-----------------------------------------------------------------------------
(* JobRunnerService.                                                        *)

Claimable(r) == status[r] \in Waiting /\ due[r]

\* claimNext, the SELECT: the oldest run that may be taken.
SelectRun(w) ==
  \E r \in RunIds :
    /\ Claimable(r)
    /\ \A s \in RunIds : s < r => ~Claimable(s)
    /\ Goto(w, "idle", "claim")
    /\ run' = [run EXCEPT ![w] = r]
    /\ UNCHANGED <<rows, counts, result, seen, wanted, faults>>

\* Mutant: the UPDATE does not ask for the status again.
ClaimUnchecked(w) ==
  /\ Goto(w, "claim", "execute")
  /\ status' = [status EXCEPT ![run[w]] = "running"]
  /\ starts' = [starts EXCEPT ![run[w]] = OneMore(@)]
  /\ UNCHANGED <<attempt, due, trigger, outside, locals, faults>>

\* ... and the UPDATE, which asks for the status again but not for the date.
\* A worker whose row was taken stops draining until its next poll.
Claim(w) ==
  LET r == run[w] IN
  \/ /\ Goto(w, "claim", "execute")
     /\ status[r] \in Waiting
     /\ status' = [status EXCEPT ![r] = "running"]
     /\ starts' = [starts EXCEPT ![r] = OneMore(@)]
     /\ UNCHANGED <<attempt, due, trigger, outside, locals, faults>>
  \/ /\ Goto(w, "claim", "idle")
     /\ status[r] \notin Waiting
     /\ Forget(w)
     /\ UNCHANGED <<rows, counts, faults>>

\* Mutant: an error of the handler is not caught, and nothing is reported.
ExecuteUncaught(w) ==
  /\ Goto(w, "execute", "idle")
  /\ Forget(w)
  /\ UNCHANGED <<rows, counts, faults>>

\* execute: the handler of the job returns or throws.
Execute(w) ==
  /\ Goto(w, "execute", "read")
  /\ \E x \in Settled : result' = [result EXCEPT ![w] = x]
  /\ UNCHANGED <<rows, counts, run, seen, wanted, faults>>

-----------------------------------------------------------------------------
(* completeScheduledJobRun, by a worker or from outside.                    *)

StartComplete(c) ==
  /\ Cardinality(outside) < MaxOutside
  /\ Goto(c, "idle", "read")
  /\ \E r \in Rows, x \in Settled :
       /\ run' = [run EXCEPT ![c] = r]
       /\ result' = [result EXCEPT ![c] = x]
  /\ UNCHANGED <<rows, counts, seen, wanted, faults>>

ReadRun(p) ==
  /\ Goto(p, "read", "write")
  /\ seen' = [seen EXCEPT ![p] = attempt[run[p]]]
  /\ UNCHANGED <<rows, counts, run, result, wanted, faults>>

ShouldRetry(p) == result[p] = "failed" /\ seen[p] < MaxAttempts

ReportedBy(p) ==
  outside' = IF p \in Completers THEN outside \cup {run[p]} ELSE outside

\* Mutant: whoever reports a failure sends the run back to the queue.
WriteRunQueued(p) ==
  LET r == run[p] IN
  /\ Goto(p, "write", "idle")
  /\ status' = [status EXCEPT ![r] = IF result[p] = "failed" THEN "queued" ELSE "completed"]
  /\ Forget(p)
  /\ ReportedBy(p)
  /\ UNCHANGED <<attempt, due, trigger, starts, faults>>

\* The status the run has by then is not looked at.
WriteRun(p) ==
  LET r == run[p] IN
  /\ Goto(p, "write", "idle")
  /\ status' = [status EXCEPT ![r] = IF ShouldRetry(p) THEN "retrying" ELSE result[p]]
  /\ attempt' = [attempt EXCEPT ![r] = IF ShouldRetry(p) THEN seen[p] + 1 ELSE seen[p]]
  /\ due' = [due EXCEPT ![r] = ~ShouldRetry(p)]
  /\ Forget(p)
  /\ ReportedBy(p)
  /\ UNCHANGED <<trigger, starts, faults>>

\* next_retry_at passes.
DueAgain(r) ==
  /\ status[r] = "retrying" /\ ~due[r]
  /\ due' = [due EXCEPT ![r] = TRUE]
  /\ UNCHANGED <<status, attempt, trigger, counts, pc, locals, faults>>

\* A worker or a completing request dies before or after any statement; a
\* worker whose completion statement throws leaves the ledger the same way.
FinisherDies(p) ==
  /\ pc[p] # "idle"
  /\ faults < MaxFaults
  /\ faults' = faults + 1
  /\ pc' = [pc EXCEPT ![p] = "idle"]
  /\ Forget(p)
  /\ UNCHANGED <<rows, counts>>

\* A scheduler dies between looking for a run and inserting it.
EnqueuerDies(e) ==
  /\ pc[e] # "idle"
  /\ faults < MaxFaults
  /\ faults' = faults + 1
  /\ pc' = [pc EXCEPT ![e] = "idle"]
  /\ wanted' = [wanted EXCEPT ![e] = NoTrigger]
  /\ UNCHANGED <<rows, counts, run, result, seen>>

WorkerStep(w) ==
  SelectRun(w) \/ Claim(w) \/ Execute(w) \/ ReadRun(w) \/ WriteRun(w)

Next ==
  \/ \E e \in Enqueuers :
       InsertRun(e) \/ EnqueuerDies(e) \/ \E t \in Triggers : Enqueue(e, t)
  \/ \E w \in Workers : WorkerStep(w)
  \/ \E c \in Completers : StartComplete(c) \/ ReadRun(c) \/ WriteRun(c)
  \/ \E p \in Finishers : FinisherDies(p)
  \/ \E r \in RunIds : DueAgain(r)

Spec == Init /\ [][Next]_vars

\* Workers poll for ever, a request or tick in flight goes on, time passes.
Fairness ==
  /\ \A w \in Workers : WF_vars(WorkerStep(w))
  /\ \A r \in RunIds : WF_vars(DueAgain(r))
FairSpec == Spec /\ Fairness

-----------------------------------------------------------------------------
TypeOK ==
  /\ status \in [RunIds -> RunStatus]
  /\ attempt \in [RunIds -> 0 .. MaxAttempts]
  /\ due \in [RunIds -> BOOLEAN]
  /\ trigger \in [RunIds -> Triggers \cup {NoTrigger}]
  /\ starts \in [RunIds -> 0 .. MaxAttempts + 1]
  /\ outside \in SUBSET RunIds
  /\ pc \in [Processes -> {"idle", "insert", "claim", "execute", "read", "write"}]
  /\ run \in [Finishers -> RunIds \cup {NoRun}]
  /\ result \in [Finishers -> Settled]
  /\ seen \in [Finishers -> 0 .. MaxAttempts]
  /\ wanted \in [Enqueuers -> Triggers \cup {NoTrigger}]
  /\ faults \in Nat

\* The run a worker has claimed and not yet reported on.
Holds(w, r) == run[w] = r /\ pc[w] \in {"execute", "read", "write"}

\* Two workers never execute the same run at the same time, although both may
\* have selected it, and the run they execute is marked running (claimNext's
\* conditional UPDATE); unless somebody outside completed the run.
OneHolder ==
  \A r \in RunIds \ outside, v, w \in Workers :
    Holds(v, r) => status[r] = "running" /\ (Holds(w, r) => v = w)

\* A run is executed at most max_attempts times: each execution spends one
\* attempt, and a failed report allows one more only below the limit.
ExecutionsBounded ==
  \A r \in RunIds \ outside : starts[r] <= attempt[r] /\ attempt[r] <= MaxAttempts

\* A run that is completed or failed stays as it is, unless somebody outside
\* completes it.
SettledIsFinal ==
  [][\A r \in RunIds \ outside' :
       status[r] \in Settled => status'[r] = status[r]]_status

\* A run that is marked running and that no worker executes: nothing in the
\* code takes it back.
Lost(r) == status[r] = "running" /\ \A w \in Workers : ~Holds(w, r)

\* Every death loses one run at most, the one the worker had claimed; a failed
\* job, a completion from outside or a slow worker loses none.
LostByDeathsOnly == Cardinality({r \in RunIds : Lost(r)}) <= faults

\* Every run that is not lost that way is completed or fails for good in the
\* end, however often its job fails.
RunsSettle ==
  \A r \in RunIds : status[r] # "absent" ~> status[r] \in Settled \/ Lost(r)
=============================================================================
