------------------------------ MODULE JobsProofs ------------------------------
(***************************************************************************)
(* The worker protocol of Jobs, for every number of schedulers, workers,    *)
(* triggers, runs, attempts and deaths.  Completions from outside may touch *)
(* any run; what is proved is about the runs they have not touched.         *)
(***************************************************************************)
EXTENDS Jobs, FiniteSetTheorems, TLAPS

\* Where a process may stand, and which run it works on there.
PcOK ==
  /\ \A e \in Enqueuers : pc[e] \in {"idle", "insert"}
  /\ \A e \in Enqueuers : pc[e] = "insert" => wanted[e] \in Triggers
  /\ \A w \in Workers : pc[w] \in {"idle", "claim", "execute", "read", "write"}
  /\ \A c \in Completers : pc[c] \in {"idle", "read", "write"}
  /\ \A p \in Finishers :
       pc[p] # "idle" => run[p] \in RunIds /\ status[run[p]] # "absent"

\* A run that waits has an attempt it was not yet executed for.
AttemptsLeft ==
  /\ \A r \in outside : status[r] # "absent"
  /\ \A r \in RunIds \ outside :
       /\ starts[r] <= attempt[r]
       /\ status[r] \in Waiting => starts[r] < attempt[r]
       /\ status[r] = "absent" => attempt[r] = 0

\* A worker about to report has read the attempt its run is still at.
SeenIsCurrent ==
  \A w \in Workers :
    pc[w] = "write" /\ run[w] \notin outside => seen[w] = attempt[run[w]]

IInv == TypeOK /\ PcOK /\ OneHolder /\ AttemptsLeft /\ SeenIsCurrent

-----------------------------------------------------------------------------
LEMMA Disjoint ==
  /\ Enqueuers \cap Finishers = {} /\ Workers \cap Completers = {}
  /\ Workers \subseteq Finishers /\ Completers \subseteq Finishers
  /\ Finishers \subseteq Processes
  /\ Enqueuers \subseteq Processes
BY ConstantsAssumption DEF Finishers, Processes

LEMMA InitIInv == Init => IInv
<1> SUFFICES ASSUME Init PROVE IInv
  OBVIOUS
<1> USE ConstantsAssumption, Disjoint DEF Init, NoRun
<1>1. TypeOK
  BY DEF TypeOK, RunStatus, Settled
<1>2. PcOK /\ OneHolder /\ SeenIsCurrent
  BY DEF PcOK, OneHolder, Holds, SeenIsCurrent
<1>3. AttemptsLeft
  BY DEF AttemptsLeft, Waiting
<1> QED BY <1>1, <1>2, <1>3 DEF IInv

\* A step that leaves the ledger and all finishers as they are keeps what is
\* said about them.
LEMMA FinishersUntouched ==
  ASSUME IInv, UNCHANGED <<rows, counts, run, seen>>,
         \A p \in Finishers : pc'[p] = pc[p]
  PROVE  OneHolder' /\ AttemptsLeft' /\ SeenIsCurrent'
         /\ \A p \in Finishers : pc'[p] # "idle" => run'[p] \in RunIds /\ status'[run'[p]] # "absent"
<1> USE Disjoint DEF IInv, rows, counts
<1>1. OneHolder' BY DEF OneHolder, Holds
<1>2. AttemptsLeft' BY DEF AttemptsLeft
<1>3. SeenIsCurrent' BY DEF SeenIsCurrent
<1>4. \A p \in Finishers : pc'[p] # "idle" => run'[p] \in RunIds /\ status'[run'[p]] # "absent"
  BY DEF PcOK
<1> QED BY <1>1, <1>2, <1>3, <1>4

LEMMA EnqueueStep ==
  ASSUME IInv, NEW e \in Enqueuers, NEW t \in Triggers, Enqueue(e, t)
  PROVE  IInv'
<1> USE Disjoint, ConstantsAssumption DEF counts
<1>1. TypeOK' BY DEF IInv, TypeOK, Enqueue, Goto, rows, Processes
<1>2. \A p \in Finishers : pc'[p] = pc[p]
  BY DEF IInv, TypeOK, Enqueue, Goto, Processes
<1>3. OneHolder' /\ AttemptsLeft' /\ SeenIsCurrent'
      /\ \A p \in Finishers : pc'[p] # "idle" => run'[p] \in RunIds /\ status'[run'[p]] # "absent"
  BY <1>2, FinishersUntouched DEF Enqueue
<1>4. PcOK'
  BY <1>2, <1>3 DEF IInv, TypeOK, PcOK, Enqueue, Goto, Processes
<1> QED BY <1>1, <1>3, <1>4 DEF IInv

LEMMA EnqueuerDiesStep ==
  ASSUME IInv, NEW e \in Enqueuers, EnqueuerDies(e)
  PROVE  IInv'
<1> USE Disjoint, ConstantsAssumption DEF counts
<1>1. TypeOK' BY DEF IInv, TypeOK, EnqueuerDies, rows, Processes
<1>2. \A p \in Finishers : pc'[p] = pc[p]
  BY DEF IInv, TypeOK, EnqueuerDies, Processes
<1>3. OneHolder' /\ AttemptsLeft' /\ SeenIsCurrent'
      /\ \A p \in Finishers : pc'[p] # "idle" => run'[p] \in RunIds /\ status'[run'[p]] # "absent"
  BY <1>2, FinishersUntouched DEF EnqueuerDies
<1>4. PcOK'
  BY <1>2, <1>3 DEF IInv, TypeOK, PcOK, EnqueuerDies, Processes
<1> QED BY <1>1, <1>3, <1>4 DEF IInv

LEMMA InsertRunStep ==
  ASSUME IInv, NEW e \in Enqueuers, InsertRun(e)
  PROVE  IInv'
<1> USE Disjoint, ConstantsAssumption DEF IInv, counts
<1>1. PICK r \in RunIds :
        /\ status[r] = "absent"
        /\ Goto(e, "insert", "idle")
        /\ status' = [status EXCEPT ![r] = "queued"]
        /\ attempt' = [attempt EXCEPT ![r] = 1]
        /\ due' = [due EXCEPT ![r] = TRUE]
        /\ trigger' = [trigger EXCEPT ![r] = wanted[e]]
        /\ wanted' = [wanted EXCEPT ![e] = NoTrigger]
        /\ UNCHANGED <<counts, run, result, seen, faults>>
  BY DEF InsertRun
<1>2. TypeOK'
  BY <1>1 DEF TypeOK, Goto, RunStatus, Waiting, Processes
<1>3. \A p \in Finishers : pc'[p] = pc[p]
  BY <1>1 DEF TypeOK, Goto, Processes
<1>4. \A p \in Finishers : pc[p] # "idle" => run[p] # r
  BY <1>1 DEF PcOK
<1>5. PcOK'
  BY <1>1, <1>3, <1>4 DEF TypeOK, PcOK, Goto, Processes
<1>6. OneHolder'
  BY <1>1, <1>3, <1>4 DEF TypeOK, OneHolder, Holds
<1>7. AttemptsLeft'
  <2>1. starts[r] = 0
    BY <1>1 DEF TypeOK, AttemptsLeft
  <2> QED BY <1>1, <2>1 DEF TypeOK, AttemptsLeft, Waiting
<1>8. SeenIsCurrent'
  BY <1>1, <1>3, <1>4 DEF TypeOK, SeenIsCurrent
<1> QED BY <1>2, <1>5, <1>6, <1>7, <1>8

LEMMA SelectRunStep ==
  ASSUME IInv, NEW w \in Workers, SelectRun(w)
  PROVE  IInv'
<1> USE Disjoint, ConstantsAssumption DEF IInv, counts
<1>1. PICK r \in RunIds :
        /\ status[r] \in Waiting
        /\ Goto(w, "idle", "claim")
        /\ run' = [run EXCEPT ![w] = r]
        /\ UNCHANGED <<rows, counts, result, seen, wanted, faults>>
  BY DEF SelectRun, Claimable
<1>2. TypeOK'
  BY <1>1 DEF TypeOK, Goto, Processes, rows
<1>3. pc' = [pc EXCEPT ![w] = "claim"] /\ UNCHANGED <<status, attempt, counts, seen, wanted>>
  BY <1>1 DEF Goto, rows
<1>4. PcOK'
  BY <1>1, <1>3 DEF TypeOK, PcOK, Processes, Waiting
<1>5. OneHolder'
  BY <1>1, <1>3 DEF TypeOK, OneHolder, Holds, Processes
<1>6. AttemptsLeft' /\ SeenIsCurrent'
  BY <1>1, <1>3 DEF TypeOK, AttemptsLeft, SeenIsCurrent, Processes
<1> QED BY <1>2, <1>4, <1>5, <1>6

\* A finisher that goes idle forgets its run, and nothing else changes.
LEMMA GoesIdle ==
  ASSUME IInv, NEW p \in Finishers, Forget(p), pc' = [pc EXCEPT ![p] = "idle"],
         UNCHANGED <<rows, counts>>, faults' \in Nat
  PROVE  IInv'
<1> USE Disjoint, ConstantsAssumption DEF IInv, counts
<1>1. TypeOK'
  BY DEF TypeOK, Forget, Processes, Settled, rows
<1>2. PcOK'
  BY DEF TypeOK, PcOK, Forget, Processes, Finishers, rows
<1>3. OneHolder'
  BY DEF TypeOK, OneHolder, Holds, Forget, Processes, Finishers, rows
<1>4. AttemptsLeft'
  BY DEF AttemptsLeft, rows
<1>5. SeenIsCurrent'
  BY DEF TypeOK, SeenIsCurrent, Forget, Processes, Finishers, rows
<1> QED BY <1>1, <1>2, <1>3, <1>4, <1>5

LEMMA ClaimStep ==
  ASSUME IInv, NEW w \in Workers, Claim(w)
  PROVE  IInv'
<1> USE Disjoint, ConstantsAssumption DEF IInv, counts
<1>1. CASE pc[w] = "claim" /\ status[run[w]] \in Waiting /\ pc' = [pc EXCEPT ![w] = "execute"]
           /\ status' = [status EXCEPT ![run[w]] = "running"]
           /\ starts' = [starts EXCEPT ![run[w]] = OneMore(@)]
           /\ UNCHANGED <<attempt, due, trigger, outside, locals, faults>>
  <2> DEFINE r == run[w]
  <2>1. r \in RunIds /\ status[r] \in Waiting
    BY <1>1 DEF PcOK
  <2>2. starts[r] \in 0 .. MaxAttempts + 1 /\ attempt[r] \in 0 .. MaxAttempts
    BY <2>1 DEF TypeOK
  <2>3. OneMore(starts[r]) \in 0 .. MaxAttempts + 1
    BY <2>2 DEF OneMore
  <2>4. r \notin outside => OneMore(starts[r]) = starts[r] + 1 /\ starts[r] < attempt[r]
    BY <2>1, <2>2 DEF OneMore, AttemptsLeft
  <2> DEFINE more == OneMore(starts[r])
  <2>5. starts' = [starts EXCEPT ![r] = more]
    BY <1>1, <2>1 DEF TypeOK
  <2> HIDE DEF more
  <2> USE <1>1, <2>1, <2>2, <2>5
  <2>6. TypeOK'
    BY <2>3 DEF TypeOK, RunStatus, locals, Processes, more
  <2>7. PcOK'
    BY DEF TypeOK, PcOK, locals, Processes, Waiting
  <2>8. r \notin outside => \A v \in Workers : ~Holds(v, r)
    BY DEF OneHolder, Waiting
  <2>9. OneHolder'
    BY <2>8 DEF TypeOK, OneHolder, Holds, locals, Processes
  <2>10. AttemptsLeft'
    <3>1. \A s \in RunIds : s # r => status'[s] = status[s] /\ starts'[s] = starts[s]
      BY DEF TypeOK
    <3>2. r \notin outside => starts'[r] <= attempt[r]
      BY <2>4 DEF TypeOK, more
    <3>3. status'[r] = "running"
      BY DEF TypeOK
    <3> QED BY <3>1, <3>2, <3>3 DEF AttemptsLeft, Waiting, TypeOK
  <2>11. SeenIsCurrent'
    BY DEF TypeOK, SeenIsCurrent, locals, Processes
  <2> QED BY <2>6, <2>7, <2>9, <2>10, <2>11
<1>2. CASE Goto(w, "claim", "idle") /\ Forget(w) /\ UNCHANGED <<rows, counts, faults>>
  <2>1. faults' \in Nat
    BY <1>2 DEF TypeOK
  <2> QED BY <1>2, <2>1, GoesIdle DEF Goto
<1> QED BY <1>1, <1>2 DEF Claim, Goto

LEMMA ExecuteStep ==
  ASSUME IInv, NEW w \in Workers, Execute(w)
  PROVE  IInv'
<1> USE Disjoint, ConstantsAssumption DEF IInv, counts
<1>1. PICK x \in Settled :
        /\ pc[w] = "execute" /\ pc' = [pc EXCEPT ![w] = "read"]
        /\ result' = [result EXCEPT ![w] = x]
        /\ UNCHANGED <<status, attempt, due, trigger, counts, run, seen, wanted, faults>>
  BY DEF Execute, Goto, rows
<1>2. TypeOK'
  BY <1>1 DEF TypeOK, Processes
<1>3. PcOK'
  BY <1>1 DEF TypeOK, PcOK, Processes
<1>4. OneHolder'
  BY <1>1 DEF TypeOK, OneHolder, Holds, Processes
<1>5. AttemptsLeft' /\ SeenIsCurrent'
  BY <1>1 DEF TypeOK, AttemptsLeft, SeenIsCurrent, Processes
<1> QED BY <1>2, <1>3, <1>4, <1>5

LEMMA StartCompleteStep ==
  ASSUME IInv, NEW c \in Completers, StartComplete(c)
  PROVE  IInv'
<1> USE Disjoint, ConstantsAssumption DEF IInv, counts
<1>1. PICK r \in Rows, x \in Settled :
        /\ pc[c] = "idle" /\ pc' = [pc EXCEPT ![c] = "read"]
        /\ run' = [run EXCEPT ![c] = r]
        /\ result' = [result EXCEPT ![c] = x]
        /\ UNCHANGED <<status, attempt, due, trigger, counts, seen, wanted, faults>>
  BY DEF StartComplete, Goto, rows
<1>2. r \in RunIds /\ status[r] # "absent"
  BY DEF Rows
<1>3. c \notin Workers /\ c \notin Enqueuers /\ c \in Processes
  BY DEF Processes
<1>4. TypeOK'
  BY <1>1, <1>2 DEF TypeOK, Processes
<1>5. PcOK'
  BY <1>1, <1>2, <1>3 DEF TypeOK, PcOK, Processes, Finishers
<1>6. \A w \in Workers : pc'[w] = pc[w] /\ run'[w] = run[w]
  BY <1>1, <1>3 DEF TypeOK, Processes
<1>7. OneHolder'
  BY <1>1, <1>6 DEF OneHolder, Holds
<1>8. AttemptsLeft' /\ SeenIsCurrent'
  BY <1>1, <1>6 DEF AttemptsLeft, SeenIsCurrent
<1> QED BY <1>4, <1>5, <1>7, <1>8

LEMMA ReadRunStep ==
  ASSUME IInv, NEW p \in Finishers, ReadRun(p)
  PROVE  IInv'
<1> USE Disjoint, ConstantsAssumption DEF IInv, counts
<1>1. /\ pc[p] = "read" /\ pc' = [pc EXCEPT ![p] = "write"]
      /\ seen' = [seen EXCEPT ![p] = attempt[run[p]]]
      /\ UNCHANGED <<status, attempt, due, trigger, counts, run, result, wanted, faults>>
  BY DEF ReadRun, Goto, rows
<1>2. run[p] \in RunIds
  BY <1>1 DEF PcOK
<1>3. TypeOK'
  BY <1>1, <1>2 DEF TypeOK, Processes
<1>4. PcOK'
  BY <1>1 DEF TypeOK, PcOK, Processes
<1>5. OneHolder'
  BY <1>1 DEF TypeOK, OneHolder, Holds, Processes
<1>6. AttemptsLeft'
  BY <1>1 DEF TypeOK, AttemptsLeft
<1>7. SeenIsCurrent'
  BY <1>1, <1>2 DEF TypeOK, SeenIsCurrent, Processes
<1> QED BY <1>3, <1>4, <1>5, <1>6, <1>7

\* Whoever writes a run that counts as untouched afterwards is the worker that
\* holds it, and writes back the attempt it is still at.
LEMMA WriterHolds ==
  ASSUME IInv, NEW p \in Finishers, WriteRun(p), run[p] \notin outside'
  PROVE  /\ run[p] \notin outside /\ p \in Workers
         /\ Holds(p, run[p]) /\ status[run[p]] = "running"
         /\ \A v \in Workers : v # p => ~Holds(v, run[p])
         /\ seen[p] = attempt[run[p]]
<1> USE Disjoint DEF IInv
<1>1. p \notin Completers /\ run[p] \notin outside
  BY DEF WriteRun, ReportedBy
<1>2. p \in Workers
  BY <1>1 DEF Finishers
<1>3. pc[p] = "write" /\ run[p] \in RunIds
  BY DEF WriteRun, Goto, PcOK
<1>4. Holds(p, run[p])
  BY <1>3 DEF Holds
<1> QED BY <1>1, <1>2, <1>3, <1>4 DEF OneHolder, SeenIsCurrent

LEMMA WriteRunStep ==
  ASSUME IInv, NEW p \in Finishers, WriteRun(p)
  PROVE  IInv'
<1> USE Disjoint, ConstantsAssumption DEF IInv, counts
<1> DEFINE r == run[p]
           again == ShouldRetry(p)
<1>1. /\ pc[p] = "write" /\ pc' = [pc EXCEPT ![p] = "idle"]
      /\ status' = [status EXCEPT ![r] = IF again THEN "retrying" ELSE result[p]]
      /\ attempt' = [attempt EXCEPT ![r] = IF again THEN seen[p] + 1 ELSE seen[p]]
      /\ due' = [due EXCEPT ![r] = ~again]
      /\ Forget(p)
      /\ UNCHANGED <<trigger, starts, faults>>
  BY DEF WriteRun, Goto
<1>2. r \in RunIds /\ result[p] \in Settled /\ seen[p] \in 0 .. MaxAttempts /\ status[r] # "absent"
  BY <1>1 DEF PcOK, TypeOK
<1>3. outside' \subseteq outside \cup {r} /\ outside \subseteq outside'
  BY DEF WriteRun, ReportedBy
<1>4. again \in BOOLEAN /\ (again => seen[p] + 1 \in 0 .. MaxAttempts)
  BY <1>2 DEF ShouldRetry
<1> HIDE DEF again
<1>5. TypeOK'
  <2>1. (IF again THEN "retrying" ELSE result[p]) \in RunStatus
    BY <1>2 DEF RunStatus, Waiting
  <2>2. (IF again THEN seen[p] + 1 ELSE seen[p]) \in 0 .. MaxAttempts
    BY <1>2, <1>4
  <2>3. status' \in [RunIds -> RunStatus] /\ attempt' \in [RunIds -> 0 .. MaxAttempts]
    BY <1>1, <1>2, <2>1, <2>2 DEF TypeOK
  <2>4. due' \in [RunIds -> BOOLEAN] /\ outside' \in SUBSET RunIds
    BY <1>1, <1>2, <1>3, <1>4 DEF TypeOK
  <2> QED BY <1>1, <2>3, <2>4 DEF TypeOK, Forget, Settled, Processes
<1>6. \A s \in RunIds : s # r => status'[s] = status[s] /\ attempt'[s] = attempt[s]
  BY <1>1 DEF TypeOK
<1>7. status'[r] # "absent"
  BY <1>1, <1>2 DEF TypeOK, Settled
<1>8. PcOK'
  BY <1>1, <1>6, <1>7 DEF TypeOK, PcOK, Forget, Processes
<1>9. \A v \in Workers, s \in RunIds : Holds(v, s)' => Holds(v, s) /\ v # p
  BY <1>1 DEF TypeOK, Holds, Forget, Processes
<1>10. r \notin outside' => \A v \in Workers, s \in RunIds : Holds(v, s)' => s # r
  BY <1>2, <1>9, WriterHolds
<1>11. OneHolder'
  <2> SUFFICES ASSUME NEW s \in RunIds \ outside', NEW v \in Workers, NEW w \in Workers, Holds(v, s)'
               PROVE  status'[s] = "running" /\ (Holds(w, s)' => v = w)
    BY DEF OneHolder
  <2>1. s # r /\ s \notin outside
    BY <1>3, <1>10
  <2>2. Holds(v, s) /\ (Holds(w, s)' => Holds(w, s))
    BY <1>9
  <2> QED BY <1>6, <2>1, <2>2 DEF OneHolder
<1>12. AttemptsLeft'
  <2>1. \A s \in outside' : status'[s] # "absent"
    BY <1>3, <1>6, <1>7 DEF TypeOK, AttemptsLeft
  <2>2. ASSUME r \notin outside'
        PROVE  starts[r] <= attempt'[r] /\ (status'[r] \in Waiting => starts[r] < attempt'[r])
    <3>1. starts[r] \in Nat /\ starts[r] <= attempt[r] /\ seen[p] = attempt[r]
      BY <1>2, <2>2, WriterHolds DEF TypeOK, AttemptsLeft
    <3>2. CASE again
      <4>1. attempt'[r] = attempt[r] + 1
        BY <1>1, <1>2, <3>1, <3>2 DEF TypeOK
      <4> QED BY <3>1, <4>1, <1>2 DEF TypeOK
    <3>3. CASE ~again
      <4>1. attempt'[r] = attempt[r] /\ status'[r] \in Settled
        BY <1>1, <1>2, <3>1, <3>3 DEF TypeOK
      <4> QED BY <3>1, <4>1 DEF Settled, Waiting
    <3> QED BY <3>2, <3>3
  <2> QED BY <1>1, <1>3, <1>6, <1>7, <2>1, <2>2 DEF AttemptsLeft
<1>13. SeenIsCurrent'
  <2>1. \A v \in Workers :
          pc'[v] = "write" => v # p /\ pc[v] = "write" /\ run'[v] = run[v] /\ seen'[v] = seen[v]
    BY <1>1 DEF TypeOK, Forget, Processes
  <2>2. \A v \in Workers : pc'[v] = "write" /\ run'[v] \notin outside' => run[v] # r
    BY <2>1, WriterHolds DEF Holds
  <2> QED BY <1>3, <1>6, <2>1, <2>2 DEF SeenIsCurrent, PcOK
<1> QED BY <1>5, <1>8, <1>11, <1>12, <1>13

LEMMA DueAgainStep ==
  ASSUME IInv, NEW r \in RunIds, DueAgain(r)
  PROVE  IInv'
<1> USE DEF IInv, DueAgain, locals, counts
<1>1. TypeOK' BY DEF TypeOK
<1>2. PcOK' BY DEF PcOK
<1>3. OneHolder' BY DEF OneHolder, Holds
<1>4. AttemptsLeft' /\ SeenIsCurrent' BY DEF AttemptsLeft, SeenIsCurrent
<1> QED BY <1>1, <1>2, <1>3, <1>4

LEMMA NextIInv ==
  ASSUME IInv, [Next]_vars
  PROVE  IInv'
<1>1. ASSUME NEW e \in Enqueuers, InsertRun(e) \/ EnqueuerDies(e) \/ \E t \in Triggers : Enqueue(e, t)
      PROVE  IInv'
  BY <1>1, InsertRunStep, EnqueuerDiesStep, EnqueueStep
<1>2. ASSUME NEW w \in Workers, WorkerStep(w) PROVE IInv'
  BY <1>2, Disjoint, SelectRunStep, ClaimStep, ExecuteStep, ReadRunStep, WriteRunStep DEF WorkerStep
<1>3. ASSUME NEW c \in Completers, StartComplete(c) \/ ReadRun(c) \/ WriteRun(c) PROVE IInv'
  BY <1>3, Disjoint, StartCompleteStep, ReadRunStep, WriteRunStep
<1>4. ASSUME NEW p \in Finishers, FinisherDies(p) PROVE IInv'
  <2>1. faults' \in Nat
    BY <1>4 DEF FinisherDies, IInv, TypeOK
  <2> QED BY <1>4, <2>1, GoesIdle DEF FinisherDies
<1>5. ASSUME NEW r \in RunIds, DueAgain(r) PROVE IInv'
  BY <1>5, DueAgainStep
<1>6. CASE UNCHANGED vars
  <2> USE <1>6 DEF IInv, vars, rows, locals, counts
  <2>1. TypeOK' BY DEF TypeOK
  <2>2. PcOK' BY DEF PcOK
  <2>3. OneHolder' BY DEF OneHolder, Holds
  <2>4. AttemptsLeft' /\ SeenIsCurrent' BY DEF AttemptsLeft, SeenIsCurrent
  <2> QED BY <2>1, <2>2, <2>3, <2>4
<1> QED BY <1>1, <1>2, <1>3, <1>4, <1>5, <1>6 DEF Next

-----------------------------------------------------------------------------
\* The inductive invariant holds in every reachable state.
THEOREM Inductive == Spec => []IInv
<1>1. Init => IInv BY InitIInv
<1>2. IInv /\ [Next]_vars => IInv' BY NextIInv
<1> QED BY <1>1, <1>2, PTL DEF Spec

\* Type correctness of the ledger and of the processes around it.
THEOREM TypeCorrect == Spec => []TypeOK
<1>1. IInv => TypeOK BY DEF IInv
<1> QED BY <1>1, Inductive, PTL

\* No run is executed by two workers at once (claimNext).
THEOREM HeldByOne == Spec => []OneHolder
<1>1. IInv => OneHolder BY DEF IInv
<1> QED BY <1>1, Inductive, PTL

\* No run is executed more often than its job allows attempts.
THEOREM WithinAttempts == Spec => []ExecutionsBounded
<1>1. IInv => ExecutionsBounded
  BY ConstantsAssumption DEF IInv, TypeOK, AttemptsLeft, ExecutionsBounded
<1> QED BY <1>1, Inductive, PTL

\* A settled run is written again by a completion from outside only: a worker
\* that writes a run holds it.
THEOREM SettledFinal == Spec => SettledIsFinal
<1> DEFINE Final == \A r \in RunIds \ outside' : status[r] \in Settled => status'[r] = status[r]
<1>1. ASSUME IInv, [Next]_vars PROVE [Final]_status
  <2> SUFFICES ASSUME status' # status, NEW r \in RunIds \ outside', status[r] \in Settled
               PROVE  status'[r] = status[r]
    OBVIOUS
  <2> USE <1>1, Disjoint DEF IInv
  <2>1. ASSUME NEW e \in Enqueuers, InsertRun(e) PROVE status'[r] = status[r]
    BY <2>1 DEF InsertRun, TypeOK, Settled
  <2>2. ASSUME NEW w \in Workers, Claim(w) PROVE status'[r] = status[r]
    BY <2>2 DEF Claim, Goto, PcOK, TypeOK, Settled, Waiting, rows
  <2>3. ASSUME NEW p \in Finishers, WriteRun(p) PROVE status'[r] = status[r]
    <3>1. run[p] \in RunIds /\ (run[p] \notin outside' => status[run[p]] = "running")
      BY <2>3, WriterHolds DEF WriteRun, Goto, PcOK
    <3>2. run[p] # r
      BY <3>1 DEF Settled
    <3> QED BY <2>3, <3>2 DEF WriteRun, TypeOK
  <2>4. /\ \A w \in Workers : ~SelectRun(w) /\ ~Execute(w)
        /\ \A p \in Finishers : ~ReadRun(p) /\ ~StartComplete(p) /\ ~FinisherDies(p)
    BY DEF SelectRun, Execute, ReadRun, StartComplete, FinisherDies, rows
  <2>5. /\ \A e \in Enqueuers : ~EnqueuerDies(e) /\ \A t \in Triggers : ~Enqueue(e, t)
        /\ \A s \in RunIds : ~DueAgain(s)
        /\ ~UNCHANGED vars
    BY DEF EnqueuerDies, Enqueue, DueAgain, rows, vars
  <2> QED BY <2>1, <2>2, <2>3, <2>4, <2>5 DEF Next, WorkerStep
<1>2. IInv /\ [Next]_vars => [Final]_status BY <1>1
<1> QED BY <1>2, Inductive, PTL DEF Spec, SettledIsFinal

-----------------------------------------------------------------------------
(* Which runs are lost                                                      *)

LostRuns == {r \in RunIds : Lost(r)}

\* A step loses no run but the one a worker that dies had claimed.
LEMMA LosesOne ==
  ASSUME TypeOK, PcOK, [Next]_vars
  PROVE  \/ LostRuns' \subseteq LostRuns
         \/ \E p \in Finishers : FinisherDies(p) /\ LostRuns' \subseteq LostRuns \cup {run[p]}
<1> USE Disjoint DEF TypeOK
<1> SUFFICES ASSUME NEW r \in RunIds, Lost(r)', ~Lost(r)
             PROVE  \E p \in Finishers : FinisherDies(p) /\ r = run[p]
  <2>1. \A p, q \in Finishers : FinisherDies(p) /\ FinisherDies(q) => p = q
    BY DEF FinisherDies
  <2> QED BY <2>1 DEF LostRuns
<1>1. status'[r] = "running"
  BY DEF Lost
<1>2. \A w \in Workers : ~(run'[w] = r /\ pc'[w] \in {"execute", "read", "write"})
  BY DEF Lost, Holds
<1>3. status[r] # "running" \/ \E w \in Workers : Holds(w, r)
  BY DEF Lost
<1>4. ASSUME NEW w \in Workers, Claim(w) PROVE FALSE
  <2>1. CASE /\ Goto(w, "claim", "execute")
             /\ status' = [status EXCEPT ![run[w]] = "running"]
             /\ UNCHANGED run
    <3>1. pc'[w] = "execute"
      BY <2>1 DEF Goto
    <3>2. run[w] # r
      BY <1>2, <2>1, <3>1
    <3>3. \A v \in Workers : Holds(v, r) => v # w /\ pc'[v] = pc[v]
      BY <2>1, <3>2 DEF Goto, Holds
    <3>4. status[r] = status'[r]
      BY <2>1, <3>2
    <3> QED BY <1>1, <1>2, <1>3, <2>1, <3>3, <3>4 DEF Holds
  <2>2. CASE Goto(w, "claim", "idle") /\ Forget(w) /\ UNCHANGED status
    <3>1. \A v \in Workers : Holds(v, r) => v # w /\ pc'[v] = pc[v] /\ run'[v] = run[v]
      BY <2>2 DEF Goto, Forget, Holds
    <3> QED BY <1>1, <1>2, <1>3, <2>2, <3>1 DEF Holds
  <2> QED BY <1>4, <2>1, <2>2 DEF Claim, locals, rows
<1>5. ASSUME NEW w \in Workers, SelectRun(w) PROVE FALSE
  <2>1. \A v \in Workers : Holds(v, r) => v # w /\ pc'[v] = pc[v] /\ run'[v] = run[v]
    BY <1>5 DEF SelectRun, Goto, Holds
  <2> QED BY <1>1, <1>2, <1>3, <1>5, <2>1 DEF SelectRun, rows, Holds
<1>6. ASSUME NEW w \in Workers, Execute(w) PROVE FALSE
  <2>1. \A v \in Workers : Holds(v, r) => pc'[v] \in {"execute", "read", "write"} /\ run'[v] = run[v]
    BY <1>6 DEF Execute, Goto, Holds
  <2> QED BY <1>1, <1>2, <1>3, <1>6, <2>1 DEF Execute, rows, Holds
<1>7. ASSUME NEW p \in Finishers, ReadRun(p) PROVE FALSE
  <2>1. \A v \in Workers : Holds(v, r) => pc'[v] \in {"execute", "read", "write"} /\ run'[v] = run[v]
    BY <1>7 DEF ReadRun, Goto, Holds
  <2> QED BY <1>1, <1>2, <1>3, <1>7, <2>1 DEF ReadRun, rows, Holds
<1>8. ASSUME NEW p \in Finishers, WriteRun(p) PROVE FALSE
  <2>1. pc[p] = "write" /\ run[p] \in RunIds
    BY <1>8 DEF WriteRun, Goto, PcOK
  <2>2. status'[run[p]] # "running"
    BY <1>8, <2>1 DEF WriteRun, Settled
  <2>3. r # run[p] /\ status'[r] = status[r]
    BY <1>1, <1>8, <2>1, <2>2 DEF WriteRun
  <2>4. \A v \in Workers : Holds(v, r) => v # p /\ pc'[v] = pc[v] /\ run'[v] = run[v]
    BY <1>8, <2>3 DEF WriteRun, Goto, Forget, Holds
  <2> QED BY <1>1, <1>2, <1>3, <2>3, <2>4 DEF Holds
<1>9. ASSUME NEW p \in Finishers, FinisherDies(p) PROVE r = run[p]
  <2> SUFFICES ASSUME r # run[p] PROVE FALSE
    OBVIOUS
  <2>2. \A v \in Workers : Holds(v, r) => v # p /\ pc'[v] = pc[v] /\ run'[v] = run[v]
    BY <1>9 DEF FinisherDies, Forget, Holds
  <2> QED BY <1>1, <1>2, <1>3, <1>9, <2>2 DEF FinisherDies, rows, Holds
<1>10. ASSUME NEW e \in Enqueuers, InsertRun(e) PROVE FALSE
  <2>1. status'[r] = status[r]
    BY <1>1, <1>10 DEF InsertRun
  <2>2. \A v \in Workers : pc'[v] = pc[v] /\ run'[v] = run[v]
    BY <1>10 DEF InsertRun, Goto
  <2> QED BY <1>1, <1>2, <1>3, <2>1, <2>2 DEF Holds
<1>11. ASSUME NEW e \in Enqueuers, EnqueuerDies(e) \/ \E t \in Triggers : Enqueue(e, t) PROVE FALSE
  <2>1. \A v \in Workers : pc'[v] = pc[v] /\ run'[v] = run[v]
    BY <1>11 DEF EnqueuerDies, Enqueue, Goto
  <2> QED BY <1>1, <1>2, <1>3, <1>11, <2>1 DEF EnqueuerDies, Enqueue, rows, Holds
<1>12. ASSUME NEW c \in Completers, StartComplete(c) PROVE FALSE
  <2>1. \A v \in Workers : pc'[v] = pc[v] /\ run'[v] = run[v]
    BY <1>12 DEF StartComplete, Goto
  <2> QED BY <1>1, <1>2, <1>3, <1>12, <2>1 DEF StartComplete, rows, Holds
<1>13. ASSUME NEW x \in RunIds, DueAgain(x) PROVE FALSE
  BY <1>1, <1>2, <1>3, <1>13 DEF DueAgain, locals, Holds
<1>14. CASE UNCHANGED vars
  BY <1>1, <1>2, <1>3, <1>14 DEF vars, rows, locals, Holds
<1> QED BY <1>4, <1>5, <1>6, <1>7, <1>8, <1>9, <1>10, <1>11, <1>12, <1>13, <1>14 DEF Next, WorkerStep

LEMMA LostByDeathsInductive ==
  ASSUME TypeOK, PcOK, LostByDeathsOnly, [Next]_vars PROVE LostByDeathsOnly'
<1>1. /\ IsFiniteSet(LostRuns) /\ Cardinality(LostRuns) \in Nat
      /\ IsFiniteSet(LostRuns') /\ Cardinality(LostRuns') \in Nat
  <2>1. IsFiniteSet(RunIds)
    <3>1. 1 \in Int /\ MaxRuns \in Int
      BY ConstantsAssumption
    <3>2. IsFiniteSet(1 .. MaxRuns)
      BY <3>1, FS_Interval, Zenon
    <3> QED BY <3>2 DEF RunIds
  <2>2. LostRuns \in SUBSET RunIds /\ LostRuns' \in SUBSET RunIds
    BY DEF LostRuns
  <2>3. \A S \in SUBSET RunIds : IsFiniteSet(S) /\ Cardinality(S) \in Nat
    BY <2>1, FS_Subset, FS_CardinalityType
  <2> QED BY <2>2, <2>3
<1>2. Cardinality(LostRuns) <= faults /\ faults \in Nat
  BY DEF LostByDeathsOnly, LostRuns, TypeOK
<1>3. ASSUME NEW p \in Finishers, FinisherDies(p), LostRuns' \subseteq LostRuns \cup {run[p]}
      PROVE  Cardinality(LostRuns') <= faults'
  <2>1. /\ IsFiniteSet(LostRuns \cup {run[p]})
        /\ Cardinality(LostRuns \cup {run[p]}) \in Nat
        /\ Cardinality(LostRuns \cup {run[p]}) <= faults + 1
    <3>1. IsFiniteSet(LostRuns \cup {run[p]})
      BY <1>1, FS_AddElement, Zenon
    <3>2. Cardinality(LostRuns \cup {run[p]}) \in Nat
      BY <3>1, FS_CardinalityType, Zenon
    <3>3. Cardinality(LostRuns \cup {run[p]})
            = IF run[p] \in LostRuns THEN Cardinality(LostRuns) ELSE Cardinality(LostRuns) + 1
      BY <1>1, FS_AddElement, Zenon
    <3> QED BY <1>1, <1>2, <3>1, <3>2, <3>3
  <2>2. Cardinality(LostRuns') <= Cardinality(LostRuns \cup {run[p]})
    BY <1>3, <2>1, FS_Subset
  <2>3. faults' = faults + 1
    BY <1>3 DEF FinisherDies
  <2> QED BY <1>1, <1>2, <2>1, <2>2, <2>3
<1>4. ASSUME LostRuns' \subseteq LostRuns PROVE Cardinality(LostRuns') <= faults'
  <2>1. Cardinality(LostRuns') <= Cardinality(LostRuns)
    BY <1>1, <1>4, FS_Subset
  <2>2. faults' \in Nat /\ faults <= faults'
    BY <1>2, Disjoint DEF Next, vars, InsertRun, EnqueuerDies, Enqueue, WorkerStep, SelectRun, Claim, Execute, ReadRun,
                WriteRun, StartComplete, FinisherDies, DueAgain
  <2> QED BY <1>1, <1>2, <2>1, <2>2
<1>5. Cardinality(LostRuns') <= faults'
  BY <1>3, <1>4, LosesOne
<1> QED BY <1>5 DEF LostByDeathsOnly, LostRuns

\* LostByDeathsOnly holds of every run: however many workers overlap, jobs fail
\* and runs are completed from outside, each death loses one run at most.
THEOREM LostByDeaths == Spec => []LostByDeathsOnly
<1>1. Init => LostByDeathsOnly
  <2> SUFFICES ASSUME Init PROVE LostByDeathsOnly
    OBVIOUS
  <2>1. {r \in RunIds : Lost(r)} = {}
    BY DEF Init, Lost
  <2> QED BY <2>1, FS_EmptySet DEF Init, LostByDeathsOnly
<1>2. IInv /\ LostByDeathsOnly /\ [Next]_vars => LostByDeathsOnly'
  BY LostByDeathsInductive DEF IInv
<1> QED BY <1>1, <1>2, Inductive, PTL DEF Spec

=============================================================================
