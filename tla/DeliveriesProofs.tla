--------------------------- MODULE DeliveriesProofs ---------------------------
(***************************************************************************)
(* A delivery batch, for every number of riders, stops, parcels, requests,  *)
(* races and deaths: how often a stop is counted, what a closed batch still *)
(* lets through, and what the counts entered by hand are checked against.   *)
(***************************************************************************)
EXTENDS Deliveries, SumFacts

\* What a request has in hand at each of its statements.
ShapeOf(q) ==
  /\ pc[q] = "idle" => task[q] = NoTask
  /\ pc[q] = "check" => task[q] \in StopTask \cup CountsTask
  /\ pc[q] = "insert" => task[q] = StopsTask
  /\ pc[q] \in {"create", "upsert"} => task[q] = ImportTask
  /\ pc[q] = "write" => task[q] \in StopTask \cup CountsTask \cup AssignTask \cup BatchTask \cup {CloseTask}
  /\ pc[q] = "count" =>
       task[q] \in StopTask /\ task[q].to \in Completed /\ task[q].rider # NoRider

\* What it has read and nobody changes: the assignment of a stop, the status of a
\* batch it found open, and the room an assignment has for the counts entered.
KnownTo(q) ==
  LET t == task[q] IN
  /\ t \in StopTask => stop[t.stop] # "absent" /\ t.rider = stopOf[t.stop]
  /\ t \in BatchTask => t.seen \in {"open", "in_progress"}
  /\ t \in CountsTask /\ t.rider \notin uncapped => t.delivered + t.failed <= assigned[t.rider]

Sound == TypeOK /\ \A q \in Requests : ShapeOf(q) /\ KnownTo(q)

-----------------------------------------------------------------------------
(* Tasks, and the steps of a request *)

\* A task is told by its kind.
LEMMA TaskKinds ==
  /\ \A t \in StopTask : t.kind = "stop"
  /\ \A t \in CountsTask : t.kind = "counts"
  /\ \A t \in AssignTask : t.kind = "assign"
  /\ \A t \in BatchTask : t.kind = "batch"
  /\ NoTask.kind = "none" /\ StopsTask.kind = "stops" /\ CloseTask.kind = "close"
  /\ ImportTask.kind = "import"
  /\ \A t \in Tasks :
       /\ t.kind = "stop" => t \in StopTask
       /\ t.kind = "counts" => t \in CountsTask
       /\ t.kind = "assign" => t \in AssignTask
       /\ t.kind = "batch" => t \in BatchTask
BY DEF Tasks, StopTask, CountsTask, AssignTask, BatchTask, NoTask, StopsTask, CloseTask, ImportTask

\* The statements of one request leave the others where they are.
LEMMA BeginFacts ==
  ASSUME TypeOK, NEW q \in Requests, NEW to \in {"check", "insert", "write", "create", "upsert"}, NEW t \in Tasks, Begin(q, to, t)
  PROVE  /\ pc[q] = "idle" /\ pc'[q] = to /\ task'[q] = t /\ late' = late
         /\ \A p \in Requests \ {q} : pc'[p] = pc[p] /\ task'[p] = task[p]
         /\ pc' \in [Requests -> {"idle", "check", "insert", "write", "count", "create", "upsert"}]
         /\ task' \in [Requests -> Tasks]
BY DEF Begin, TypeOK

LEMMA GotoFacts ==
  ASSUME TypeOK, NEW q \in Requests, NEW from, NEW to \in {"check", "insert", "write", "count", "upsert"}, Goto(q, from, to)
  PROVE  /\ pc[q] = from /\ pc'[q] = to /\ task' = task /\ late' = late
         /\ \A p \in Requests \ {q} : pc'[p] = pc[p]
         /\ pc' \in [Requests -> {"idle", "check", "insert", "write", "count", "create", "upsert"}]
BY DEF Goto, TypeOK

LEMMA EndFacts ==
  ASSUME TypeOK, NEW q \in Requests, NEW from, End(q, from)
  PROVE  /\ pc[q] = from /\ pc'[q] = "idle" /\ task'[q] = NoTask /\ late' = late \ {q}
         /\ \A p \in Requests \ {q} : pc'[p] = pc[p] /\ task'[p] = task[p]
         /\ pc' \in [Requests -> {"idle", "check", "insert", "write", "count", "create", "upsert"}]
         /\ task' \in [Requests -> Tasks]
BY DEF End, TypeOK, Tasks

\* What a request knows survives what the others do to the rows.
LEMMA KnownKept ==
  ASSUME TypeOK, NEW p \in Requests, KnownTo(p), task'[p] = task[p],
         \A s \in Stops : stop[s] # "absent" => stop'[s] # "absent" /\ stopOf'[s] = stopOf[s],
         \A r \in Riders : r \notin uncapped' => r \notin uncapped /\ assigned[r] <= assigned'[r],
         assigned' \in [Riders -> 0 .. MaxCount]
  PROVE  KnownTo(p)'
<1>1. CASE task[p] \in StopTask
  BY <1>1, TaskKinds DEF KnownTo, StopTask
<1>2. CASE task[p] \in BatchTask
  BY <1>2, TaskKinds DEF KnownTo
<1>3. CASE task[p] \in CountsTask
  <2>1. task[p].rider \in Riders /\ task[p].delivered \in Nat /\ task[p].failed \in Nat
    BY <1>3 DEF CountsTask
  <2>2. assigned[task[p].rider] \in Nat /\ assigned'[task[p].rider] \in Nat
    BY <2>1, ConstantsAssumption DEF TypeOK
  <2> QED BY <1>3, <2>1, <2>2, TaskKinds DEF KnownTo
<1> QED BY <1>1, <1>2, <1>3 DEF KnownTo

\* The step of a request q, once its own part and the rows are accounted for.
LEMMA SoundStep ==
  ASSUME Sound, NEW q \in Requests,
         \A p \in Requests \ {q} : pc'[p] = pc[p] /\ task'[p] = task[p],
         pc' \in [Requests -> {"idle", "check", "insert", "write", "count", "create", "upsert"}],
         task' \in [Requests -> Tasks],
         ShapeOf(q)', KnownTo(q)',
         batch' \in BatchStatus, tagged' \in BOOLEAN,
         assigned' \in [Riders -> 0 .. MaxCount],
         delivered' \in [Riders -> Nat], failed' \in [Riders -> Nat],
         stop' \in [Stops -> StopStatus], stopOf' \in [Stops -> Riders \cup {NoRider}],
         entered' \subseteq Riders, uncapped' \subseteq Riders, late' \subseteq Requests,
         counted' \in [Stops -> Nat], races' \in [Stops -> 0 .. MaxRaces],
         faults' \in 0 .. MaxFaults,
         \A s \in Stops : stop[s] # "absent" => stop'[s] # "absent" /\ stopOf'[s] = stopOf[s],
         \A r \in Riders : r \notin uncapped' => r \notin uncapped /\ assigned[r] <= assigned'[r]
  PROVE  Sound'
<1>1. TypeOK'
  BY DEF TypeOK
<1>2. ASSUME NEW p \in Requests, p # q PROVE ShapeOf(p)' /\ KnownTo(p)'
  <2>1. KnownTo(p)'
    BY <1>2, KnownKept DEF Sound
  <2> QED BY <1>2, <2>1 DEF Sound, ShapeOf
<1> QED BY <1>1, <1>2 DEF Sound

-----------------------------------------------------------------------------
(* What is known of the tasks is kept by every step                          *)

\* Nobody has anything in hand at first.
LEMMA SoundInit ==
  Init => Sound
<1> SUFFICES ASSUME Init PROVE Sound
  OBVIOUS
<1>1. TypeOK
  <2>1. tagged \in BOOLEAN
    BY DEF Init
  <2>2. /\ \A q \in Requests : NoTask \in Tasks
        /\ MaxCount \in Nat /\ MaxRaces \in Nat /\ MaxFaults \in Nat
    BY ConstantsAssumption DEF Tasks
  <2>3. task \in [Requests -> Tasks]
    BY <2>2 DEF Init
  <2> QED BY <2>1, <2>2, <2>3 DEF Init, TypeOK, BatchStatus, StopStatus
<1>2. NoTask \notin StopTask \cup BatchTask \cup CountsTask
  BY TaskKinds
<1>3. ASSUME NEW q \in Requests PROVE ShapeOf(q) /\ KnownTo(q)
  <2>1. pc[q] = "idle" /\ task[q] = NoTask
    BY DEF Init
  <2> QED BY <1>2, <2>1 DEF ShapeOf, KnownTo
<1> QED BY <1>1, <1>3 DEF Sound

\* A request that begins.
LEMMA SoundBegins ==
  ASSUME Sound, NEW q \in Requests,
         StartBatchCounts(q) \/ StartClose(q) \/ StartAssign(q) \/ ReadAssignment(q)
           \/ StartStops(q) \/ ReadStop(q)
  PROVE  Sound'
<1> USE DEF Sound
<1>1. CASE StartBatchCounts(q)
  <2> DEFINE t == [kind |-> "batch", seen |-> batch]
  <2>1. t \in BatchTask /\ t \in Tasks /\ t.seen \in {"open", "in_progress"}
    BY <1>1 DEF StartBatchCounts, IsOpen, BatchTask, Tasks, BatchStatus
  <2>2. Begin(q, "write", t) /\ UNCHANGED <<batch, tagged, counts, stops, history, faults>>
    BY <1>1 DEF StartBatchCounts
  <2> HIDE DEF t
  <2>3. ShapeOf(q)' /\ KnownTo(q)'
    BY <2>1, <2>2, BeginFacts, TaskKinds DEF ShapeOf, KnownTo
  <2> QED BY <2>1, <2>2, <2>3, BeginFacts, SoundStep, ConstantsAssumption DEF TypeOK, counts, stops, history
<1>2. CASE StartClose(q)
  <2>1. CloseTask \in Tasks /\ Begin(q, "write", CloseTask) /\ UNCHANGED <<batch, tagged, counts, stops, history, faults>>
    BY <1>2 DEF StartClose, Tasks
  <2>2. ShapeOf(q)' /\ KnownTo(q)'
    BY <2>1, BeginFacts, TaskKinds DEF ShapeOf, KnownTo
  <2> QED BY <2>1, <2>2, BeginFacts, SoundStep, ConstantsAssumption DEF TypeOK, counts, stops, history
<1>3. CASE StartAssign(q)
  <2>1. PICK r \in Riders, n \in 1 .. MaxCount :
          Begin(q, "write", [kind |-> "assign", rider |-> r, assigned |-> n])
    BY <1>3 DEF StartAssign
  <2> DEFINE t == [kind |-> "assign", rider |-> r, assigned |-> n]
  <2>2. t \in AssignTask /\ t \in Tasks
    BY DEF AssignTask, Tasks
  <2>3. Begin(q, "write", t) /\ UNCHANGED <<batch, tagged, counts, stops, history, faults>>
    BY <1>3, <2>1 DEF StartAssign
  <2> HIDE DEF t
  <2>4. ShapeOf(q)' /\ KnownTo(q)'
    BY <2>2, <2>3, BeginFacts, TaskKinds DEF ShapeOf, KnownTo
  <2> QED BY <2>2, <2>3, <2>4, BeginFacts, SoundStep, ConstantsAssumption DEF TypeOK, counts, stops, history
<1>4. CASE ReadAssignment(q)
  <2>1. PICK r \in Riders, d \in Nat, f \in Nat :
          /\ d + f <= assigned[r]
          /\ Begin(q, "check", [kind |-> "counts", rider |-> r, delivered |-> d, failed |-> f])
    BY <1>4 DEF ReadAssignment, TypeOK
  <2> DEFINE t == [kind |-> "counts", rider |-> r, delivered |-> d, failed |-> f]
  <2>2. t \in CountsTask /\ t \in Tasks
    BY DEF CountsTask, Tasks
  <2>3. t.rider = r /\ t.delivered + t.failed <= assigned[t.rider]
    BY <2>1
  <2>4. Begin(q, "check", t) /\ UNCHANGED <<batch, tagged, counts, stops, history, faults>>
    BY <1>4, <2>1 DEF ReadAssignment
  <2> HIDE DEF t
  <2>5. ShapeOf(q)' /\ KnownTo(q)'
    BY <2>2, <2>3, <2>4, BeginFacts, TaskKinds DEF ShapeOf, KnownTo, counts
  <2> QED BY <2>2, <2>4, <2>5, BeginFacts, SoundStep, ConstantsAssumption DEF TypeOK, counts, stops, history
<1>5. CASE StartStops(q)
  <2>1. StopsTask \in Tasks /\ Begin(q, "insert", StopsTask) /\ UNCHANGED <<batch, tagged, counts, stops, history, faults>>
    BY <1>5 DEF StartStops, Tasks
  <2>2. ShapeOf(q)' /\ KnownTo(q)'
    BY <2>1, BeginFacts, TaskKinds DEF ShapeOf, KnownTo
  <2> QED BY <2>1, <2>2, BeginFacts, SoundStep, ConstantsAssumption DEF TypeOK, counts, stops, history
<1>6. CASE ReadStop(q)
  <2>1. PICK s \in Stops, to \in StopStatus \ {"absent"} :
          /\ MayUpdate(s)
          /\ WorkOn(s) # {} => races[s] < MaxRaces
          /\ races' = [races EXCEPT ![s] = IF WorkOn(s) = {} THEN @ ELSE @ + 1]
          /\ Begin(q, "check", [kind |-> "stop", stop |-> s, to |-> to, rider |-> stopOf[s]])
          /\ UNCHANGED <<batch, tagged, counts, stop, stopOf, counted, history, faults>>
    BY <1>6 DEF ReadStop
  <2> DEFINE t == [kind |-> "stop", stop |-> s, to |-> to, rider |-> stopOf[s]]
  <2>2. t \in StopTask /\ t \in Tasks
    BY DEF StopTask, Tasks, TypeOK
  <2>3. stop[t.stop] # "absent" /\ t.rider = stopOf[t.stop]
    BY <2>1 DEF MayUpdate
  <2>4. races' \in [Stops -> 0 .. MaxRaces]
    BY <2>1, ConstantsAssumption DEF TypeOK
  <2>5. Begin(q, "check", t)
    BY <2>1
  <2> HIDE DEF t
  <2>6. ShapeOf(q)' /\ KnownTo(q)'
    BY <2>1, <2>2, <2>3, <2>5, BeginFacts, TaskKinds DEF ShapeOf, KnownTo, counts
  <2> QED BY <2>1, <2>2, <2>4, <2>5, <2>6, BeginFacts, SoundStep, ConstantsAssumption DEF TypeOK, counts, history
<1> QED BY <1>1, <1>2, <1>3, <1>4, <1>5, <1>6

\* A request that goes on or ends without touching a row.
LEMMA SoundPasses ==
  ASSUME Sound, NEW q \in Requests, EndStops(q) \/ CheckBatch(q) \/ Dies(q)
  PROVE  Sound'
<1> USE DEF Sound
<1>1. UNCHANGED <<batch, tagged, counts, stops, history>> /\ faults' \in 0 .. MaxFaults
  BY ConstantsAssumption DEF EndStops, CheckBatch, Dies, TypeOK
<1>2. CASE \E from : End(q, from)
  <2>1. ShapeOf(q)' /\ KnownTo(q)'
    BY <1>2, EndFacts, TaskKinds DEF ShapeOf, KnownTo
  <2> QED BY <1>1, <1>2, <2>1, EndFacts, SoundStep, ConstantsAssumption DEF TypeOK, counts, stops, history
<1>3. CASE Goto(q, "check", "write")
  <2>1. ShapeOf(q)'
    BY <1>3, GotoFacts DEF ShapeOf
  <2>2. KnownTo(q)'
    BY <1>1, <1>3, GotoFacts DEF KnownTo, counts, stops, history
  <2> QED BY <1>1, <1>3, <2>1, <2>2, GotoFacts, SoundStep, ConstantsAssumption DEF TypeOK, counts, stops, history
<1> QED BY <1>2, <1>3 DEF EndStops, CheckBatch, Dies

\* A write to the batch or to an assignment.
LEMMA SoundWrites ==
  ASSUME Sound, NEW q \in Requests,
         WriteBatchCounts(q) \/ Close(q) \/ Assign(q) \/ WriteAssignment(q)
  PROVE  Sound'
<1> USE DEF Sound
<1>1. CASE WriteBatchCounts(q)
  <2>1. End(q, "write") /\ UNCHANGED <<tagged, counts, stops, history, faults>>
    BY <1>1 DEF WriteBatchCounts
  <2>2. batch' \in BatchStatus
    BY <1>1, TaskKinds DEF WriteBatchCounts, TypeOK, KnownTo, BatchStatus
  <2>3. ShapeOf(q)' /\ KnownTo(q)'
    BY <2>1, EndFacts, TaskKinds DEF ShapeOf, KnownTo
  <2> QED BY <2>1, <2>2, <2>3, EndFacts, SoundStep, ConstantsAssumption DEF TypeOK, counts, stops, history
<1>2. CASE Close(q)
  <2>1. /\ pc' = [pc EXCEPT ![q] = "idle"] /\ task' = [task EXCEPT ![q] = NoTask]
        /\ late' \subseteq Requests /\ batch' = "closed"
        /\ UNCHANGED <<tagged, counts, stops, history, faults>>
    BY <1>2 DEF Close
  <2>2. /\ pc'[q] = "idle" /\ task'[q] = NoTask
        /\ \A p \in Requests \ {q} : pc'[p] = pc[p] /\ task'[p] = task[p]
        /\ pc' \in [Requests -> {"idle", "check", "insert", "write", "count", "create", "upsert"}]
        /\ task' \in [Requests -> Tasks]
    BY <2>1 DEF TypeOK, Tasks
  <2>3. ShapeOf(q)' /\ KnownTo(q)'
    BY <2>2, TaskKinds DEF ShapeOf, KnownTo
  <2> QED BY <2>1, <2>2, <2>3, SoundStep, ConstantsAssumption DEF TypeOK, BatchStatus, counts, stops, history
<1>3. CASE Assign(q)
  <2>1. End(q, "write") /\ UNCHANGED <<batch, tagged, delivered, failed, stops, entered, faults>>
    BY <1>3 DEF Assign
  <2>2. PICK r \in Riders, n \in 1 .. MaxCount :
          /\ assigned' = [assigned EXCEPT ![r] = n]
          /\ uncapped' = IF n < assigned[r] THEN uncapped \cup {r} ELSE uncapped
    <3>1. task[q] \in AssignTask
      BY <1>3, TaskKinds DEF Assign, TypeOK
    <3>2. task[q].rider \in Riders /\ task[q].assigned \in 1 .. MaxCount
      BY <3>1 DEF AssignTask
    <3> QED BY <1>3, <3>2 DEF Assign
  <2>3. assigned' \in [Riders -> 0 .. MaxCount] /\ uncapped' \subseteq Riders
    BY <2>2, ConstantsAssumption DEF TypeOK
  <2>4. \A x \in Riders : x \notin uncapped' => x \notin uncapped /\ assigned[x] <= assigned'[x]
    BY <2>2, ConstantsAssumption DEF TypeOK
  <2>5. ShapeOf(q)' /\ KnownTo(q)'
    BY <2>1, EndFacts, TaskKinds DEF ShapeOf, KnownTo
  <2> QED BY <2>1, <2>3, <2>4, <2>5, EndFacts, SoundStep, ConstantsAssumption DEF TypeOK, stops
<1>4. CASE WriteAssignment(q)
  <2>1. End(q, "write") /\ UNCHANGED <<batch, tagged, assigned, stops, uncapped, faults>>
    BY <1>4 DEF WriteAssignment
  <2>2. task[q] \in CountsTask
    BY <1>4, TaskKinds DEF WriteAssignment, TypeOK
  <2>3. task[q].rider \in Riders /\ task[q].delivered \in Nat /\ task[q].failed \in Nat
    BY <2>2 DEF CountsTask
  <2>4. delivered' \in [Riders -> Nat] /\ failed' \in [Riders -> Nat] /\ entered' \subseteq Riders
    BY <1>4, <2>3 DEF WriteAssignment, TypeOK
  <2>5. ShapeOf(q)' /\ KnownTo(q)'
    BY <2>1, EndFacts, TaskKinds DEF ShapeOf, KnownTo
  <2> QED BY <2>1, <2>4, <2>5, EndFacts, SoundStep, ConstantsAssumption DEF TypeOK, stops
<1> QED BY <1>1, <1>2, <1>3, <1>4

\* A write to a stop, and the counts that follow it.
LEMMA SoundStops ==
  ASSUME Sound, NEW q \in Requests, InsertStop(q) \/ WriteStop(q) \/ CountStop(q)
  PROVE  Sound'
<1> USE DEF Sound
<1>1. CASE InsertStop(q)
  <2>1. Goto(q, "insert", "insert") /\ UNCHANGED <<batch, tagged, counts, counted, races, history, faults>>
    BY <1>1 DEF InsertStop
  <2>2. PICK s \in Stops, r \in Riders \cup {NoRider} :
          /\ stop[s] = "absent"
          /\ stop' = [stop EXCEPT ![s] = "pending"]
          /\ stopOf' = [stopOf EXCEPT ![s] = r]
    BY <1>1 DEF InsertStop
  <2>3. stop' \in [Stops -> StopStatus] /\ stopOf' \in [Stops -> Riders \cup {NoRider}]
    BY <2>2 DEF TypeOK, StopStatus
  <2>4. \A x \in Stops : stop[x] # "absent" => stop'[x] # "absent" /\ stopOf'[x] = stopOf[x]
    BY <2>2 DEF TypeOK
  <2>5. task[q] = StopsTask /\ task'[q] = StopsTask /\ pc'[q] = "insert"
    BY <2>1, GotoFacts DEF ShapeOf
  <2>6. ShapeOf(q)' /\ KnownTo(q)'
    BY <2>5, TaskKinds DEF ShapeOf, KnownTo
  <2> QED BY <2>1, <2>3, <2>4, <2>6, GotoFacts, SoundStep, ConstantsAssumption DEF TypeOK, counts, history
<1>2. CASE WriteStop(q)
  <2> DEFINE t == task[q]
  <2>1. /\ IF t.to \in Completed /\ t.rider # NoRider THEN Goto(q, "write", "count") ELSE End(q, "write")
        /\ stop' = [stop EXCEPT ![t.stop] = t.to]
        /\ UNCHANGED <<batch, tagged, counts, stopOf, counted, races, history, faults>>
    BY <1>2 DEF WriteStop
  <2>2. t \in StopTask
    BY <1>2, TaskKinds DEF WriteStop, TypeOK
  <2>3. t.stop \in Stops /\ t.to \in StopStatus \ {"absent"}
    BY <2>2 DEF StopTask
  <2>4. stop' \in [Stops -> StopStatus] /\ \A x \in Stops : stop[x] # "absent" => stop'[x] # "absent"
    BY <2>1, <2>3 DEF TypeOK
  <2>5. CASE t.to \in Completed /\ t.rider # NoRider
    <3>1. Goto(q, "write", "count") /\ task'[q] = t
      BY <2>1, <2>5, GotoFacts
    <3>2. ShapeOf(q)'
      BY <2>2, <2>5, <3>1, GotoFacts DEF ShapeOf
    <3>3. KnownTo(q)'
      BY <2>1, <2>2, <2>4, <3>1, TaskKinds, KnownKept, ConstantsAssumption DEF counts, history, TypeOK
    <3> QED BY <2>1, <2>4, <3>1, <3>2, <3>3, GotoFacts, SoundStep, ConstantsAssumption DEF TypeOK, counts, history
  <2>6. CASE ~(t.to \in Completed /\ t.rider # NoRider)
    <3>1. End(q, "write")
      BY <2>1, <2>6
    <3>2. ShapeOf(q)' /\ KnownTo(q)'
      BY <3>1, EndFacts, TaskKinds DEF ShapeOf, KnownTo
    <3> QED BY <2>1, <2>4, <3>1, <3>2, EndFacts, SoundStep, ConstantsAssumption DEF TypeOK, counts, history
  <2> QED BY <2>5, <2>6
<1>3. CASE CountStop(q)
  <2> DEFINE t == task[q]
  <2>1. End(q, "count") /\ UNCHANGED <<batch, tagged, assigned, stop, stopOf, races, entered, faults>>
    BY <1>3 DEF CountStop
  <2>2. t \in StopTask /\ t.rider # NoRider
    BY <2>1, EndFacts DEF ShapeOf
  <2>3. t.stop \in Stops /\ t.rider \in Riders
    BY <2>2 DEF StopTask
  <2>4. Parcels[t.stop] \in Nat
    BY <2>3, ConstantsAssumption
  <2>5. /\ delivered' \in [Riders -> Nat] /\ failed' \in [Riders -> Nat]
        /\ counted' \in [Stops -> Nat] /\ uncapped' \subseteq Riders /\ uncapped \subseteq uncapped'
    BY <1>3, <2>3, <2>4 DEF CountStop, TypeOK
  <2>6. ShapeOf(q)' /\ KnownTo(q)'
    BY <2>1, EndFacts, TaskKinds DEF ShapeOf, KnownTo
  <2> QED BY <2>1, <2>5, <2>6, EndFacts, SoundStep, ConstantsAssumption DEF TypeOK
<1> QED BY <1>1, <1>2, <1>3

\* What an import leaves alone: the stops, and whatever other requests have in hand.
LEMMA ImportFacts ==
  ASSUME Sound, NEW q \in Requests, Import(q)
  PROVE  /\ UNCHANGED <<stops, uncapped, faults>>
         /\ \A p \in Requests \ {q} : pc'[p] = pc[p] /\ task'[p] = task[p]
         /\ task[q] \in {NoTask, ImportTask} /\ task'[q] \in {NoTask, ImportTask}
         /\ pc[q] \in {"idle", "create", "upsert"} /\ pc'[q] \in {"idle", "create", "upsert"}
         /\ pc' \in [Requests -> {"idle", "check", "insert", "write", "count", "create", "upsert"}]
         /\ task' \in [Requests -> Tasks]
         /\ ShapeOf(q)'
         /\ late' = late \/ late' = late \ {q}
         /\ UNCHANGED <<batch, tagged>> \/ CreateImportBatch(q)
         /\ UNCHANGED <<counts, entered>> \/ ImportCounts(q)
         /\ \/ \E to, x : Begin(q, to, x)
            \/ \E from, to : Goto(q, from, to) /\ from # "count"
            \/ \E from : End(q, from)
<1> USE DEF Sound
<1>1. CASE StartImport(q)
  <2>1. PICK to \in {"create", "upsert"} : Begin(q, to, ImportTask)
    BY <1>1 DEF StartImport
  <2>2. UNCHANGED <<batch, tagged, counts, stops, history, faults>> /\ ImportTask \in Tasks
    BY <1>1 DEF StartImport, Tasks
  <2>3. pc[q] = "idle" /\ pc'[q] = to /\ task'[q] = ImportTask /\ task[q] = NoTask
    BY <2>1, <2>2, BeginFacts DEF ShapeOf
  <2>4. \E y, x : Begin(q, y, x)
    BY <2>1
  <2> QED BY <2>1, <2>2, <2>3, <2>4, BeginFacts DEF ShapeOf, history
<1>2. CASE CreateImportBatch(q)
  <2>1. Goto(q, "create", "upsert") /\ UNCHANGED <<counts, stops, history, faults>>
    BY <1>2 DEF CreateImportBatch
  <2>2. task[q] = ImportTask /\ task' = task /\ pc'[q] = "upsert" /\ pc[q] = "create"
    BY <2>1, GotoFacts DEF ShapeOf
  <2> QED BY <1>2, <2>1, <2>2, GotoFacts DEF ShapeOf, history, TypeOK
<1>3. CASE ImportCounts(q)
  <2>1. Goto(q, "upsert", "upsert") /\ UNCHANGED <<batch, tagged, stops, uncapped, faults>>
    BY <1>3 DEF ImportCounts
  <2>2. task[q] = ImportTask /\ task' = task /\ pc'[q] = "upsert" /\ pc[q] = "upsert"
    BY <2>1, GotoFacts DEF ShapeOf
  <2> QED BY <1>3, <2>1, <2>2, GotoFacts DEF ShapeOf, TypeOK
<1>4. CASE ImportElsewhere(q) \/ EndImport(q)
  <2>1. PICK from \in {"create", "upsert"} : End(q, from)
    BY <1>4 DEF ImportElsewhere, EndImport
  <2>2. UNCHANGED <<batch, tagged, counts, stops, history, faults>>
    BY <1>4 DEF ImportElsewhere, EndImport
  <2>3. task[q] = ImportTask /\ task'[q] = NoTask /\ pc'[q] = "idle" /\ pc[q] = from
    BY <2>1, EndFacts DEF ShapeOf
  <2>4. \E y : End(q, y)
    BY <2>1
  <2> QED BY <2>1, <2>2, <2>3, <2>4, EndFacts DEF ShapeOf, history
<1> QED BY <1>1, <1>2, <1>3, <1>4 DEF Import

\* An import raises what was assigned, and writes counts that stay within.
LEMMA ImportWrites ==
  ASSUME Sound, NEW q \in Requests, ImportCounts(q)
  PROVE  \E r \in Riders, n \in 1 .. MaxCount, d, f \in 0 .. MaxCount :
           /\ d + f <= n /\ n <= assigned'[r] /\ assigned[r] <= assigned'[r]
           /\ assigned' \in [Riders -> 0 .. MaxCount]
           /\ delivered' = [delivered EXCEPT ![r] = d] /\ failed' = [failed EXCEPT ![r] = f]
           /\ \A x \in Riders \ {r} : assigned'[x] = assigned[x]
           /\ entered' = entered \cup {r}
<1>1. PICK r \in Riders, n \in 1 .. MaxCount, d, f \in 0 .. MaxCount :
        /\ d + f <= n
        /\ assigned' = [assigned EXCEPT ![r] = IF n > @ THEN n ELSE @]
        /\ delivered' = [delivered EXCEPT ![r] = d] /\ failed' = [failed EXCEPT ![r] = f]
        /\ entered' = entered \cup {r}
  BY DEF ImportCounts
<1>2. \A x \in Riders : assigned[x] \in 0 .. MaxCount
  BY DEF Sound, TypeOK
<1>3. assigned'[r] = (IF n > assigned[r] THEN n ELSE assigned[r]) /\ \A x \in Riders \ {r} : assigned'[x] = assigned[x]
  BY <1>1 DEF Sound, TypeOK
<1>4. assigned' \in [Riders -> 0 .. MaxCount]
  BY <1>1, <1>2 DEF Sound, TypeOK
<1>5. n <= assigned'[r] /\ assigned[r] <= assigned'[r]
  BY <1>2, <1>3, ConstantsAssumption
<1> QED BY <1>1, <1>3, <1>4, <1>5

LEMMA SoundImport ==
  ASSUME Sound, NEW q \in Requests, Import(q)
  PROVE  Sound'
<1> USE DEF Sound
<1>1. KnownTo(q)'
  BY ImportFacts, TaskKinds DEF KnownTo
<1>2. batch' \in BatchStatus /\ tagged' \in BOOLEAN
  BY ImportFacts DEF CreateImportBatch, BatchStatus, TypeOK
<1>3. late' \subseteq Requests
  BY ImportFacts DEF TypeOK
<1>4. /\ assigned' \in [Riders -> 0 .. MaxCount]
      /\ delivered' \in [Riders -> Nat] /\ failed' \in [Riders -> Nat]
      /\ entered' \subseteq Riders
      /\ \A r \in Riders : assigned[r] <= assigned'[r]
  <2>1. CASE UNCHANGED <<counts, entered>>
    BY <2>1, ConstantsAssumption DEF TypeOK, counts
  <2>2. CASE ImportCounts(q)
    <3>1. PICK r \in Riders, n \in 1 .. MaxCount, d, f \in 0 .. MaxCount :
            /\ assigned[r] <= assigned'[r]
            /\ assigned' \in [Riders -> 0 .. MaxCount]
            /\ delivered' = [delivered EXCEPT ![r] = d] /\ failed' = [failed EXCEPT ![r] = f]
            /\ \A x \in Riders \ {r} : assigned'[x] = assigned[x]
            /\ entered' = entered \cup {r}
      BY <2>2, ImportWrites
    <3>2. \A x \in Riders : assigned[x] \in Nat
      BY ConstantsAssumption DEF TypeOK
    <3>3. \A x \in Riders : assigned[x] <= assigned'[x]
      BY <3>1, <3>2
    <3>4. delivered' \in [Riders -> Nat] /\ failed' \in [Riders -> Nat] /\ entered' \subseteq Riders
      BY <3>1 DEF TypeOK
    <3> QED BY <3>1, <3>3, <3>4
  <2> QED BY <2>1, <2>2, ImportFacts
<1>5. UNCHANGED <<stop, stopOf, counted, races, uncapped, faults>>
  BY ImportFacts DEF stops
<1> QED BY <1>1, <1>2, <1>3, <1>4, <1>5, ImportFacts, SoundStep DEF TypeOK

\* Every step keeps the rows, and what is known of the requests in flight.
LEMMA SoundNext ==
  Sound /\ [Next]_vars => Sound'
<1> SUFFICES ASSUME Sound, [Next]_vars PROVE Sound'
  OBVIOUS
<1>1. CASE CreateBatch \/ UNCHANGED vars
  <2>1. UNCHANGED <<counts, stops, pc, task, history, late, faults>> /\ batch' \in BatchStatus /\ tagged' \in BOOLEAN
    BY <1>1 DEF CreateBatch, vars, Sound, TypeOK, BatchStatus
  <2>2. TypeOK'
    BY <2>1 DEF Sound, TypeOK, counts, stops, history
  <2>3. \A p \in Requests : ShapeOf(p)' /\ KnownTo(p)'
    BY <2>1 DEF Sound, ShapeOf, KnownTo, counts, stops, history
  <2> QED BY <2>2, <2>3 DEF Sound
<1>2. ASSUME NEW q \in Requests, Step(q) PROVE Sound'
  BY <1>2, SoundBegins, SoundPasses, SoundWrites, SoundStops, SoundImport DEF Step
<1> QED BY <1>1, <1>2 DEF Next

\* Rows, requests and what they have in hand have their types (TypeOK).
THEOREM TypeCorrect == Spec => []TypeOK
<1>1. Init => Sound
  BY SoundInit
<1>2. Sound /\ [Next]_vars => Sound'
  BY SoundNext
<1>3. Sound => TypeOK
  BY DEF Sound
<1> QED BY <1>1, <1>2, <1>3, PTL DEF Spec

-----------------------------------------------------------------------------
(* A closed batch                                                            *)

\* Once a batch is closed, nobody gets past the check: who is between two writes
\* was in flight when it was closed.
Shut == batch = "closed" => \A q \in Requests : pc[q] \in {"write", "insert", "count"} => q \in late

\* No step lets a request past the check of a closed batch.
LEMMA ShutStep ==
  ASSUME Sound, Shut, NEW q \in Requests, Step(q)
  PROVE  Shut'
<1> USE DEF Sound
<1>1. CASE StartBatchCounts(q) \/ StartClose(q) \/ StartAssign(q) \/ StartStops(q)
  BY <1>1 DEF StartBatchCounts, StartClose, StartAssign, StartStops, IsOpen, Shut
<1>2. CASE WriteBatchCounts(q)
  <2>1. task[q].seen \in {"open", "in_progress"}
    BY <1>2, TaskKinds DEF WriteBatchCounts, KnownTo, TypeOK
  <2> QED BY <1>2, <2>1 DEF WriteBatchCounts, Shut
<1>3. CASE Close(q)
  BY <1>3 DEF Close, Shut, TypeOK
<1>4. CASE ReadAssignment(q) \/ ReadStop(q)
  <2>1. pc' = [pc EXCEPT ![q] = "check"] /\ UNCHANGED <<batch, late>>
    BY <1>4 DEF ReadAssignment, ReadStop, Begin
  <2> QED BY <2>1 DEF Shut, TypeOK
<1>5. CASE CheckBatch(q) \/ WriteStop(q) \/ InsertStop(q)
  BY <1>5, EndFacts, GotoFacts DEF CheckBatch, WriteStop, InsertStop, IsOpen, Shut
<1>6. CASE Assign(q) \/ WriteAssignment(q) \/ EndStops(q) \/ CountStop(q) \/ Dies(q)
  <2>1. (\E from : End(q, from)) /\ UNCHANGED batch
    BY <1>6 DEF Assign, WriteAssignment, EndStops, CountStop, Dies
  <2> QED BY <2>1, EndFacts DEF Shut
<1>7. CASE Import(q)
  <2>1. batch' = "closed" => batch = "closed"
    BY <1>7, ImportFacts DEF CreateImportBatch
  <2>2. ASSUME NEW p \in Requests, pc'[p] \in {"write", "insert", "count"}
        PROVE  p # q /\ pc[p] = pc'[p]
    BY <1>7, <2>2, ImportFacts
  <2> QED BY <1>7, <2>1, <2>2, ImportFacts DEF Shut
<1> QED BY <1>1, <1>2, <1>3, <1>4, <1>5, <1>6, <1>7 DEF Step

\* An import works on a batch that carries its tag.
Owned == \A q \in Requests : pc[q] = "upsert" => tagged /\ batch # "absent"

LEMMA OwnedStep ==
  ASSUME Sound, Owned, NEW q \in Requests, Step(q)
  PROVE  Owned'
<1> USE DEF Sound
<1>1. CASE Import(q)
  <2>1. CASE StartImport(q)
    <3>1. /\ UNCHANGED <<batch, tagged>>
          /\ pc'[q] = "upsert" => tagged /\ batch # "absent"
      BY <2>1 DEF StartImport, Begin, TypeOK
    <3> QED BY <1>1, <3>1, ImportFacts DEF Owned
  <2>2. CASE CreateImportBatch(q)
    BY <2>2 DEF CreateImportBatch, Owned
  <2>3. CASE ImportElsewhere(q) \/ ImportCounts(q) \/ EndImport(q)
    <3>1. UNCHANGED <<batch, tagged>> /\ (pc'[q] = "upsert" => pc[q] = "upsert")
      BY <2>3, EndFacts, GotoFacts DEF ImportElsewhere, ImportCounts, EndImport
    <3> QED BY <1>1, <3>1, ImportFacts DEF Owned
  <2> QED BY <1>1, <2>1, <2>2, <2>3 DEF Import
<1>2. CASE ~Import(q)
  <2>1. tagged' = tagged
    BY <1>2 DEF Step, StartBatchCounts, WriteBatchCounts, StartClose, Close, StartAssign, Assign,
       ReadAssignment, WriteAssignment, StartStops, InsertStop, EndStops, ReadStop, CheckBatch,
       WriteStop, CountStop, Dies
  <2>2. batch' = "absent" => batch = "absent"
    <3>1. CASE WriteBatchCounts(q)
      <4>1. task[q].seen \in {"open", "in_progress"}
        BY <3>1, TaskKinds DEF WriteBatchCounts, KnownTo, TypeOK
      <4> QED BY <3>1, <4>1 DEF WriteBatchCounts
    <3>2. CASE ~WriteBatchCounts(q)
      BY <1>2, <3>2 DEF Step, StartBatchCounts, StartClose, Close, StartAssign, Assign,
         ReadAssignment, WriteAssignment, StartStops, InsertStop, EndStops, ReadStop, CheckBatch,
         WriteStop, CountStop, Dies
    <3> QED BY <3>1, <3>2
  <2>3. pc'[q] # "upsert" /\ \A p \in Requests \ {q} : pc'[p] = pc[p]
    <3>1. CASE StartBatchCounts(q) \/ StartClose(q) \/ StartAssign(q) \/ ReadAssignment(q) \/ StartStops(q) \/ ReadStop(q)
      BY <3>1 DEF StartBatchCounts, StartClose, StartAssign, ReadAssignment, StartStops, ReadStop, Begin, TypeOK
    <3>2. CASE Close(q)
      BY <3>2 DEF Close, TypeOK
    <3>3. CASE InsertStop(q) \/ CheckBatch(q) \/ WriteStop(q)
      BY <3>3, GotoFacts, EndFacts DEF InsertStop, CheckBatch, WriteStop
    <3>4. CASE \E from : End(q, from)
      BY <3>4, EndFacts
    <3> QED BY <1>2, <3>1, <3>2, <3>3, <3>4
            DEF Step, WriteBatchCounts, Assign, WriteAssignment, EndStops, CountStop, Dies
  <2> QED BY <2>1, <2>2, <2>3 DEF Owned
<1> QED BY <1>1, <1>2

\* Once a batch is closed and the requests that were in flight then have ended, its
\* status and its stops move no more, and its counts only by a later import, in a
\* batch that carries the tag of imports (ClosedIsLocked).
THEOREM ClosedStaysLocked == Spec => ClosedIsLocked
<1> DEFINE Locked ==
      batch = "closed" /\ late = {} =>
        /\ UNCHANGED <<batch, stop>>
        /\ UNCHANGED counts \/ (tagged /\ \E q \in Requests : ImportCounts(q))
<1>1. Init => Sound /\ Shut /\ Owned
  BY SoundInit DEF Init, Shut, Owned
<1>2. Sound /\ Shut /\ Owned /\ [Next]_vars => Sound' /\ Shut' /\ Owned'
  <2> SUFFICES ASSUME Sound, Shut, Owned, [Next]_vars PROVE Shut' /\ Owned'
    BY SoundNext
  <2>1. CASE CreateBatch
    BY <2>1 DEF CreateBatch, Shut, Owned
  <2>2. CASE UNCHANGED vars
    BY <2>2 DEF vars, Shut, Owned
  <2> QED BY <2>1, <2>2, ShutStep, OwnedStep DEF Next
<1>3. Sound /\ Shut /\ Owned /\ [Next]_vars => [Locked]_<<batch, counts, stop>>
  <2> SUFFICES ASSUME Sound, Shut, Owned, [Next]_vars, batch = "closed", late = {}
               PROVE  Locked
    OBVIOUS
  <2>1. CASE CreateBatch
    BY <2>1 DEF CreateBatch
  <2>2. CASE UNCHANGED vars
    BY <2>2 DEF vars, stops
  <2>3. ASSUME NEW q \in Requests, Step(q) PROVE Locked
    <3>1. pc[q] \notin {"write", "insert", "count"}
      BY DEF Shut
    <3>2. ~WriteBatchCounts(q) /\ ~Close(q) /\ ~Assign(q) /\ ~WriteAssignment(q)
      BY <3>1 DEF WriteBatchCounts, Close, Assign, WriteAssignment, End
    <3>3. ~InsertStop(q) /\ ~EndStops(q) /\ ~WriteStop(q) /\ ~CountStop(q)
      BY <3>1 DEF InsertStop, EndStops, WriteStop, CountStop, End, Goto
    <3>4. ~StartBatchCounts(q) /\ ~StartClose(q) /\ ~StartAssign(q) /\ ~StartStops(q)
      BY DEF StartBatchCounts, StartClose, StartAssign, StartStops, IsOpen
    <3>5. CASE ReadAssignment(q) \/ ReadStop(q) \/ CheckBatch(q) \/ Dies(q)
      BY <3>5 DEF ReadAssignment, ReadStop, CheckBatch, Dies, stops
    <3>6. CASE Import(q)
      <4>1. UNCHANGED <<batch, stop>>
        BY <3>6, ImportFacts DEF CreateImportBatch, stops
      <4>2. ImportCounts(q) => tagged
        BY DEF ImportCounts, Goto, Owned
      <4> QED BY <3>6, <4>1, <4>2, ImportFacts
    <3> QED BY <2>3, <3>2, <3>3, <3>4, <3>5, <3>6 DEF Step
  <2> QED BY <2>1, <2>2, <2>3 DEF Next
<1> QED BY <1>1, <1>2, <1>3, PTL DEF Spec, ClosedIsLocked

-----------------------------------------------------------------------------
(* How often a stop is counted                                               *)

Counting(s) == {q \in WorkOn(s) : pc[q] = "count"}

\* Each request that works on a stop, and each time it was counted, is paid for by
\* a race, but for one; and while the stop is not completed that one is still to
\* come, so that who reads it alone may go on.
PaidFor(s) ==
  /\ IsFiniteSet(WorkOn(s))
  /\ counted[s] + Cardinality(WorkOn(s)) <= races[s] + 1
  /\ stop[s] \notin Completed => counted[s] + Cardinality(Counting(s)) <= races[s]

\* A request that counts is one of those that work on the stop.
LEMMA CountingSize ==
  ASSUME NEW s \in Stops, IsFiniteSet(WorkOn(s))
  PROVE  /\ IsFiniteSet(Counting(s)) /\ Cardinality(WorkOn(s)) \in Nat /\ Cardinality(Counting(s)) \in Nat
         /\ Cardinality(Counting(s)) <= Cardinality(WorkOn(s))
<1>1. Counting(s) \subseteq WorkOn(s)
  BY DEF Counting
<1>2. IsFiniteSet(Counting(s)) /\ Cardinality(Counting(s)) <= Cardinality(WorkOn(s))
  BY <1>1, FS_Subset, Zenon
<1> QED BY <1>2, FS_CardinalityType

\* Who leaves, or stays, leaves the stop paid for.
LEMMA PaidForLess ==
  ASSUME Sound, Sound', NEW s \in Stops, PaidFor(s),
         WorkOn(s)' \subseteq WorkOn(s), Counting(s)' \subseteq Counting(s),
         counted'[s] = counted[s], races'[s] = races[s],
         stop[s] \in Completed => stop'[s] \in Completed
  PROVE  PaidFor(s)'
<1>1. /\ IsFiniteSet(Counting(s)) /\ Cardinality(WorkOn(s)) \in Nat /\ Cardinality(Counting(s)) \in Nat
  BY CountingSize DEF PaidFor
<1>2. IsFiniteSet(WorkOn(s)') /\ Cardinality(WorkOn(s)') <= Cardinality(WorkOn(s))
  BY FS_Subset, Zenon DEF PaidFor
<1>3. IsFiniteSet(Counting(s)') /\ Cardinality(Counting(s)') <= Cardinality(Counting(s))
  BY <1>1, FS_Subset, Zenon
<1>4. Cardinality(WorkOn(s)') \in Nat /\ Cardinality(Counting(s)') \in Nat
  BY <1>2, <1>3, FS_CardinalityType
<1>5. counted[s] \in Nat /\ races[s] \in Nat
  BY ConstantsAssumption DEF Sound, TypeOK
<1> QED BY <1>1, <1>2, <1>3, <1>4, <1>5 DEF PaidFor

\* The others of a stop are not touched by the step of one request.
LEMMA OthersWork ==
  ASSUME NEW q \in Requests, NEW s \in Stops,
         \A p \in Requests \ {q} : pc'[p] = pc[p] /\ task'[p] = task[p]
  PROVE  /\ WorkOn(s)' \ {q} = WorkOn(s) \ {q}
         /\ Counting(s)' \ {q} = Counting(s) \ {q}
BY DEF WorkOn, Counting

\* A request that ends, or that is not about a stop at all.
LEMMA NobodyJoins ==
  ASSUME Sound, NEW q \in Requests, NEW s \in Stops,
         \/ StartBatchCounts(q) \/ StartClose(q) \/ StartAssign(q) \/ ReadAssignment(q) \/ StartStops(q)
         \/ \E from : End(q, from)
         \/ Close(q) \/ InsertStop(q) \/ CheckBatch(q)
  PROVE  WorkOn(s)' \subseteq WorkOn(s) /\ Counting(s)' \subseteq Counting(s)
<1>1. CASE StartBatchCounts(q) \/ StartClose(q) \/ StartAssign(q) \/ ReadAssignment(q) \/ StartStops(q)
  <2>1. PICK t : t.kind # "stop" /\ \E to \in {"check", "insert", "write"} : Begin(q, to, t)
    <3>1. CASE StartBatchCounts(q)
      BY <3>1 DEF StartBatchCounts
    <3>2. CASE StartClose(q) \/ StartStops(q)
      BY <3>2, TaskKinds DEF StartClose, StartStops
    <3>3. CASE StartAssign(q)
      BY <3>3 DEF StartAssign
    <3>4. CASE ReadAssignment(q)
      BY <3>4 DEF ReadAssignment
    <3> QED BY <1>1, <3>1, <3>2, <3>3, <3>4
  <2>2. task'[q].kind # "stop" /\ \A p \in Requests \ {q} : pc'[p] = pc[p] /\ task'[p] = task[p]
    BY <2>1 DEF Begin, Sound, TypeOK
  <2>3. q \notin WorkOn(s)'
    BY <2>2 DEF WorkOn
  <2> QED BY <2>2, <2>3, OthersWork DEF Counting
<1>2. CASE (\E from : End(q, from)) \/ Close(q)
  <2>1. task'[q] = NoTask /\ \A p \in Requests \ {q} : pc'[p] = pc[p] /\ task'[p] = task[p]
    BY <1>2 DEF End, Close, Sound, TypeOK
  <2>2. q \notin WorkOn(s)'
    BY <2>1, TaskKinds DEF WorkOn
  <2> QED BY <2>1, <2>2, OthersWork DEF Counting
<1>3. CASE InsertStop(q) \/ Goto(q, "check", "write")
  <2>1. task' = task /\ pc'[q] # "count" /\ \A p \in Requests \ {q} : pc'[p] = pc[p]
    BY <1>3, GotoFacts DEF InsertStop, Sound
  <2> QED BY <2>1 DEF WorkOn, Counting
<1> QED BY <1>1, <1>2, <1>3 DEF CheckBatch

\* Every step leaves every stop paid for: a read that is not alone pays with a race,
\* and a count is one request less.
LEMMA PaidForStep ==
  ASSUME Sound, Sound', NEW q \in Requests, Step(q), NEW s \in Stops, PaidFor(s)
  PROVE  PaidFor(s)'
<1> USE DEF Sound
<1> DEFINE t == task[q]
<1>1. CASE \/ StartBatchCounts(q) \/ StartClose(q) \/ StartAssign(q) \/ ReadAssignment(q) \/ StartStops(q)
           \/ WriteBatchCounts(q) \/ Close(q) \/ Assign(q) \/ WriteAssignment(q) \/ EndStops(q)
           \/ CheckBatch(q) \/ Dies(q)
  <2>1. UNCHANGED stops
    BY <1>1 DEF StartBatchCounts, StartClose, StartAssign, ReadAssignment, StartStops, WriteBatchCounts,
                Close, Assign, WriteAssignment, EndStops, CheckBatch, Dies
  <2>2. WorkOn(s)' \subseteq WorkOn(s) /\ Counting(s)' \subseteq Counting(s)
    BY <1>1, NobodyJoins DEF WriteBatchCounts, Assign, WriteAssignment, EndStops, Dies
  <2> QED BY <2>1, <2>2, PaidForLess DEF stops
<1>2. CASE InsertStop(q)
  <2>1. counted' = counted /\ races' = races /\ (stop[s] # "absent" => stop'[s] = stop[s])
    BY <1>2 DEF InsertStop, TypeOK
  <2> QED BY <1>2, <2>1, NobodyJoins, PaidForLess DEF Completed
<1>3. ASSUME \A p \in Requests \ {q} : pc'[p] = pc[p] /\ task'[p] = task[p],
             q \notin WorkOn(s), q \notin WorkOn(s)',
             counted'[s] = counted[s], races'[s] = races[s], stop'[s] = stop[s]
      PROVE  PaidFor(s)'
  <2>1. WorkOn(s)' \subseteq WorkOn(s) /\ Counting(s)' \subseteq Counting(s)
    BY <1>3, OthersWork DEF Counting
  <2> QED BY <1>3, <2>1, PaidForLess
<1>4. CASE ReadStop(q)
  <2>1. PICK x \in Stops, to \in StopStatus \ {"absent"} :
          /\ MayUpdate(x)
          /\ races' = [races EXCEPT ![x] = IF WorkOn(x) = {} THEN @ ELSE @ + 1]
          /\ Begin(q, "check", [kind |-> "stop", stop |-> x, to |-> to, rider |-> stopOf[x]])
          /\ UNCHANGED <<batch, tagged, counts, stop, stopOf, counted, history, faults>>
    BY <1>4 DEF ReadStop
  <2>2. /\ pc[q] = "idle" /\ pc'[q] = "check" /\ task'[q].stop = x
        /\ \A p \in Requests \ {q} : pc'[p] = pc[p] /\ task'[p] = task[p]
    BY <2>1 DEF Begin, TypeOK
  <2>3. q \notin WorkOn(s)
    BY <2>2, TaskKinds DEF ShapeOf, WorkOn
  <2>4. CASE x # s
    <3>1. q \notin WorkOn(s)' /\ races'[s] = races[s]
      BY <2>1, <2>2, <2>4 DEF WorkOn, TypeOK
    <3> QED BY <1>3, <2>1, <2>2, <2>3, <3>1
  <2>5. CASE x = s
    <3>1. stop[s] \notin Completed
      BY <2>1, <2>5 DEF MayUpdate
    <3>2. Counting(s)' = Counting(s) /\ WorkOn(s)' \subseteq WorkOn(s) \cup {q}
      BY <2>2, <2>3, OthersWork DEF Counting
    <3>3. IsFiniteSet(WorkOn(s) \cup {q}) /\ Cardinality(WorkOn(s) \cup {q}) = Cardinality(WorkOn(s)) + 1
      BY <2>3, FS_AddElement DEF PaidFor
    <3>4. IsFiniteSet(WorkOn(s)') /\ Cardinality(WorkOn(s)') <= Cardinality(WorkOn(s) \cup {q})
      BY <3>2, <3>3, FS_Subset, Zenon
    <3>5. /\ Cardinality(WorkOn(s)) \in Nat /\ Cardinality(WorkOn(s)') \in Nat /\ Cardinality(Counting(s)) \in Nat
      BY <3>4, CountingSize, FS_CardinalityType DEF PaidFor
    <3>6. counted[s] \in Nat /\ races[s] \in Nat /\ counted'[s] = counted[s]
      BY <2>1, ConstantsAssumption DEF TypeOK
    <3>7. CASE WorkOn(s) = {}
      <4>1. Cardinality(WorkOn(s)) = 0 /\ races'[s] = races[s]
        BY <2>1, <2>5, <3>7, FS_EmptySet DEF TypeOK
      <4> QED BY <3>1, <3>2, <3>3, <3>4, <3>5, <3>6, <4>1 DEF PaidFor
    <3>8. CASE WorkOn(s) # {}
      <4>1. races'[s] = races[s] + 1
        BY <2>1, <2>5, <3>8 DEF TypeOK
      <4> QED BY <3>1, <3>2, <3>3, <3>4, <3>5, <3>6, <4>1 DEF PaidFor
    <3> QED BY <3>7, <3>8
  <2> QED BY <2>4, <2>5
<1>5. CASE WriteStop(q)
  <2>1. t \in StopTask /\ pc[q] = "write" /\ t.kind = "stop"
    BY <1>5, TaskKinds DEF WriteStop, TypeOK, Goto, End
  <2>2. t.stop \in Stops
    BY <2>1 DEF StopTask
  <2>3. counted' = counted /\ races' = races /\ stop' = [stop EXCEPT ![t.stop] = t.to]
    BY <1>5 DEF WriteStop
  <2>4. \A p \in Requests \ {q} : pc'[p] = pc[p] /\ task'[p] = task[p]
    BY <1>5, EndFacts, GotoFacts DEF WriteStop
  <2>5. task'[q] = t \/ task'[q] = NoTask
    BY <1>5, EndFacts, GotoFacts DEF WriteStop
  <2>6. CASE t.stop # s
    <3>1. q \notin WorkOn(s) /\ q \notin WorkOn(s)'
      BY <2>5, <2>6, TaskKinds DEF WorkOn
    <3> QED BY <1>3, <2>2, <2>3, <2>4, <2>6, <3>1 DEF TypeOK
  <2>7. CASE t.stop = s
    <3>1. q \in WorkOn(s) /\ q \notin Counting(s)
      BY <2>1, <2>7 DEF WorkOn, Counting
    <3>2. WorkOn(s)' \subseteq WorkOn(s)
      BY <2>4, <3>1, OthersWork
    <3>3. IsFiniteSet(WorkOn(s)') /\ Cardinality(WorkOn(s)') <= Cardinality(WorkOn(s))
      BY <3>2, FS_Subset, Zenon DEF PaidFor
    <3>4. /\ Cardinality(WorkOn(s)) \in Nat /\ Cardinality(WorkOn(s)') \in Nat
      BY <3>3, FS_CardinalityType DEF PaidFor
    <3>5. counted[s] \in Nat /\ races[s] \in Nat
      BY ConstantsAssumption DEF TypeOK
    <3>6. stop'[s] = t.to
      BY <2>2, <2>3, <2>7 DEF TypeOK
    <3>7. CASE t.to \in Completed
      BY <2>3, <3>3, <3>4, <3>5, <3>6, <3>7 DEF PaidFor
    <3>8. CASE t.to \notin Completed
      <4>1. End(q, "write")
        BY <1>5, <3>8 DEF WriteStop
      <4>2. q \notin Counting(s)'
        BY <4>1, EndFacts, TaskKinds DEF Counting
      <4>3. Counting(s)' \subseteq WorkOn(s) \ {q}
        BY <2>4, <4>2, OthersWork DEF Counting
      <4>4. IsFiniteSet(WorkOn(s) \ {q}) /\ Cardinality(WorkOn(s) \ {q}) = Cardinality(WorkOn(s)) - 1
        BY <3>1, FS_RemoveElement DEF PaidFor
      <4>5. IsFiniteSet(Counting(s)') /\ Cardinality(Counting(s)') <= Cardinality(WorkOn(s) \ {q})
        BY <4>3, <4>4, FS_Subset, Zenon
      <4>6. Cardinality(Counting(s)') \in Nat
        BY <4>5, FS_CardinalityType
      <4> QED BY <2>3, <3>3, <3>4, <3>5, <4>4, <4>5, <4>6 DEF PaidFor
    <3> QED BY <3>7, <3>8
  <2> QED BY <2>6, <2>7
<1>6. CASE CountStop(q)
  <2>1. End(q, "count") /\ counted' = [counted EXCEPT ![t.stop] = @ + 1] /\ UNCHANGED <<stop, races>>
    BY <1>6 DEF CountStop
  <2>2. t \in StopTask /\ t.kind = "stop" /\ pc[q] = "count"
    BY <2>1, EndFacts, TaskKinds DEF ShapeOf
  <2>3. t.stop \in Stops
    BY <2>2 DEF StopTask
  <2>4. task'[q] = NoTask /\ \A p \in Requests \ {q} : pc'[p] = pc[p] /\ task'[p] = task[p]
    BY <2>1, EndFacts
  <2>5. q \notin WorkOn(s)'
    BY <2>4, TaskKinds DEF WorkOn
  <2>6. CASE t.stop # s
    <3>1. q \notin WorkOn(s)
      BY <2>6 DEF WorkOn
    <3> QED BY <1>3, <2>1, <2>3, <2>4, <2>5, <2>6, <3>1 DEF TypeOK
  <2>7. CASE t.stop = s
    <3>1. q \in WorkOn(s) /\ q \in Counting(s)
      BY <2>2, <2>7 DEF WorkOn, Counting
    <3>2. WorkOn(s)' = WorkOn(s) \ {q} /\ Counting(s)' = Counting(s) \ {q}
      BY <2>4, <2>5, OthersWork DEF Counting
    <3>3. /\ IsFiniteSet(WorkOn(s) \ {q}) /\ Cardinality(WorkOn(s) \ {q}) = Cardinality(WorkOn(s)) - 1
      BY <3>1, FS_RemoveElement DEF PaidFor
    <3>4. Cardinality(Counting(s) \ {q}) = Cardinality(Counting(s)) - 1
      BY <3>1, CountingSize, FS_RemoveElement DEF PaidFor
    <3>5. /\ Cardinality(WorkOn(s)) \in Nat /\ Cardinality(Counting(s)) \in Nat
      BY CountingSize DEF PaidFor
    <3>6. counted[s] \in Nat /\ races[s] \in Nat /\ counted'[s] = counted[s] + 1
      BY <2>1, <2>3, <2>7, ConstantsAssumption DEF TypeOK
    <3> QED BY <2>1, <3>2, <3>3, <3>4, <3>5, <3>6 DEF PaidFor
  <2> QED BY <2>6, <2>7
<1>7. CASE Import(q)
  <2>1. q \notin WorkOn(s) /\ q \notin WorkOn(s)'
    BY <1>7, ImportFacts, TaskKinds DEF WorkOn
  <2> QED BY <1>3, <1>7, <2>1, ImportFacts DEF stops
<1> QED BY <1>1, <1>2, <1>4, <1>5, <1>6, <1>7 DEF Step

\* Every step of a request begins it, ends it, or takes it to its next statement.
LEMMA StepKinds ==
  ASSUME Sound, NEW q \in Requests, Step(q)
  PROVE  \/ \E to, x : Begin(q, to, x)
         \/ Close(q)
         \/ \E from, to : Goto(q, from, to) /\ from # "count"
         \/ \E from : End(q, from)
<1>1. StartBatchCounts(q) \/ StartClose(q) \/ StartStops(q) => \E to, x : Begin(q, to, x)
  BY Zenon DEF StartBatchCounts, StartClose, StartStops
<1>2. StartAssign(q) \/ ReadAssignment(q) \/ ReadStop(q) => \E to, x : Begin(q, to, x)
  BY Zenon DEF StartAssign, ReadAssignment, ReadStop
<1>3. InsertStop(q) \/ CheckBatch(q) \/ WriteStop(q) =>
        (\E from, to : Goto(q, from, to) /\ from # "count") \/ \E from : End(q, from)
  BY DEF InsertStop, CheckBatch, WriteStop
<1>4. \/ WriteBatchCounts(q) \/ Assign(q) \/ WriteAssignment(q) \/ EndStops(q) \/ CountStop(q) \/ Dies(q)
      => \E from : End(q, from)
  BY DEF WriteBatchCounts, Assign, WriteAssignment, EndStops, CountStop, Dies
<1> QED BY <1>1, <1>2, <1>3, <1>4, ImportFacts DEF Step

\* Of all the steps, only the death of a request can leave a stop out of the
\* counts: the one it worked on.
LEMMA UncountedStep ==
  ASSUME Sound, Sound', NEW q \in Requests, Step(q), NEW s \in Stops, ~Uncounted(s), Uncounted(s)'
  PROVE  Dies(q) /\ q \in WorkOn(s)
<1> USE DEF Sound
<1> DEFINE t == task[q]
<1>1. CASE Uncounted(s)' /\ stop'[s] = stop[s] /\ stopOf'[s] = stopOf[s] /\ counted'[s] = counted[s]
  <2>1. PICK p \in WorkOn(s) : pc[p] = "count" /\ ~(p \in WorkOn(s)' /\ pc'[p] = "count")
    BY <1>1 DEF Uncounted
  <2>2. p \in Requests /\ task[p] \in StopTask /\ task[p].stop = s
    BY <2>1, TaskKinds DEF WorkOn, TypeOK
  <2>3. pc[q] = "count" /\ p = q
    <3>1. CASE (\E to, x : Begin(q, to, x)) \/ Close(q)
      BY <2>1, <2>2, <3>1 DEF Begin, Close, WorkOn, TypeOK
    <3>2. CASE \E from, to : Goto(q, from, to) /\ from # "count"
      BY <2>1, <2>2, <3>2 DEF Goto, WorkOn, TypeOK
    <3>3. CASE \E from : End(q, from)
      BY <2>1, <2>2, <3>3, EndFacts DEF WorkOn
    <3> QED BY <3>1, <3>2, <3>3, StepKinds
  <2>4. ~CountStop(q)
    <3>1. CountStop(q) => counted'[s] = counted[s] + 1 /\ counted[s] \in Nat
      BY <2>2, <2>3 DEF CountStop, TypeOK
    <3> QED BY <1>1, <3>1
  <2>5. Dies(q)
    <3>1. ~Import(q)
      BY <2>3, ImportFacts
    <3> QED BY <2>3, <2>4, <3>1 DEF Step, StartBatchCounts, WriteBatchCounts, StartClose, Close, StartAssign, Assign,
       ReadAssignment, WriteAssignment, StartStops, InsertStop, EndStops, ReadStop, CheckBatch,
       WriteStop, Begin, Goto, End
  <2> QED BY <2>1, <2>3, <2>5
<1>2. CASE InsertStop(q)
  <2>1. PICK x \in Stops : stop[x] = "absent" /\ stop' = [stop EXCEPT ![x] = "pending"]
                          /\ \A y \in Stops \ {x} : stopOf'[y] = stopOf[y]
    BY <1>2 DEF InsertStop, TypeOK
  <2>2. x # s
    BY <2>1 DEF Uncounted, Completed, TypeOK
  <2> QED BY <1>1, <1>2, <2>1, <2>2 DEF InsertStop, TypeOK
<1>3. CASE WriteStop(q)
  <2>1. t \in StopTask /\ pc[q] = "write" /\ t.kind = "stop" /\ (t.rider = stopOf[s] \/ t.stop # s)
    BY <1>3, TaskKinds DEF WriteStop, TypeOK, Goto, End, KnownTo
  <2>2. CASE t.stop # s
    BY <1>1, <1>3, <2>2 DEF WriteStop, TypeOK
  <2>3. CASE t.stop = s
    <3>1. stop'[s] = t.to /\ stopOf' = stopOf
      BY <1>3, <2>3 DEF WriteStop, TypeOK
    <3>2. t.to \in Completed /\ t.rider # NoRider
      BY <2>1, <2>3, <3>1 DEF Uncounted
    <3>3. pc'[q] = "count" /\ task' = task
      BY <1>3, <3>2, GotoFacts DEF WriteStop
    <3>4. q \in WorkOn(s)'
      BY <2>1, <2>3, <3>3 DEF WorkOn
    <3> QED BY <3>3, <3>4 DEF Uncounted
  <2> QED BY <2>2, <2>3
<1>4. CASE CountStop(q)
  <2>1. t \in StopTask
    BY <1>4 DEF CountStop, End, ShapeOf
  <2>2. t.stop \in Stops
    BY <2>1 DEF StopTask
  <2>3. CASE t.stop = s
    BY <1>4, <2>2, <2>3 DEF CountStop, Uncounted, TypeOK
  <2>4. CASE t.stop # s
    BY <1>1, <1>4, <2>2, <2>4 DEF CountStop, TypeOK
  <2> QED BY <2>3, <2>4
<1>5. CASE ~InsertStop(q) /\ ~WriteStop(q) /\ ~CountStop(q)
  <2>1. UNCHANGED <<stop, stopOf, counted>>
    BY <1>5, ImportFacts DEF Step, StartBatchCounts, WriteBatchCounts, StartClose, Close, StartAssign, Assign,
       ReadAssignment, WriteAssignment, StartStops, EndStops, ReadStop, CheckBatch, Dies, stops
  <2> QED BY <1>1, <2>1
<1> QED BY <1>2, <1>3, <1>4, <1>5

LeftOut == {s \in Stops : Uncounted(s)}

FewLeftOut == IsFiniteSet(LeftOut) /\ Cardinality(LeftOut) <= faults

\* A request works on one stop at a time, so its death leaves out one at most.
LEMMA FewLeftOutStep ==
  ASSUME Sound, Sound', FewLeftOut, NEW q \in Requests, Step(q)
  PROVE  FewLeftOut'
<1>1. faults \in Nat /\ Cardinality(LeftOut) \in Nat
  BY FS_CardinalityType, ConstantsAssumption DEF FewLeftOut, Sound, TypeOK
<1>2. CASE Dies(q)
  <2> DEFINE x == task[q].stop
  <2>1. LeftOut' \subseteq LeftOut \cup {x}
    BY <1>2, UncountedStep DEF LeftOut, WorkOn
  <2>2. IsFiniteSet(LeftOut \cup {x}) /\ Cardinality(LeftOut \cup {x}) <= Cardinality(LeftOut) + 1
    <3>1. CASE x \in LeftOut
      <4>1. LeftOut \cup {x} = LeftOut
        BY <3>1
      <4> QED BY <1>1, <4>1 DEF FewLeftOut
    <3>2. CASE x \notin LeftOut
      <4>1. IsFiniteSet(LeftOut \cup {x}) /\ Cardinality(LeftOut \cup {x}) = Cardinality(LeftOut) + 1
        BY <3>2, FS_AddElement, Zenon DEF FewLeftOut
      <4> QED BY <1>1, <4>1
    <3> QED BY <3>1, <3>2
  <2> HIDE DEF x
  <2>3. IsFiniteSet(LeftOut') /\ Cardinality(LeftOut') <= Cardinality(LeftOut \cup {x})
    BY <2>1, <2>2, FS_Subset, Zenon
  <2>4. Cardinality(LeftOut') \in Nat /\ Cardinality(LeftOut \cup {x}) \in Nat
    BY <2>2, <2>3, FS_CardinalityType
  <2>5. faults' = faults + 1
    BY <1>2 DEF Dies
  <2> QED BY <1>1, <2>2, <2>3, <2>4, <2>5 DEF FewLeftOut
<1>3. CASE ~Dies(q)
  <2>1. LeftOut' \subseteq LeftOut
    BY <1>3, UncountedStep DEF LeftOut
  <2>2. IsFiniteSet(LeftOut') /\ Cardinality(LeftOut') <= Cardinality(LeftOut)
    BY <2>1, FS_Subset, Zenon DEF FewLeftOut
  <2>3. Cardinality(LeftOut') \in Nat
    BY <2>2, FS_CardinalityType
  <2>4. faults' = faults
    BY <1>3, ImportFacts DEF Step, StartBatchCounts, WriteBatchCounts, StartClose, Close, StartAssign, Assign,
       ReadAssignment, WriteAssignment, StartStops, InsertStop, EndStops, ReadStop, CheckBatch,
       WriteStop, CountStop
  <2> QED BY <1>1, <2>2, <2>3, <2>4 DEF FewLeftOut
<1> QED BY <1>2, <1>3

\* A completed stop goes into the counts once, once more at most for every race on
\* it, and is left out only by a death (StopCountedOnce), whatever the number of
\* riders, stops and requests.
THEOREM CountedOnce == Spec => []StopCountedOnce
<1> DEFINE Inv == Sound /\ (\A s \in Stops : PaidFor(s)) /\ FewLeftOut
<1>1. Init => Inv
  <2> SUFFICES ASSUME Init PROVE Inv
    OBVIOUS
  <2>1. Sound
    BY SoundInit
  <2>2. ASSUME NEW s \in Stops PROVE PaidFor(s)
    <3>1. WorkOn(s) = {} /\ Counting(s) = {} /\ counted[s] = 0 /\ races[s] = 0
      BY TaskKinds DEF Init, WorkOn, Counting
    <3> QED BY <3>1, FS_EmptySet DEF PaidFor
  <2>3. LeftOut = {} /\ faults = 0
    BY DEF Init, LeftOut, Uncounted, Completed
  <2> QED BY <2>1, <2>2, <2>3, FS_EmptySet DEF FewLeftOut
<1>2. Inv /\ [Next]_vars => Inv'
  <2> SUFFICES ASSUME Inv, [Next]_vars PROVE (\A s \in Stops : PaidFor(s))' /\ FewLeftOut'
    BY SoundNext
  <2>1. Sound'
    BY SoundNext
  <2>2. CASE CreateBatch \/ UNCHANGED vars
    <3>1. UNCHANGED <<stops, pc, task, faults>>
      BY <2>2 DEF CreateBatch, vars
    <3>2. ASSUME NEW s \in Stops PROVE PaidFor(s)'
      BY <3>1 DEF PaidFor, WorkOn, Counting, stops
    <3>3. LeftOut' = LeftOut
      BY <3>1 DEF LeftOut, Uncounted, WorkOn, stops
    <3> QED BY <3>1, <3>2, <3>3 DEF FewLeftOut
  <2>3. ASSUME NEW q \in Requests, Step(q)
        PROVE  (\A s \in Stops : PaidFor(s))' /\ FewLeftOut'
    BY <2>1, <2>3, PaidForStep, FewLeftOutStep
  <2> QED BY <2>2, <2>3 DEF Next
<1>3. Inv => StopCountedOnce
  <2> SUFFICES ASSUME Inv PROVE StopCountedOnce
    OBVIOUS
  <2>1. ASSUME NEW s \in Stops PROVE counted[s] <= 1 + races[s]
    <3>1. Cardinality(WorkOn(s)) \in Nat
      BY CountingSize DEF PaidFor
    <3>2. counted[s] \in Nat /\ races[s] \in Nat
      BY ConstantsAssumption DEF Sound, TypeOK
    <3> QED BY <3>1, <3>2 DEF PaidFor
  <2> QED BY <2>1 DEF StopCountedOnce, FewLeftOut, LeftOut
<1> QED BY <1>1, <1>2, <1>3, PTL DEF Spec

-----------------------------------------------------------------------------
(* Counts that were entered                                                  *)

\* The second half of CountsAgree: the parcels of a rider without counted stops,
\* whose assignment was never cut, stay within what was assigned.
WithinAssigned == \A r \in Riders \ uncapped : delivered[r] + failed[r] <= assigned[r]

\* What was checked on a row read earlier still holds when it is written.
THEOREM CountsStayWithin == Spec => []WithinAssigned
<1>1. Init => Sound /\ WithinAssigned
  BY SoundInit DEF Init, WithinAssigned
<1>2. Sound /\ WithinAssigned /\ [Next]_vars => Sound' /\ WithinAssigned'
  <2> SUFFICES ASSUME Sound, WithinAssigned, [Next]_vars PROVE WithinAssigned'
    BY SoundNext
  <2>1. CASE UNCHANGED <<counts, uncapped>>
    BY <2>1 DEF WithinAssigned, counts
  <2>2. ASSUME NEW q \in Requests, Assign(q) PROVE WithinAssigned'
    <3>1. task[q] \in AssignTask
      BY <2>2, TaskKinds DEF Assign, Sound, TypeOK
    <3>2. task[q].rider \in Riders /\ task[q].assigned \in Nat
      BY <3>1, ConstantsAssumption DEF AssignTask
    <3>3. \A r \in Riders : assigned[r] \in Nat
      BY ConstantsAssumption DEF Sound, TypeOK
    <3> QED BY <2>2, <3>2, <3>3 DEF Assign, WithinAssigned, Sound, TypeOK
  <2>3. ASSUME NEW q \in Requests, WriteAssignment(q) PROVE WithinAssigned'
    <3>1. task[q] \in CountsTask
      BY <2>3, TaskKinds DEF WriteAssignment, Sound, TypeOK
    <3>2. task[q].rider \notin uncapped => task[q].delivered + task[q].failed <= assigned[task[q].rider]
      BY <3>1 DEF Sound, KnownTo
    <3> QED BY <2>3, <3>2 DEF WriteAssignment, WithinAssigned, Sound, TypeOK
  <2>4. ASSUME NEW q \in Requests, CountStop(q) PROVE WithinAssigned'
    BY <2>4 DEF CountStop, WithinAssigned, Sound, TypeOK
  <2>7. ASSUME NEW q \in Requests, ImportCounts(q) PROVE WithinAssigned'
    <3>1. PICK r \in Riders, n \in 1 .. MaxCount, d, f \in 0 .. MaxCount :
            /\ d + f <= n /\ n <= assigned'[r]
            /\ assigned' \in [Riders -> 0 .. MaxCount]
            /\ delivered' = [delivered EXCEPT ![r] = d] /\ failed' = [failed EXCEPT ![r] = f]
            /\ \A x \in Riders \ {r} : assigned'[x] = assigned[x]
      BY <2>7, ImportWrites
    <3>2. d + f <= assigned'[r] /\ delivered'[r] = d /\ failed'[r] = f
      BY <3>1, ConstantsAssumption DEF Sound, TypeOK
    <3>3. uncapped' = uncapped
      BY <2>7 DEF ImportCounts
    <3>4. \A x \in Riders \ {r} : delivered'[x] = delivered[x] /\ failed'[x] = failed[x]
      BY <3>1 DEF Sound, TypeOK
    <3> QED BY <3>1, <3>2, <3>3, <3>4 DEF WithinAssigned
  <2>8. ASSUME NEW q \in Requests, Import(q), ~ImportCounts(q) PROVE UNCHANGED <<counts, uncapped>>
    BY <2>8, ImportFacts
  <2>5. ASSUME NEW q \in Requests, Step(q), ~Assign(q), ~WriteAssignment(q), ~CountStop(q), ~Import(q)
        PROVE  UNCHANGED <<counts, uncapped>>
    BY <2>5 DEF Step, StartBatchCounts, WriteBatchCounts, StartClose, Close, StartAssign,
       ReadAssignment, StartStops, InsertStop, EndStops, ReadStop, CheckBatch, WriteStop, Dies, history
  <2>6. CreateBatch \/ UNCHANGED vars => UNCHANGED <<counts, uncapped>>
    BY DEF CreateBatch, vars, history
  <2> QED BY <2>1, <2>2, <2>3, <2>4, <2>5, <2>6, <2>7, <2>8 DEF Next
<1> QED BY <1>1, <1>2, PTL DEF Spec

-----------------------------------------------------------------------------
(* Counts that come from stops                                               *)

\* The parcels a stop has put into the counts, and the stops of a rider.
Put == [s \in Stops |-> counted[s] * Parcels[s]]
StopsOf(r) == {s \in Stops : stopOf[s] = r}

\* A stop that is not there yet is nobody's and in no counts.
NewStopsAreFree == \A s \in Stops : stop[s] = "absent" => stopOf[s] = NoRider /\ counted[s] = 0

\* Parcels are put into the counts in natural numbers.
LEMMA PutType ==
  ASSUME counted \in [Stops -> Nat]
  PROVE  /\ \A s \in Stops : Put[s] \in Nat
         /\ \A r : IsFiniteSet(StopsOf(r))
         /\ \A r : \A s \in StopsOf(r) : Put[s] \in Nat
<1>1. ASSUME NEW s \in Stops PROVE Put[s] \in Nat
  <2>1. counted[s] \in Nat /\ Parcels[s] \in Nat
    BY ConstantsAssumption
  <2>2. counted[s] * Parcels[s] \in Nat
    BY <2>1
  <2> QED BY <2>2 DEF Put
<1>2. ASSUME NEW r PROVE IsFiniteSet(StopsOf(r))
  <2>1. StopsOf(r) \in SUBSET Stops
    BY DEF StopsOf
  <2> QED BY <2>1, FS_Subset, ConstantsAssumption, Zenon
<1> QED BY <1>1, <1>2 DEF StopsOf

\* A new stop changes no sum, wherever it goes: nothing of it is counted.
LEMMA NewStopSum ==
  ASSUME Sound, Sound', NewStopsAreFree, NEW q \in Requests, InsertStop(q), NEW r \in Riders
  PROVE  SumFunctionOnSet(Put, StopsOf(r))' = SumFunctionOnSet(Put, StopsOf(r))
<1>1. PICK s \in Stops : /\ stop[s] = "absent"
                         /\ \A y \in Stops \ {s} : stopOf'[y] = stopOf[y]
                         /\ counted' = counted
  BY DEF InsertStop, Sound, TypeOK
<1>2. stopOf[s] = NoRider /\ counted[s] = 0 /\ r # NoRider
  BY <1>1, ConstantsAssumption DEF NewStopsAreFree
<1>3. Put' = Put
  BY <1>1 DEF Put
<1>4. StopsOf(r)' = StopsOf(r) \/ StopsOf(r)' = StopsOf(r) \cup {s}
  BY <1>1, <1>2 DEF StopsOf
<1>5. CASE StopsOf(r)' = StopsOf(r) \cup {s}
  <2> DEFINE T == StopsOf(r) \cup {s}
  <2>1. (\A y \in T : Put[y] \in Nat) /\ IsFiniteSet(T) /\ s \in T /\ T \ {s} = StopsOf(r)
    <3>1. s \notin StopsOf(r)
      BY <1>2 DEF StopsOf
    <3>2. IsFiniteSet(StopsOf(r))
      BY PutType DEF Sound, TypeOK
    <3>3. IsFiniteSet(T)
      BY <3>2, FS_AddElement
    <3>4. \A y \in T : Put[y] \in Nat
      BY PutType DEF Sound, TypeOK, StopsOf
    <3> QED BY <3>1, <3>3, <3>4
  <2>2. Put[s] = 0
    <3>1. 0 * Parcels[s] = 0
      BY ConstantsAssumption
    <3> QED BY <1>2, <3>1 DEF Put
  <2>3. SumFunctionOnSet(Put, StopsOf(r)) \in Nat
    BY SumType, PutType DEF Sound, TypeOK
  <2> HIDE DEF T
  <2>4. SumFunctionOnSet(Put, T) = Put[s] + SumFunctionOnSet(Put, T \ {s})
    BY <2>1, SumRemove
  <2>5. SumFunctionOnSet(Put, T) = SumFunctionOnSet(Put, StopsOf(r))
    BY <2>1, <2>2, <2>3, <2>4
  <2> QED BY <1>3, <1>5, <2>5 DEF T
<1> QED BY <1>3, <1>4, <1>5

\* Counting once more adds the parcels once more.
LEMMA OnceMore ==
  ASSUME NEW c \in Nat, NEW n \in Nat
  PROVE  (c + 1) * n = c * n + n /\ c * n \in Nat
OBVIOUS

\* Counting a stop adds its parcels to the sum of its rider, and to no other.
LEMMA CountSum ==
  ASSUME Sound, Sound', NEW q \in Requests, CountStop(q), NEW r \in Riders
  PROVE  SumFunctionOnSet(Put, StopsOf(r))' =
           SumFunctionOnSet(Put, StopsOf(r)) + (IF r = task[q].rider THEN Parcels[task[q].stop] ELSE 0)
<1> DEFINE s == task[q].stop
           n == Parcels[s]
<1>1. task[q] \in StopTask /\ task[q].rider = stopOf[s]
  BY DEF CountStop, End, Sound, ShapeOf, KnownTo
<1>2. s \in Stops /\ n \in Nat
  BY <1>1, ConstantsAssumption DEF StopTask
<1>3. counted'[s] = counted[s] + 1 /\ counted[s] \in Nat /\ \A y \in Stops \ {s} : counted'[y] = counted[y]
  BY <1>2 DEF CountStop, Sound, TypeOK
<1>4. StopsOf(r)' = StopsOf(r)
  BY DEF CountStop, StopsOf
<1>5. /\ \A y \in Stops : Put[y] \in Nat /\ Put'[y] \in Nat
      /\ IsFiniteSet(StopsOf(r))
  <2>1. \A y \in Stops : counted'[y] \in Nat /\ Parcels[y] \in Nat
    BY ConstantsAssumption DEF Sound, TypeOK
  <2>2. \A y \in Stops : counted'[y] * Parcels[y] \in Nat
    BY <2>1, OnceMore
  <2> QED BY <2>2, PutType DEF Sound, TypeOK, Put
<1>6. /\ Put'[s] = Put[s] + n
      /\ \A y \in Stops \ {s} : Put'[y] = Put[y]
  <2>1. (counted[s] + 1) * n = counted[s] * n + n
    BY <1>2, <1>3, OnceMore
  <2> QED BY <1>2, <1>3, <2>1 DEF Put
<1>7. SumFunctionOnSet(Put, StopsOf(r)) \in Nat
  BY <1>5, SumType DEF StopsOf
<1> HIDE DEF n
<1>8. CASE r = task[q].rider
  <2>1. s \in StopsOf(r) /\ StopsOf(r) \subseteq Stops
    BY <1>1, <1>2, <1>8 DEF StopsOf
  <2> HIDE DEF s
  <2> DEFINE f == Put
             g == Put'
             T == StopsOf(r)
  <2>2. /\ \A y \in T : f[y] \in Nat /\ g[y] \in Nat
        /\ s \in T /\ \A y \in T \ {s} : g[y] = f[y]
        /\ IsFiniteSet(T)
    BY <1>5, <1>6, <2>1
  <2>3. g[s] = f[s] + n /\ f[s] \in Nat /\ SumFunctionOnSet(f, T) \in Nat
    BY <1>2, <1>5, <1>6, <1>7
  <2> HIDE DEF f, g, T
  <2>4. SumFunctionOnSet(g, T) = SumFunctionOnSet(f, T) - f[s] + g[s]
    BY <2>2, SumChange
  <2>5. SumFunctionOnSet(g, T) = SumFunctionOnSet(f, T) + n
    BY <1>2, <2>3, <2>4
  <2> QED BY <1>4, <1>8, <2>5 DEF f, g, T, n, s
<1>9. CASE r # task[q].rider
  <2>1. s \notin StopsOf(r) /\ StopsOf(r) \subseteq Stops
    BY <1>1, <1>9 DEF StopsOf
  <2> DEFINE f == Put
             g == Put'
             T == StopsOf(r)
  <2>2. \A y \in T : f[y] = g[y]
    BY <1>6, <2>1
  <2> HIDE DEF f, g, T
  <2>3. SumFunctionOnSet(f, T) = SumFunctionOnSet(g, T)
    BY <1>5, <2>2, SumSame DEF T
  <2> QED BY <1>4, <1>7, <1>9, <2>3 DEF f, g, T
<1> QED BY <1>8, <1>9

\* Nothing else touches what was counted, and only entering them by hand or
\* counting a stop touches the counts.
LEMMA CountsMoveWithStops ==
  ASSUME Sound, NEW q \in Requests, Step(q)
  PROVE  /\ InsertStop(q) \/ WriteStop(q) \/ stop' = stop
         /\ InsertStop(q) \/ CountStop(q) \/ UNCHANGED <<stopOf, counted>>
         /\ CountStop(q) \/ UNCHANGED counted
         /\ CountStop(q) \/ UNCHANGED <<delivered, failed>> \/ WriteAssignment(q) \/ ImportCounts(q)
         /\ WriteAssignment(q) \/ ImportCounts(q) \/ UNCHANGED entered
BY ImportFacts DEF Step, StartBatchCounts, WriteBatchCounts, StartClose, Close, StartAssign, Assign,
       ReadAssignment, WriteAssignment, StartStops, InsertStop, EndStops, ReadStop, CheckBatch,
       WriteStop, CountStop, Dies, counts, stops, history

\* A stop is given its rider when it is made, and counted only afterwards.
LEMMA NewStopsStep ==
  ASSUME Sound, Sound', NewStopsAreFree, NEW q \in Requests, Step(q)
  PROVE  NewStopsAreFree'
<1>1. CASE InsertStop(q)
  BY <1>1 DEF InsertStop, NewStopsAreFree, Sound, TypeOK
<1>2. CASE WriteStop(q)
  <2>1. task[q] \in StopTask
    BY <1>2, TaskKinds DEF WriteStop, Sound, TypeOK
  <2>2. task[q].to # "absent" /\ task[q].stop \in Stops
    BY <2>1 DEF StopTask
  <2> QED BY <1>2, <2>2 DEF WriteStop, NewStopsAreFree, Sound, TypeOK
<1>3. CASE CountStop(q)
  <2>1. task[q] \in StopTask
    BY <1>3 DEF CountStop, End, Sound, ShapeOf
  <2>2. stop[task[q].stop] # "absent" /\ task[q].stop \in Stops
    BY <2>1 DEF Sound, KnownTo, StopTask
  <2> QED BY <1>3, <2>2 DEF CountStop, NewStopsAreFree, Sound, TypeOK
<1> QED BY <1>1, <1>2, <1>3, CountsMoveWithStops DEF NewStopsAreFree

\* The counts and the sum move together.
LEMMA FollowStep ==
  ASSUME Sound, Sound', NewStopsAreFree, CountsFollowStops, NEW q \in Requests, Step(q)
  PROVE  CountsFollowStops'
<1> SUFFICES ASSUME NEW r \in Riders \ entered'
             PROVE  delivered'[r] + failed'[r] = SumFunctionOnSet(Put, StopsOf(r))'
  BY DEF CountsFollowStops, Put, StopsOf
<1>1. r \in Riders /\ r \notin entered
  BY CountsMoveWithStops DEF WriteAssignment, ImportCounts
<1>2. delivered[r] + failed[r] = SumFunctionOnSet(Put, StopsOf(r))
  BY <1>1 DEF CountsFollowStops, Put, StopsOf
<1>3. CASE CountStop(q)
  <2>1. task[q] \in StopTask /\ task[q].to \in Completed
    BY <1>3 DEF CountStop, End, Sound, ShapeOf
  <2>2. task[q].stop \in Stops
    BY <2>1 DEF StopTask
  <2>3. /\ Parcels[task[q].stop] \in Nat /\ delivered[r] \in Nat /\ failed[r] \in Nat
    BY <1>1, <2>2, ConstantsAssumption DEF Sound, TypeOK
  <2>4. delivered'[r] + failed'[r] =
          delivered[r] + failed[r] + (IF r = task[q].rider THEN Parcels[task[q].stop] ELSE 0)
    <3>1. CASE r # task[q].rider
      BY <1>1, <1>3, <2>3, <3>1 DEF CountStop, Sound, TypeOK
    <3>2. CASE r = task[q].rider /\ task[q].to = "delivered"
      BY <1>1, <1>3, <2>3, <3>2 DEF CountStop, Sound, TypeOK
    <3>3. CASE r = task[q].rider /\ task[q].to = "failed"
      BY <1>1, <1>3, <2>3, <3>3 DEF CountStop, Sound, TypeOK
    <3> QED BY <2>1, <3>1, <3>2, <3>3 DEF Completed
  <2>5. SumFunctionOnSet(Put, StopsOf(r))' =
          SumFunctionOnSet(Put, StopsOf(r)) + (IF r = task[q].rider THEN Parcels[task[q].stop] ELSE 0)
    BY <1>1, <1>3, CountSum
  <2> QED BY <1>2, <2>4, <2>5
<1>4. CASE InsertStop(q)
  <2>1. delivered' = delivered /\ failed' = failed
    BY <1>4 DEF InsertStop, counts
  <2> QED BY <1>1, <1>2, <1>4, <2>1, NewStopSum
<1>5. CASE WriteAssignment(q)
  <2>1. UNCHANGED <<stopOf, counted>>
    BY <1>5 DEF WriteAssignment, stops
  <2>2. r # task[q].rider
    BY <1>5 DEF WriteAssignment
  <2>3. delivered'[r] = delivered[r] /\ failed'[r] = failed[r]
    BY <1>1, <1>5, <2>2 DEF WriteAssignment, Sound, TypeOK
  <2>4. Put' = Put /\ StopsOf(r)' = StopsOf(r)
    BY <2>1 DEF Put, StopsOf
  <2> QED BY <1>2, <2>3, <2>4
<1>7. CASE ImportCounts(q)
  <2>1. UNCHANGED <<stopOf, counted>>
    BY <1>7 DEF ImportCounts, stops
  <2>2. delivered'[r] = delivered[r] /\ failed'[r] = failed[r]
    BY <1>1, <1>7 DEF ImportCounts, Sound, TypeOK
  <2>3. Put' = Put /\ StopsOf(r)' = StopsOf(r)
    BY <2>1 DEF Put, StopsOf
  <2> QED BY <1>2, <2>2, <2>3
<1>6. CASE UNCHANGED <<stopOf, counted, delivered, failed>>
  <2>1. Put' = Put /\ StopsOf(r)' = StopsOf(r)
    BY <1>6 DEF Put, StopsOf
  <2> QED BY <1>2, <1>6, <2>1
<1> QED BY <1>3, <1>4, <1>5, <1>6, <1>7, CountsMoveWithStops

\* The counts of an assignment that were never entered, by hand or by an import, are
\* the parcels of its stops that were counted, and counts that were entered stay
\* within what was assigned (CountsAgree), whatever the number of riders, stops,
\* requests, imports and parcels.
THEOREM CountsFollow == Spec => []CountsAgree
<1> DEFINE Inv == Sound /\ NewStopsAreFree /\ CountsFollowStops
<1>1. Init => Inv
  <2> SUFFICES ASSUME Init PROVE NewStopsAreFree /\ CountsFollowStops
    BY SoundInit
  <2>1. NewStopsAreFree
    BY DEF Init, NewStopsAreFree
  <2>2. ASSUME NEW r \in Riders PROVE SumFunctionOnSet(Put, StopsOf(r)) = 0
    <3>1. StopsOf(r) = {}
      BY ConstantsAssumption DEF Init, StopsOf
    <3> QED BY <3>1, SumEmpty
  <2>3. \A r \in Riders : delivered[r] + failed[r] = 0
    BY DEF Init
  <2> QED BY <2>1, <2>2, <2>3 DEF CountsFollowStops, Put, StopsOf
<1>2. Inv /\ [Next]_vars => Inv'
  <2> SUFFICES ASSUME Inv, [Next]_vars PROVE Inv'
    OBVIOUS
  <2>1. Sound'
    BY SoundNext
  <2>2. CASE CreateBatch \/ UNCHANGED vars
    <3>1. UNCHANGED <<stop, stopOf, counted, delivered, failed, entered>>
      BY <2>2 DEF CreateBatch, vars, counts, stops, history
    <3> QED BY <2>1, <3>1 DEF NewStopsAreFree, CountsFollowStops
  <2>3. ASSUME NEW q \in Requests, Step(q) PROVE Inv'
    BY <2>1, <2>3, NewStopsStep, FollowStep
  <2> QED BY <2>2, <2>3 DEF Next
<1>3. Inv /\ WithinAssigned => CountsAgree
  BY DEF CountsAgree, WithinAssigned
<1> QED BY <1>1, <1>2, <1>3, CountsStayWithin, PTL DEF Spec

=============================================================================
