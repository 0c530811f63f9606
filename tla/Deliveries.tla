------------------------------ MODULE Deliveries ------------------------------
(***************************************************************************)
(* One delivery batch of the Ops API with its assignments and stops         *)
(* (deliveries.service.ts): what supervisors and riders do to them in       *)
(* requests that read, check and then write, statement by statement, and    *)
(* what the imports of a customer's export do (deliveries-import.service.ts).*)
(*                                                                         *)
(* A rider stands for the assignment the rider has in the batch, en_route   *)
(* for arrived; returned parcels, exceptions, notes and photos are left out.*)
(***************************************************************************)
EXTENDS Naturals, FiniteSets, Functions

CONSTANTS
  Riders,
  NoRider,
  Stops,
  Parcels,    \* parcel_count of each stop
  Requests,   \* requests that may be in flight at once
  MaxCount,   \* bound: counts entered by hand or by an import
  MaxRaces,   \* bound: overlapping requests for one stop
  MaxFaults   \* bound: requests that die

ASSUME ConstantsAssumption ==
  /\ NoRider \notin Riders
  /\ IsFiniteSet(Stops)
  /\ Parcels \in [Stops -> Nat \ {0}]
  /\ MaxCount \in Nat \ {0} /\ MaxRaces \in Nat /\ MaxFaults \in Nat

BatchStatus == {"absent", "open", "in_progress", "closed"}
Completed   == {"delivered", "failed"}
StopStatus  == {"absent", "pending", "arrived"} \cup Completed

VARIABLES
  batch,      \* status of the batch
  tagged,     \* BOOLEAN: manifest_ref = 'speedaf-import', by which an import finds it
  assigned,   \* [Riders -> Nat]: assigned_count, 0 without an assignment
  delivered,  \* [Riders -> Nat]: delivered_count
  failed,     \* [Riders -> Nat]: failed_count
  stop,       \* [Stops -> StopStatus]
  stopOf,     \* [Stops -> Riders \cup {NoRider}]: assignment_id
  pc,         \* the statement each request issues next
  task,       \* what each request was asked and has read
  entered,    \* riders whose counts were ever entered by hand or by an import
  uncapped,   \* riders whose counts came from stops or whose assignment was cut
  counted,    \* [Stops -> Nat]: how often a stop went into the counts
  races,      \* [Stops -> Nat]: requests begun while another worked on the stop
  late,       \* requests in flight when the batch was closed, and still
  faults

counts  == <<assigned, delivered, failed>>
stops   == <<stop, stopOf, counted, races>>
history == <<entered, uncapped>>
vars    == <<batch, tagged, counts, stops, pc, task, history, late, faults>>

StopTask   == [kind : {"stop"}, stop : Stops, to : StopStatus \ {"absent"}, rider : Riders \cup {NoRider}]
CountsTask == [kind : {"counts"}, rider : Riders, delivered : Nat, failed : Nat]
AssignTask == [kind : {"assign"}, rider : Riders, assigned : 1 .. MaxCount]
BatchTask  == [kind : {"batch"}, seen : BatchStatus]
NoTask     == [kind |-> "none"]
StopsTask  == [kind |-> "stops"]
CloseTask  == [kind |-> "close"]
ImportTask == [kind |-> "import"]
Tasks      == {NoTask, StopsTask, CloseTask, ImportTask} \cup StopTask \cup CountsTask \cup AssignTask \cup BatchTask

Init ==
  /\ batch = "absent" /\ tagged = FALSE
  /\ assigned = [r \in Riders |-> 0]
  /\ delivered = [r \in Riders |-> 0]
  /\ failed = [r \in Riders |-> 0]
  /\ stop = [s \in Stops |-> "absent"]
  /\ stopOf = [s \in Stops |-> NoRider]
  /\ pc = [q \in Requests |-> "idle"]
  /\ task = [q \in Requests |-> NoTask]
  /\ entered = {} /\ uncapped = {} /\ late = {}
  /\ counted = [s \in Stops |-> 0]
  /\ races = [s \in Stops |-> 0]
  /\ faults = 0

Begin(q, to, t) ==
  /\ pc[q] = "idle"
  /\ pc' = [pc EXCEPT ![q] = to]
  /\ task' = [task EXCEPT ![q] = t]
  /\ UNCHANGED late

Goto(q, from, to) ==
  /\ pc[q] = from
  /\ pc' = [pc EXCEPT ![q] = to]
  /\ UNCHANGED <<task, late>>

End(q, from) ==
  /\ pc[q] = from
  /\ pc' = [pc EXCEPT ![q] = "idle"]
  /\ task' = [task EXCEPT ![q] = NoTask]
  /\ late' = late \ {q}

-----------------------------------------------------------------------------
(* Batches.                                                                 *)

\* createBatch; the body may name any manifest_ref.
CreateBatch ==
  /\ batch = "absent"
  /\ batch' = "open"
  /\ tagged' \in BOOLEAN
  /\ UNCHANGED <<counts, stops, pc, task, history, late, faults>>

\* assertOpen, on the batch a request has just loaded.
IsOpen == batch \in {"open", "in_progress"}

\* updateBatchCounts; the received and sorted counts themselves are left out.
StartBatchCounts(q) ==
  /\ IsOpen
  /\ Begin(q, "write", [kind |-> "batch", seen |-> batch])
  /\ UNCHANGED <<batch, tagged, counts, stops, history, faults>>

\* Writes back the status it has read, over a close that came in between.
WriteBatchCounts(q) ==
  /\ task[q].kind = "batch"
  /\ End(q, "write")
  /\ batch' = IF task[q].seen = "open" THEN "in_progress" ELSE task[q].seen
  /\ UNCHANGED <<tagged, counts, stops, history, faults>>

StartClose(q) ==
  /\ IsOpen
  /\ Begin(q, "write", CloseTask)
  /\ UNCHANGED <<batch, tagged, counts, stops, history, faults>>

Close(q) ==
  /\ task[q].kind = "close"
  /\ pc[q] = "write"
  /\ pc' = [pc EXCEPT ![q] = "idle"]
  /\ task' = [task EXCEPT ![q] = NoTask]
  /\ late' = {p \in Requests \ {q} : pc[p] # "idle"}
  /\ batch' = "closed"
  /\ UNCHANGED <<tagged, counts, stops, history, faults>>

-----------------------------------------------------------------------------
(* Assignments.                                                             *)

\* assignOperator: a second assignment of the rider replaces the first.
StartAssign(q) ==
  /\ IsOpen
  /\ \E r \in Riders, n \in 1 .. MaxCount :
       Begin(q, "write", [kind |-> "assign", rider |-> r, assigned |-> n])
  /\ UNCHANGED <<batch, tagged, counts, stops, history, faults>>

Assign(q) ==
  LET r == task[q].rider
      n == task[q].assigned
  IN
  /\ task[q].kind = "assign"
  /\ End(q, "write")
  /\ assigned' = [assigned EXCEPT ![r] = n]
  /\ uncapped' = IF n < assigned[r] THEN uncapped \cup {r} ELSE uncapped
  /\ UNCHANGED <<batch, tagged, delivered, failed, stops, entered, faults>>

\* updateAssignment: a count the body does not name keeps the value read.
ReadAssignment(q) ==
  \E r \in Riders :
    /\ assigned[r] > 0
    /\ \E d \in 0 .. MaxCount \cup {delivered[r]}, f \in 0 .. MaxCount \cup {failed[r]} :
         /\ d + f <= assigned[r]
         /\ Begin(q, "check", [kind |-> "counts", rider |-> r, delivered |-> d, failed |-> f])
    /\ UNCHANGED <<batch, tagged, counts, stops, history, faults>>

WriteAssignment(q) ==
  LET r == task[q].rider IN
  /\ task[q].kind = "counts"
  /\ End(q, "write")
  /\ delivered' = [delivered EXCEPT ![r] = task[q].delivered]
  /\ failed' = [failed EXCEPT ![r] = task[q].failed]
  /\ entered' = entered \cup {r}
  /\ UNCHANGED <<batch, tagged, assigned, stops, uncapped, faults>>

-----------------------------------------------------------------------------
(* Stops.                                                                   *)

StartStops(q) ==
  /\ IsOpen
  /\ Begin(q, "insert", StopsTask)
  /\ UNCHANGED <<batch, tagged, counts, stops, history, faults>>

\* createStops inserts one stop after another.
InsertStop(q) ==
  /\ Goto(q, "insert", "insert")
  /\ \E s \in Stops, r \in {x \in Riders : assigned[x] > 0} \cup {NoRider} :
       /\ stop[s] = "absent"
       /\ stop' = [stop EXCEPT ![s] = "pending"]
       /\ stopOf' = [stopOf EXCEPT ![s] = r]
  /\ UNCHANGED <<batch, tagged, counts, counted, races, history, faults>>

EndStops(q) ==
  /\ End(q, "insert")
  /\ UNCHANGED <<batch, tagged, counts, stops, history, faults>>

WorkOn(s) == {q \in Requests : task[q].kind = "stop" /\ task[q].stop = s}

\* Mutant: a stop that is completed may be updated again.
MayUpdateAlways(s) == stop[s] # "absent"

MayUpdate(s) == stop[s] \notin {"absent"} \cup Completed

\* updateStopStatus, the SELECT of the stop; "already completed" is decided on
\* what it returns.
ReadStop(q) ==
  \E s \in Stops, to \in StopStatus \ {"absent"} :
    /\ MayUpdate(s)
    /\ WorkOn(s) # {} => races[s] < MaxRaces
    /\ races' = [races EXCEPT ![s] = IF WorkOn(s) = {} THEN @ ELSE @ + 1]
    /\ Begin(q, "check", [kind |-> "stop", stop |-> s, to |-> to, rider |-> stopOf[s]])
    /\ UNCHANGED <<batch, tagged, counts, stop, stopOf, counted, history, faults>>

\* Mutant: whether the batch is closed is not asked.
CheckBatchNever(q) ==
  /\ Goto(q, "check", "write")
  /\ UNCHANGED <<batch, tagged, counts, stops, history, faults>>

\* The batch of the stop or assignment is loaded second.
CheckBatch(q) ==
  /\ \/ IsOpen /\ Goto(q, "check", "write")
     \/ ~IsOpen /\ End(q, "check")
  /\ UNCHANGED <<batch, tagged, counts, stops, history, faults>>

WriteStop(q) ==
  LET t == task[q] IN
  /\ t.kind = "stop"
  /\ IF t.to \in Completed /\ t.rider # NoRider
       THEN Goto(q, "write", "count") ELSE End(q, "write")
  /\ stop' = [stop EXCEPT ![t.stop] = t.to]
  /\ UNCHANGED <<batch, tagged, counts, stopOf, counted, races, history, faults>>

\* ... and the UPDATE of the assignment, which adds to what is there.
CountStop(q) ==
  LET t == task[q]
      n == Parcels[t.stop]
  IN
  /\ End(q, "count")
  /\ delivered' = [delivered EXCEPT ![t.rider] = IF t.to = "delivered" THEN @ + n ELSE @]
  /\ failed' = [failed EXCEPT ![t.rider] = IF t.to = "failed" THEN @ + n ELSE @]
  /\ counted' = [counted EXCEPT ![t.stop] = @ + 1]
  /\ uncapped' = uncapped \cup {t.rider}
  /\ UNCHANGED <<batch, tagged, assigned, stop, stopOf, races, entered, faults>>

-----------------------------------------------------------------------------
(* importSpeedaf, for the couriers of one amoeba.  It asks neither whether   *)
(* the batch is open nor for its stops.                                      *)

\* importBatchFor, the SELECT: the batch carries the tag, or there is none yet.
StartImport(q) ==
  /\ \/ batch # "absent" /\ tagged /\ Begin(q, "upsert", ImportTask)
     \/ batch = "absent" /\ Begin(q, "create", ImportTask)
  /\ UNCHANGED <<batch, tagged, counts, stops, history, faults>>

\* ... and the INSERT.  If there is a batch by now, the import makes a second one
\* of its own, which is another batch than this.
CreateImportBatch(q) ==
  /\ batch = "absent"
  /\ Goto(q, "create", "upsert")
  /\ batch' = "in_progress" /\ tagged' = TRUE
  /\ UNCHANGED <<counts, stops, history, faults>>

ImportElsewhere(q) ==
  /\ batch # "absent"
  /\ End(q, "create")
  /\ UNCHANGED <<batch, tagged, counts, stops, history, faults>>

\* Mutant: the assigned count is overwritten like the others.
ImportOverwrites(q) ==
  \E r \in Riders, n \in 1 .. MaxCount, d, f \in 0 .. MaxCount :
    /\ d + f <= n
    /\ Goto(q, "upsert", "upsert")
    /\ assigned' = [assigned EXCEPT ![r] = n]
    /\ delivered' = [delivered EXCEPT ![r] = d]
    /\ failed' = [failed EXCEPT ![r] = f]
    /\ entered' = entered \cup {r}
    /\ UNCHANGED <<batch, tagged, stops, uncapped, faults>>

\* upsertAssignment, for one courier after another (two may be the same rider):
\* every waybill is assigned, and delivered, failed, returned or still out.
ImportCounts(q) ==
  \E r \in Riders, n \in 1 .. MaxCount, d, f \in 0 .. MaxCount :
    /\ d + f <= n
    /\ Goto(q, "upsert", "upsert")
    /\ assigned' = [assigned EXCEPT ![r] = IF n > @ THEN n ELSE @]
    /\ delivered' = [delivered EXCEPT ![r] = d]
    /\ failed' = [failed EXCEPT ![r] = f]
    /\ entered' = entered \cup {r}
    /\ UNCHANGED <<batch, tagged, stops, uncapped, faults>>

\* The received and sorted counts rolled up at the end are left out.
EndImport(q) ==
  /\ End(q, "upsert")
  /\ UNCHANGED <<batch, tagged, counts, stops, history, faults>>

Import(q) ==
  \/ StartImport(q) \/ CreateImportBatch(q) \/ ImportElsewhere(q)
  \/ ImportCounts(q) \/ EndImport(q)

-----------------------------------------------------------------------------
\* The process dies, or a statement fails, between two statements of a request.
Dies(q) ==
  /\ faults < MaxFaults
  /\ faults' = faults + 1
  /\ pc[q] # "idle"
  /\ End(q, pc[q])
  /\ UNCHANGED <<batch, tagged, counts, stops, history>>

Step(q) ==
  \/ StartBatchCounts(q) \/ WriteBatchCounts(q) \/ StartClose(q) \/ Close(q)
  \/ StartAssign(q) \/ Assign(q) \/ ReadAssignment(q) \/ WriteAssignment(q)
  \/ StartStops(q) \/ InsertStop(q) \/ EndStops(q)
  \/ ReadStop(q) \/ CheckBatch(q) \/ WriteStop(q) \/ CountStop(q)
  \/ Import(q) \/ Dies(q)

Next == CreateBatch \/ \E q \in Requests : Step(q)

Spec == Init /\ [][Next]_vars

-----------------------------------------------------------------------------
TypeOK ==
  /\ batch \in BatchStatus /\ tagged \in BOOLEAN
  /\ assigned \in [Riders -> 0 .. MaxCount]
  /\ delivered \in [Riders -> Nat] /\ failed \in [Riders -> Nat]
  /\ stop \in [Stops -> StopStatus]
  /\ stopOf \in [Stops -> Riders \cup {NoRider}]
  /\ pc \in [Requests -> {"idle", "check", "insert", "write", "count", "create", "upsert"}]
  /\ task \in [Requests -> Tasks]
  /\ entered \subseteq Riders /\ uncapped \subseteq Riders
  /\ counted \in [Stops -> Nat] /\ races \in [Stops -> 0 .. MaxRaces]
  /\ late \subseteq Requests
  /\ faults \in 0 .. MaxFaults

\* A completed stop that is not in the counts and that no request is about to count.
Uncounted(s) ==
  /\ stop[s] \in Completed /\ stopOf[s] # NoRider /\ counted[s] = 0
  /\ ~\E q \in WorkOn(s) : pc[q] = "count"

\* A completed stop goes into the counts once: once more at most for every
\* request that overlapped with another on the same stop, and not at all only if
\* a request died, which loses one stop at most.
StopCountedOnce ==
  /\ \A s \in Stops : counted[s] <= 1 + races[s]
  /\ Cardinality({s \in Stops : Uncounted(s)}) <= faults

\* Stop -> assignment: the counts of an assignment that were never entered, by hand
\* or by an import, are the parcels of its stops that were counted, whatever else
\* happens to the batch and to the other stops meanwhile.
CountsFollowStops ==
  \A r \in Riders \ entered :
    delivered[r] + failed[r] =
      SumFunctionOnSet([s \in Stops |-> counted[s] * Parcels[s]], {s \in Stops : stopOf[s] = r})

\* And delivered + failed stay within what was assigned, as long as the rider has
\* no counted stops and nobody has cut the assignment, although counts entered by
\* hand are checked on a row that a supervisor or an import may write before they
\* are: an import only ever raises what was assigned (GREATEST).
CountsAgree ==
  /\ CountsFollowStops
  /\ \A r \in Riders \ uncapped : delivered[r] + failed[r] <= assigned[r]

\* Once the requests that were in flight when it was closed have ended, a closed
\* batch is locked (assertOpen): its status and its stops for good, its counts
\* unless it is an import's own, which later imports may still overwrite.
ClosedIsLocked ==
  [][batch = "closed" /\ late = {} =>
       /\ UNCHANGED <<batch, stop>>
       /\ UNCHANGED counts \/ (tagged /\ \E q \in Requests : ImportCounts(q))]_<<batch, counts, stop>>
=============================================================================
