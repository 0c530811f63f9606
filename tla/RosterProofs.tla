----------------------------- MODULE RosterProofs -----------------------------
(***************************************************************************)
(* Who holds a vehicle, who is placed in a cohort and who has a bed, for    *)
(* every number of operators, vehicles, sites, beds and requests.           *)
(***************************************************************************)
EXTENDS Roster, FiniteSetTheorems, TLAPS

\* What a request keeps at each of its statements.
ShapeOf(q) ==
  /\ pc[q] \in Placing => task[q] \in PlaceTask
  /\ pc[q] \in {"bed", "depot", "holder"} => task[q] \in SaveTask
  /\ pc[q] \in {"depot", "holder"} => task[q].names
  /\ pc[q] = "warehouse" => task[q] \in VehicleTask
  /\ pc[q] = "write" => task[q] \in SaveTask \cup VehicleTask
  /\ pc[q] = "join" => task[q].cohort \in 1 .. cohorts
Shape == \A q \in Requests : ShapeOf(q)

\* What a request that saves an operator knows as long as nobody overtakes it.
SaveFact(q) ==
  LET t == task[q] IN
  pc[q] \in Saving /\ q \notin stale /\ t \in SaveTask =>
    /\ ~t.names /\ HoldsAny(t.row) /\ HoldsAny(op[t.op]) => t.row.vehicle = op[t.op].vehicle
    /\ pc[q] = "holder" \/ (pc[q] = "write" /\ t.names) => t.row.vehicle \notin depot
    /\ pc[q] = "write" /\ t.names => Holders(t.row.vehicle) \subseteq {t.op}

\* ... and one that returns a vehicle.
ReturnFact(q) ==
  LET t == task[q] IN
  pc[q] = "write" /\ q \notin stale /\ t \in VehicleTask /\ t.out =>
    t.vehicle \in depot \/ Holders(t.vehicle) = {}

Facts == \A q \in Requests : SaveFact(q) /\ ReturnFact(q)

\* Every cohort but the first was inserted by a request that had found none.
Inserting  == {q \in Requests : pc[q] = "insert"}
FewCohorts == cohorts + Cardinality(Inserting) <= Cardinality(Requests)

IInv == TypeOK /\ Shape /\ Facts /\ FewCohorts /\ HeldByOne /\ HeldIsAllocated /\ PlacedUnlessDied

-----------------------------------------------------------------------------
LEMMA InsertingFinite ==
  ASSUME NEW S \in SUBSET Requests
  PROVE  IsFiniteSet(S) /\ Cardinality(S) \in Nat /\ Cardinality(S) <= Cardinality(Requests)
         /\ Cardinality(Requests) \in Nat
BY ConstantsAssumption, FS_Subset, FS_CardinalityType

LEMMA InitIInv == Init => IInv
<1> SUFFICES ASSUME Init PROVE IInv
  OBVIOUS
<1> USE ConstantsAssumption DEF Init
<1>1. Cardinality({}) = 0 /\ Cardinality(Requests) \in Nat
  BY FS_EmptySet, FS_CardinalityType
<1>2. TypeOK
  BY <1>1 DEF TypeOK, Tasks
<1>3. Shape /\ Facts
  BY DEF Shape, ShapeOf, Facts, SaveFact, ReturnFact, Placing, Saving
<1>4. FewCohorts
  <2>1. Inserting = {} BY DEF Inserting
  <2> QED BY <1>1, <2>1 DEF FewCohorts
<1>5. HeldByOne /\ HeldIsAllocated
  BY DEF HeldByOne, HeldIsAllocated, Holders, Holds, Absent
<1>6. PlacedUnlessDied
  BY DEF PlacedUnlessDied, Unplaced, HoldsAny, Absent
<1> QED BY <1>2, <1>3, <1>4, <1>5, <1>6 DEF IInv

-----------------------------------------------------------------------------
(* Steps that leave the rows as they are.                                   *)

\* Such a step keeps what is known of the other requests and of the holders.
LEMMA RowsKept ==
  ASSUME IInv, NEW q \in Requests, NEW from, NEW to \in Saving \cup Placing \cup {"idle"},
         NEW t \in Tasks, Go(q, from, to, t), UNCHANGED rows,
         cohorts' \in Nat, cohorts' >= cohorts,
         ShapeOf(q)', SaveFact(q)', ReturnFact(q)'
  PROVE  /\ pc' \in [Requests -> Saving \cup Placing \cup {"idle"}]
         /\ task' \in [Requests -> Tasks] /\ stale' \subseteq Requests
         /\ op' \in [Operators -> Row \cup {Absent}] /\ depot' \subseteq Vehicles
         /\ unsureHold' \subseteq Operators /\ unsureBed' \subseteq Operators
         /\ Shape' /\ Facts' /\ HeldByOne' /\ HeldIsAllocated'
<1> USE DEF IInv
<1>1. \A p \in Requests \ {q} : pc'[p] = pc[p] /\ task'[p] = task[p] /\ (p \in stale' <=> p \in stale)
  BY DEF TypeOK, Go
<1>2. pc' \in [Requests -> Saving \cup Placing \cup {"idle"}] /\ task' \in [Requests -> Tasks] /\ stale' \subseteq Requests
  BY DEF TypeOK, Go
<1>3. Shape'
  <2> SUFFICES ASSUME NEW p \in Requests, p # q PROVE ShapeOf(p)'
    BY DEF Shape
  <2> QED BY <1>1 DEF Shape, ShapeOf, TypeOK
<1>4. Facts'
  <2> SUFFICES ASSUME NEW p \in Requests, p # q PROVE SaveFact(p)' /\ ReturnFact(p)'
    BY DEF Facts
  <2>1. SaveFact(p)' BY <1>1 DEF Facts, SaveFact, rows, HoldsAny, Holders, Holds
  <2>2. ReturnFact(p)' BY <1>1 DEF Facts, ReturnFact, rows, Holders, Holds
  <2> QED BY <2>1, <2>2
<1>5. HeldByOne' /\ HeldIsAllocated'
  BY DEF HeldByOne, HeldIsAllocated, rows, Holders, Holds
<1> QED BY <1>2, <1>3, <1>4, <1>5 DEF rows, TypeOK

\* A request that does not place, or goes on placing, leaves the others' and its
\* own operator being placed; one that enters no insert adds no cohort.
LEMMA WeeksKept ==
  ASSUME IInv, NEW q \in Requests, NEW from, NEW to, NEW t,
         Go(q, from, to, t), UNCHANGED <<op, weeks>>, missed \subseteq missed', missed' \subseteq Operators,
         to # "insert",
         from \in Placing => (to \in Placing /\ t.op = task[q].op)
                             \/ ~Unplaced(task[q].op) \/ task[q].op \in missed'
  PROVE  FewCohorts' /\ PlacedUnlessDied' /\ cohorts' \in 0 .. Cardinality(Requests)
         /\ cohort' \in [Operators -> 0 .. cohorts'] /\ missed' \subseteq Operators
<1> USE DEF IInv
<1>1. \A p \in Requests \ {q} : pc'[p] = pc[p] /\ task'[p] = task[p]
  BY DEF TypeOK, Go
<1>2. pc[q] = from /\ pc'[q] = to /\ task'[q] = t
  BY DEF TypeOK, Go
<1>3. FewCohorts'
  <2>1. Inserting' \subseteq Inserting
    BY <1>1, <1>2 DEF Inserting
  <2>2. Cardinality(Inserting') <= Cardinality(Inserting)
    BY <2>1, InsertingFinite, FS_Subset DEF Inserting
  <2>3. Cardinality(Inserting') \in Nat /\ Cardinality(Inserting) \in Nat /\ Cardinality(Requests) \in Nat
    BY InsertingFinite, FS_Subset, <2>1 DEF Inserting
  <2> QED BY <2>2, <2>3 DEF FewCohorts, weeks, TypeOK
<1>4. PlacedUnlessDied'
  <2> SUFFICES ASSUME NEW o \in Operators, o \notin missed', Unplaced(o)' PROVE BeingPlaced(o)'
    BY DEF PlacedUnlessDied
  <2>1. Unplaced(o) BY DEF Unplaced, weeks
  <2>2. PICK p \in Requests : pc[p] \in Placing /\ task[p].op = o
    BY <2>1 DEF PlacedUnlessDied, BeingPlaced
  <2>3. CASE p # q
    BY <1>1, <2>2, <2>3 DEF BeingPlaced
  <2>4. CASE p = q
    BY <1>2, <2>1, <2>2, <2>4 DEF BeingPlaced
  <2> QED BY <2>3, <2>4
<1> QED BY <1>3, <1>4 DEF TypeOK, weeks

\* The two together.
LEMMA ReadStep ==
  ASSUME IInv, NEW q \in Requests, NEW from, NEW to \in Saving \cup Placing \cup {"idle"},
         NEW t \in Tasks, Go(q, from, to, t), to # "insert", UNCHANGED <<rows, weeks, missed>>,
         from \in Placing => (to \in Placing /\ t.op = task[q].op) \/ ~Unplaced(task[q].op),
         ShapeOf(q)', SaveFact(q)', ReturnFact(q)'
  PROVE  IInv'
<1>1. UNCHANGED rows /\ UNCHANGED <<op, weeks>> /\ cohorts' \in Nat /\ cohorts' >= cohorts
      /\ missed \subseteq missed' /\ missed' \subseteq Operators
  BY DEF IInv, TypeOK, weeks, rows
<1>2. FewCohorts' /\ PlacedUnlessDied' /\ cohorts' \in 0 .. Cardinality(Requests)
      /\ cohort' \in [Operators -> 0 .. cohorts'] /\ missed' \subseteq Operators
  BY <1>1, WeeksKept
<1>3. /\ pc' \in [Requests -> Saving \cup Placing \cup {"idle"}]
      /\ task' \in [Requests -> Tasks] /\ stale' \subseteq Requests
      /\ op' \in [Operators -> Row \cup {Absent}] /\ depot' \subseteq Vehicles
      /\ unsureHold' \subseteq Operators /\ unsureBed' \subseteq Operators
      /\ Shape' /\ Facts' /\ HeldByOne' /\ HeldIsAllocated'
  BY <1>1, RowsKept
<1> QED BY <1>2, <1>3 DEF IInv, TypeOK

\* A request that is refused, or finds nothing to place.
LEMMA RefusedStep ==
  ASSUME IInv, NEW q \in Requests, NEW from, End(q, from), UNCHANGED <<rows, weeks, missed>>,
         from \in Placing => ~Unplaced(task[q].op)
  PROVE  IInv'
<1>1. pc'[q] = "idle" /\ task'[q] = NoTask /\ Go(q, from, "idle", NoTask)
  BY DEF End, Go, IInv, TypeOK
<1>2. ShapeOf(q)' /\ SaveFact(q)' /\ ReturnFact(q)'
  BY <1>1 DEF ShapeOf, SaveFact, ReturnFact, Saving, Placing
<1> QED BY <1>1, <1>2, ReadStep DEF Tasks

LEMMA StartCreateStep ==
  ASSUME IInv, NEW q \in Requests, StartCreate(q)
  PROVE  IInv'
<1>1. PICK o \in Operators, row \in Hires :
        /\ op[o] = Absent
        /\ Go(q, "idle", FirstCheck(row.vehicle # NoVehicle, FALSE),
              [kind |-> "create", op |-> o, row |-> row, names |-> row.vehicle # NoVehicle,
               bed |-> FALSE, blind |-> FALSE])
        /\ UNCHANGED <<rows, weeks, missed>>
  BY DEF StartCreate
<1> DEFINE to == FirstCheck(row.vehicle # NoVehicle, FALSE)
           t  == [kind |-> "create", op |-> o, row |-> row, names |-> row.vehicle # NoVehicle,
                  bed |-> FALSE, blind |-> FALSE]
<1>2. row \in Row /\ t \in SaveTask /\ t \in Tasks /\ t \notin VehicleTask
  BY ConstantsAssumption DEF SaveTask, VehicleTask, Tasks
<1>3. to \in {"depot", "write"} /\ (to = "write" <=> row.vehicle = NoVehicle)
  BY DEF FirstCheck
<1>4. pc'[q] = to /\ task'[q] = t /\ Go(q, "idle", to, t)
  BY <1>1 DEF Go, IInv, TypeOK
<1> HIDE DEF t, to
<1>5. t.row = row /\ t.names = (row.vehicle # NoVehicle)
  BY DEF t
<1>6. ShapeOf(q)'
  BY <1>2, <1>3, <1>4, <1>5 DEF ShapeOf, Placing
<1>7. SaveFact(q)' /\ ReturnFact(q)'
  BY <1>2, <1>3, <1>4, <1>5 DEF SaveFact, ReturnFact, HoldsAny
<1>8. to \in Saving /\ to # "insert" /\ "idle" \notin Placing
  BY <1>3 DEF Saving, Placing
<1>9. UNCHANGED <<rows, weeks, missed>>
  BY <1>1
<1> QED BY <1>2, <1>4, <1>6, <1>7, <1>8, <1>9, ReadStep

\* The row an update is going to write, and when it names a vehicle.
LEMMA Merged ==
  ASSUME NEW row \in Row, NEW b \in Bodies
  PROVE  /\ Merge(row, b) \in Row
         /\ b.vehicle = "keep" => Merge(row, b).vehicle = row.vehicle
<1> USE ConstantsAssumption DEF Row, AllBodies, Statuses
<1>1. b \in AllBodies OBVIOUS
<1>2. (IF b.status = "keep" THEN row.status ELSE b.status) \in Statuses
  BY <1>1
<1>3. (IF b.vehicle = "keep" THEN row.vehicle ELSE b.vehicle) \in Vehicles \cup {NoVehicle}
  BY <1>1
<1>4. (IF b.site = "keep" THEN row.site ELSE b.site) \in Sites
  BY <1>1
<1>5. ((IF b.status = "keep" THEN row.status ELSE b.status) # "inactive"
        /\ (IF b.housed = "keep" THEN row.housed ELSE b.housed = "yes")) \in BOOLEAN
  BY <1>1
<1> QED BY <1>2, <1>3, <1>4, <1>5 DEF Merge

LEMMA StartUpdateStep ==
  ASSUME IInv, NEW q \in Requests, StartUpdate(q)
  PROVE  IInv'
<1> DEFINE After(o, b) == Merge(op[o], b)
           Names(o, b) == b.vehicle # "keep" /\ After(o, b).vehicle # NoVehicle
<1>1. PICK o \in Operators, b \in Bodies :
        /\ op[o] # Absent
        /\ Go(q, "idle", FirstCheck(Names(o, b), ChecksBed(op[o], b)),
              [kind |-> "update", op |-> o, row |-> After(o, b), names |-> Names(o, b),
               bed |-> ChecksBed(op[o], b), blind |-> FALSE])
        /\ UNCHANGED <<rows, weeks, missed>>
  BY DEF StartUpdate
<1> DEFINE row == After(o, b)
           names == Names(o, b)
           to == FirstCheck(names, ChecksBed(op[o], b))
           t  == [kind |-> "update", op |-> o, row |-> row, names |-> names,
                  bed |-> ChecksBed(op[o], b), blind |-> FALSE]
<1>2. op[o] \in Row BY <1>1 DEF IInv, TypeOK
<1>3. row \in Row /\ (~names => row.vehicle \in {op[o].vehicle, NoVehicle})
  BY <1>2, Merged
<1>4. ChecksBed(op[o], b) \in BOOLEAN /\ names \in BOOLEAN
  BY DEF ChecksBed
<1>5. t \in SaveTask /\ t \in Tasks /\ t \notin VehicleTask
  BY <1>3, <1>4 DEF SaveTask, VehicleTask, Tasks
<1>6. to \in {"bed", "depot", "write"} /\ (to = "depot" => names) /\ (to = "write" => ~names)
  BY <1>4 DEF FirstCheck
<1>7. pc'[q] = to /\ task'[q] = t /\ Go(q, "idle", to, t)
  BY <1>1 DEF Go, IInv, TypeOK
<1>8. t.row = row /\ t.names = names /\ t.op = o /\ op' = op /\ depot' = depot
  BY <1>1 DEF rows
<1> HIDE DEF t, to, row, names
<1>9. ShapeOf(q)'
  BY <1>5, <1>6, <1>7, <1>8 DEF ShapeOf, Placing
<1>10. SaveFact(q)' /\ ReturnFact(q)'
  BY <1>3, <1>5, <1>6, <1>7, <1>8 DEF SaveFact, ReturnFact, HoldsAny
<1>11. to \in Saving /\ to # "insert" /\ "idle" \notin Placing
  BY <1>6 DEF Saving, Placing
<1> QED BY <1>1, <1>5, <1>7, <1>9, <1>10, <1>11, ReadStep

\* A check that a request passes.
LEMMA CountBedsStep ==
  ASSUME IInv, NEW q \in Requests, CountBeds(q)
  PROVE  IInv'
<1> DEFINE to == FirstCheck(task[q].names, FALSE)
<1>1. pc[q] = "bed" /\ task[q] \in SaveTask /\ "bed" \notin Placing
  BY DEF CountBeds, IInv, Shape, ShapeOf, Placing
<1>2. CASE End(q, "bed")
  BY <1>1, <1>2, RefusedStep DEF CountBeds
<1>3. ASSUME NEW t, t \in {task[q], [task[q] EXCEPT !.blind = TRUE]}, Go(q, "bed", to, t)
      PROVE  IInv'
  <2>1. t \in SaveTask /\ t \in Tasks /\ t \notin VehicleTask
    BY <1>1, <1>3 DEF SaveTask, VehicleTask, Tasks
  <2>2. t.row = task[q].row /\ t.names = task[q].names /\ t.op = task[q].op
    BY <1>1, <1>3 DEF SaveTask
  <2>3. to \in {"depot", "write"} /\ (to = "depot" <=> t.names)
    BY <2>2, <1>1 DEF FirstCheck
  <2>4. pc'[q] = to /\ task'[q] = t /\ stale' = stale /\ op' = op
    BY <1>3, <2>3 DEF Go, IInv, TypeOK, CountBeds, rows
  <2>5. ShapeOf(q)'
    BY <2>1, <2>3, <2>4 DEF ShapeOf, Placing
  <2>6. SaveFact(q)' /\ ReturnFact(q)'
    BY <1>1, <2>1, <2>2, <2>3, <2>4 DEF IInv, Facts, SaveFact, ReturnFact, Saving, HoldsAny
  <2>7. to \in Saving /\ to # "insert"
    BY <2>3 DEF Saving
  <2> HIDE DEF to
  <2> QED BY <1>1, <1>3, <2>1, <2>5, <2>6, <2>7, ReadStep DEF CountBeds
<1> QED BY <1>2, <1>3 DEF CountBeds

LEMMA CheckDepotStep ==
  ASSUME IInv, NEW q \in Requests, CheckDepot(q)
  PROVE  IInv'
<1>1. pc[q] = "depot" /\ task[q] \in SaveTask /\ task[q].names /\ "depot" \notin Placing
      /\ task[q] \in Tasks /\ task[q] \notin VehicleTask
  BY DEF CheckDepot, IInv, Shape, ShapeOf, Placing, Tasks, SaveTask, VehicleTask
<1>2. CASE End(q, "depot")
  BY <1>1, <1>2, RefusedStep DEF CheckDepot
<1>3. CASE task[q].row.vehicle \notin depot /\ Go(q, "depot", "holder", task[q])
  <2>1. pc'[q] = "holder" /\ task'[q] = task[q] /\ stale' = stale /\ op' = op /\ depot' = depot
    BY <1>3 DEF Go, IInv, TypeOK, CheckDepot, rows
  <2>2. ShapeOf(q)'
    BY <1>1, <2>1 DEF ShapeOf, Placing
  <2>3. SaveFact(q)' /\ ReturnFact(q)'
    BY <1>1, <1>3, <2>1 DEF IInv, Facts, SaveFact, ReturnFact, Saving, HoldsAny
  <2> QED BY <1>1, <1>3, <2>2, <2>3, ReadStep DEF CheckDepot, Saving
<1> QED BY <1>2, <1>3 DEF CheckDepot

LEMMA CheckHolderStep ==
  ASSUME IInv, NEW q \in Requests, CheckHolder(q)
  PROVE  IInv'
<1>1. pc[q] = "holder" /\ task[q] \in SaveTask /\ "holder" \notin Placing
      /\ task[q] \in Tasks /\ task[q] \notin VehicleTask
  BY DEF CheckHolder, IInv, Shape, ShapeOf, Placing, Tasks, SaveTask, VehicleTask
<1>2. CASE End(q, "holder")
  BY <1>1, <1>2, RefusedStep DEF CheckHolder
<1>3. CASE Holders(task[q].row.vehicle) \ {task[q].op} = {} /\ Go(q, "holder", "write", task[q])
  <2>1. pc'[q] = "write" /\ task'[q] = task[q] /\ stale' = stale /\ op' = op /\ depot' = depot
    BY <1>3 DEF Go, IInv, TypeOK, CheckHolder, rows
  <2>2. ShapeOf(q)'
    BY <1>1, <2>1 DEF ShapeOf, Placing
  <2>3. SaveFact(q)' /\ ReturnFact(q)'
    BY <1>1, <1>3, <2>1 DEF IInv, Facts, SaveFact, ReturnFact, Saving, HoldsAny, Holders, Holds
  <2> QED BY <1>1, <1>3, <2>2, <2>3, ReadStep DEF CheckHolder, Saving
<1> QED BY <1>2, <1>3 DEF CheckHolder

LEMMA StartVehicleStep ==
  ASSUME IInv, NEW q \in Requests, StartVehicle(q)
  PROVE  IInv'
<1>1. PICK v \in Vehicles, out \in BOOLEAN :
        /\ Go(q, "idle", IF out /\ v \notin depot THEN "warehouse" ELSE "write",
              [kind |-> "vehicle", vehicle |-> v, out |-> out])
        /\ UNCHANGED <<rows, weeks, missed>>
  BY DEF StartVehicle
<1> DEFINE to == IF out /\ v \notin depot THEN "warehouse" ELSE "write"
           t  == [kind |-> "vehicle", vehicle |-> v, out |-> out]
<1>2. t \in VehicleTask /\ t \in Tasks /\ t \notin SaveTask
  BY DEF VehicleTask, Tasks, SaveTask
<1>3. pc'[q] = to /\ task'[q] = t /\ Go(q, "idle", to, t) /\ depot' = depot
  BY <1>1 DEF Go, IInv, TypeOK, rows
<1>4. t.vehicle = v /\ t.out = out /\ to \in {"warehouse", "write"} /\ (to = "write" /\ out => v \in depot)
  OBVIOUS
<1> HIDE DEF t, to
<1>5. ShapeOf(q)'
  BY <1>2, <1>3, <1>4 DEF ShapeOf, Placing
<1>6. SaveFact(q)' /\ ReturnFact(q)'
  BY <1>2, <1>3, <1>4 DEF SaveFact, ReturnFact
<1>7. to \in Saving /\ to # "insert" /\ "idle" \notin Placing
  BY <1>4 DEF Saving, Placing
<1> QED BY <1>1, <1>2, <1>3, <1>5, <1>6, <1>7, ReadStep

LEMMA CheckReturnStep ==
  ASSUME IInv, NEW q \in Requests, CheckReturn(q)
  PROVE  IInv'
<1>1. pc[q] = "warehouse" /\ task[q] \in VehicleTask /\ "warehouse" \notin Placing
      /\ task[q] \in Tasks /\ task[q] \notin SaveTask
  BY DEF CheckReturn, IInv, Shape, ShapeOf, Placing, Tasks, SaveTask, VehicleTask
<1>2. CASE End(q, "warehouse")
  BY <1>1, <1>2, RefusedStep DEF CheckReturn
<1>3. CASE Holders(task[q].vehicle) = {} /\ Go(q, "warehouse", "write", task[q])
  <2>1. pc'[q] = "write" /\ task'[q] = task[q] /\ stale' = stale /\ op' = op /\ depot' = depot
    BY <1>3 DEF Go, IInv, TypeOK, CheckReturn, rows
  <2>2. ShapeOf(q)'
    BY <1>1, <2>1 DEF ShapeOf, Placing
  <2>3. SaveFact(q)' /\ ReturnFact(q)'
    BY <1>1, <1>3, <2>1 DEF SaveFact, ReturnFact, Holders, Holds
  <2> QED BY <1>1, <1>3, <2>2, <2>3, ReadStep DEF CheckReturn, Saving
<1> QED BY <1>2, <1>3 DEF CheckReturn

-----------------------------------------------------------------------------
(* The placement.                                                           *)

LEMMA Placer ==
  ASSUME IInv, NEW q \in Requests, pc[q] \in Placing
  PROVE  task[q] \in PlaceTask /\ task[q] \in Tasks /\ task[q] \notin SaveTask /\ task[q] \notin VehicleTask
BY DEF IInv, Shape, ShapeOf, Tasks, PlaceTask, SaveTask, VehicleTask

LEMMA ReadPlacedStep ==
  ASSUME IInv, NEW q \in Requests, ReadPlaced(q)
  PROVE  IInv'
<1>1. pc[q] = "place" /\ "place" \in Placing
  BY DEF ReadPlaced, Placing
<1>2. CASE ~Unplaced(task[q].op) /\ End(q, "place")
  BY <1>2, RefusedStep DEF ReadPlaced
<1>3. CASE Go(q, "place", "find", task[q])
  <2>1. pc'[q] = "find" /\ task'[q] = task[q]
    BY <1>3 DEF Go, IInv, TypeOK
  <2>2. ShapeOf(q)' /\ SaveFact(q)' /\ ReturnFact(q)'
    BY <1>1, <2>1, Placer DEF ShapeOf, SaveFact, ReturnFact, Saving
  <2> QED BY <1>1, <1>3, <2>2, Placer, ReadStep DEF ReadPlaced, Placing
<1> QED BY <1>2, <1>3 DEF ReadPlaced

\* A request that has found no cohort is one more that inserts one.
LEMMA EntersInsert ==
  ASSUME IInv, NEW q \in Requests, cohorts = 0, Go(q, "find", "insert", task[q]),
         UNCHANGED <<rows, weeks, missed>>
  PROVE  IInv'
<1>1. pc[q] = "find" /\ pc'[q] = "insert" /\ task'[q] = task[q]
  BY DEF Go, IInv, TypeOK
<1>2. task[q] \in PlaceTask /\ task[q] \in Tasks /\ task[q] \notin SaveTask /\ task[q] \notin VehicleTask
  BY <1>1, Placer DEF Placing
<1>3. ShapeOf(q)' /\ SaveFact(q)' /\ ReturnFact(q)'
  BY <1>1, <1>2 DEF ShapeOf, SaveFact, ReturnFact, Saving
<1>4. UNCHANGED rows /\ cohorts' \in Nat /\ cohorts' >= cohorts /\ "insert" \in Saving \cup Placing \cup {"idle"}
  BY DEF weeks, IInv, TypeOK, Placing
<1>5. /\ pc' \in [Requests -> Saving \cup Placing \cup {"idle"}]
      /\ task' \in [Requests -> Tasks] /\ stale' \subseteq Requests
      /\ op' \in [Operators -> Row \cup {Absent}] /\ depot' \subseteq Vehicles
      /\ unsureHold' \subseteq Operators /\ unsureBed' \subseteq Operators
      /\ Shape' /\ Facts' /\ HeldByOne' /\ HeldIsAllocated'
  BY <1>2, <1>3, <1>4, RowsKept
<1>6. FewCohorts'
  <2>1. Inserting' \in SUBSET Requests BY DEF Inserting
  <2> QED BY <2>1, InsertingFinite DEF FewCohorts, weeks
<1>7. PlacedUnlessDied'
  <2> SUFFICES ASSUME NEW o \in Operators, o \notin missed', Unplaced(o)' PROVE BeingPlaced(o)'
    BY DEF PlacedUnlessDied
  <2>1. Unplaced(o) /\ o \notin missed BY DEF Unplaced, weeks, rows
  <2>2. PICK p \in Requests : pc[p] \in Placing /\ task[p].op = o
    BY <2>1 DEF IInv, PlacedUnlessDied, BeingPlaced
  <2>3. pc'[p] \in Placing /\ task'[p].op = o
    BY <2>2, <1>1 DEF Go, IInv, TypeOK, Placing
  <2> QED BY <2>3 DEF BeingPlaced
<1> QED BY <1>5, <1>6, <1>7 DEF IInv, TypeOK, weeks

LEMMA FindCohortStep ==
  ASSUME IInv, NEW q \in Requests, FindCohort(q)
  PROVE  IInv'
<1>1. pc[q] = "find" /\ "find" \in Placing /\ task[q] \in PlaceTask
  BY Placer DEF FindCohort, Placing
<1>2. CASE cohorts = 0 /\ Go(q, "find", "insert", task[q])
  BY <1>2, EntersInsert DEF FindCohort
<1>3. ASSUME NEW c \in 1 .. cohorts, Go(q, "find", "join", [task[q] EXCEPT !.cohort = c])
      PROVE  IInv'
  <2> DEFINE t == [task[q] EXCEPT !.cohort = c]
  <2>1. c \in Nat BY DEF IInv, TypeOK
  <2>2. t \in PlaceTask /\ t \in Tasks /\ t \notin SaveTask /\ t \notin VehicleTask /\ t.op = task[q].op /\ t.cohort = c
    BY <1>1, <2>1 DEF PlaceTask, SaveTask, VehicleTask, Tasks
  <2>3. pc'[q] = "join" /\ task'[q] = t /\ cohorts' = cohorts
    BY <1>3 DEF Go, IInv, TypeOK, FindCohort, weeks
  <2> HIDE DEF t
  <2>4. ShapeOf(q)' /\ SaveFact(q)' /\ ReturnFact(q)'
    BY <2>2, <2>3 DEF ShapeOf, SaveFact, ReturnFact, Saving
  <2>5. Go(q, "find", "join", t)
    BY <1>3 DEF t
  <2> QED BY <1>1, <2>2, <2>4, <2>5, ReadStep DEF FindCohort, Placing
<1> QED BY <1>2, <1>3 DEF FindCohort

LEMMA InsertCohortStep ==
  ASSUME IInv, NEW q \in Requests, InsertCohort(q)
  PROVE  IInv'
<1> DEFINE t == [task[q] EXCEPT !.cohort = cohorts + 1]
<1>1. Go(q, "insert", "join", t) /\ cohorts' = cohorts + 1 /\ UNCHANGED <<rows, cohort, missed>>
  BY DEF InsertCohort
<1>2. pc[q] = "insert" /\ pc'[q] = "join" /\ task'[q] = t /\ cohorts \in Nat
      /\ \A p \in Requests \ {q} : pc'[p] = pc[p] /\ task'[p] = task[p]
  BY <1>1 DEF Go, IInv, TypeOK
<1>3. task[q] \in PlaceTask BY <1>2, Placer DEF Placing
<1>4. t \in PlaceTask /\ t \in Tasks /\ t \notin SaveTask /\ t \notin VehicleTask
      /\ t.op = task[q].op /\ t.cohort = cohorts + 1
  BY <1>2, <1>3 DEF PlaceTask, SaveTask, VehicleTask, Tasks
<1> HIDE DEF t
<1>5. ShapeOf(q)' /\ SaveFact(q)' /\ ReturnFact(q)'
  BY <1>1, <1>2, <1>4 DEF ShapeOf, SaveFact, ReturnFact, Saving
<1>6. /\ pc' \in [Requests -> Saving \cup Placing \cup {"idle"}]
      /\ task' \in [Requests -> Tasks] /\ stale' \subseteq Requests
      /\ op' \in [Operators -> Row \cup {Absent}] /\ depot' \subseteq Vehicles
      /\ unsureHold' \subseteq Operators /\ unsureBed' \subseteq Operators
      /\ Shape' /\ Facts' /\ HeldByOne' /\ HeldIsAllocated'
  <2>1. cohorts' \in Nat /\ cohorts' >= cohorts /\ "join" \in Saving \cup Placing \cup {"idle"}
    BY <1>1, <1>2 DEF Placing
  <2> QED BY <1>1, <1>4, <1>5, <2>1, RowsKept
<1>7. FewCohorts'
  <2>1. Inserting' = Inserting \ {q} /\ q \in Inserting /\ Inserting \in SUBSET Requests
    BY <1>2 DEF Inserting
  <2>2. IsFiniteSet(Inserting) /\ Cardinality(Inserting) \in Nat /\ Cardinality(Requests) \in Nat
    BY <2>1, InsertingFinite
  <2>3. Cardinality(Inserting') = Cardinality(Inserting) - 1
    BY <2>1, <2>2, FS_RemoveElement
  <2> QED BY <1>1, <1>2, <2>2, <2>3 DEF IInv, FewCohorts
<1>8. cohorts' \in 0 .. Cardinality(Requests)
  <2>1. Inserting' \in SUBSET Requests BY DEF Inserting
  <2>2. Cardinality(Inserting') \in Nat /\ Cardinality(Requests) \in Nat BY <2>1, InsertingFinite
  <2> QED BY <1>1, <1>2, <1>7, <2>2 DEF FewCohorts
<1>9. PlacedUnlessDied'
  <2> SUFFICES ASSUME NEW o \in Operators, o \notin missed', Unplaced(o)' PROVE BeingPlaced(o)'
    BY DEF PlacedUnlessDied
  <2>1. Unplaced(o) /\ o \notin missed BY <1>1 DEF Unplaced, rows
  <2>2. PICK p \in Requests : pc[p] \in Placing /\ task[p].op = o
    BY <2>1 DEF IInv, PlacedUnlessDied, BeingPlaced
  <2>3. pc'[p] \in Placing /\ task'[p].op = o
    BY <2>2, <1>2, <1>4 DEF Placing
  <2> QED BY <2>3 DEF BeingPlaced
<1>10. cohort' \in [Operators -> 0 .. cohorts']
  BY <1>1, <1>2 DEF IInv, TypeOK
<1> QED BY <1>1, <1>6, <1>7, <1>8, <1>9, <1>10 DEF IInv, TypeOK

\* A step that leaves the rows alone and at most overtakes other requests, whatever
\* it does to the cohorts, when those that moved know what they need to know.
LEMMA OvertakenKept ==
  ASSUME IInv, NEW M \in SUBSET Requests,
         pc' \in [Requests -> Saving \cup Placing \cup {"idle"}],
         task' \in [Requests -> Tasks], stale' \subseteq Requests,
         \A p \in Requests \ M : pc'[p] = pc[p] /\ task'[p] = task[p] /\ (p \in stale => p \in stale'),
         \A p \in M : pc'[p] = "idle" /\ task'[p] = NoTask,
         UNCHANGED <<rows, cohorts>>
  PROVE  Shape' /\ Facts' /\ HeldByOne' /\ HeldIsAllocated' /\ FewCohorts'
<1> USE DEF IInv
<1>1. Shape'
  <2> SUFFICES ASSUME NEW p \in Requests PROVE ShapeOf(p)'
    BY DEF Shape
  <2>1. CASE p \in M BY <2>1 DEF ShapeOf, Placing
  <2>2. CASE p \notin M BY <2>2 DEF Shape, ShapeOf
  <2> QED BY <2>1, <2>2
<1>2. Facts'
  <2> SUFFICES ASSUME NEW p \in Requests PROVE SaveFact(p)' /\ ReturnFact(p)'
    BY DEF Facts
  <2>1. CASE p \in M BY <2>1 DEF SaveFact, ReturnFact, Saving
  <2>2. CASE p \notin M
    <3>1. SaveFact(p)' BY <2>2 DEF Facts, SaveFact, rows, HoldsAny, Holders, Holds
    <3>2. ReturnFact(p)' BY <2>2 DEF Facts, ReturnFact, rows, Holders, Holds
    <3> QED BY <3>1, <3>2
  <2> QED BY <2>1, <2>2
<1>3. HeldByOne' /\ HeldIsAllocated'
  BY DEF HeldByOne, HeldIsAllocated, rows, Holders, Holds
<1>4. FewCohorts'
  <2>1. Inserting' \subseteq Inserting /\ Inserting \in SUBSET Requests BY DEF Inserting
  <2>2. Cardinality(Inserting') <= Cardinality(Inserting) /\ Cardinality(Inserting') \in Nat
        /\ Cardinality(Inserting) \in Nat /\ Cardinality(Requests) \in Nat
    BY <2>1, InsertingFinite, FS_Subset
  <2> QED BY <2>2 DEF FewCohorts, TypeOK
<1> QED BY <1>1, <1>2, <1>3, <1>4

LEMMA JoinStep ==
  ASSUME IInv, NEW q \in Requests, Join(q)
  PROVE  IInv'
<1> DEFINE o == task[q].op
<1>1. GoWriting(q, "join", "idle", NoTask, Placing) /\ pc[q] = "join"
      /\ cohort' = [cohort EXCEPT ![o] = task[q].cohort] /\ missed' = missed \ {o}
      /\ UNCHANGED <<rows, cohorts>>
  BY DEF Join, GoWriting
<1>2. task[q] \in PlaceTask /\ task[q].cohort \in 1 .. cohorts /\ o \in Operators
  BY <1>1 DEF IInv, Shape, ShapeOf, Placing, PlaceTask
<1>3. /\ pc' \in [Requests -> Saving \cup Placing \cup {"idle"}]
      /\ task' \in [Requests -> Tasks] /\ stale' \subseteq Requests
      /\ \A p \in Requests \ {q} : pc'[p] = pc[p] /\ task'[p] = task[p] /\ (p \in stale => p \in stale')
      /\ \A p \in {q} : pc'[p] = "idle" /\ task'[p] = NoTask
  BY <1>1 DEF GoWriting, IInv, TypeOK, Tasks
<1>4. Shape' /\ Facts' /\ HeldByOne' /\ HeldIsAllocated' /\ FewCohorts'
  BY <1>1, <1>3, OvertakenKept
<1>5. cohort' \in [Operators -> 0 .. cohorts'] /\ missed' \subseteq Operators /\ cohorts' = cohorts
  BY <1>1, <1>2 DEF IInv, TypeOK
<1>6. PlacedUnlessDied'
  <2> SUFFICES ASSUME NEW a \in Operators, a \notin missed', Unplaced(a)' PROVE BeingPlaced(a)'
    BY DEF PlacedUnlessDied
  <2>1. a # o
    BY <1>1, <1>2 DEF Unplaced, IInv, TypeOK
  <2>2. Unplaced(a) /\ a \notin missed
    BY <1>1, <2>1 DEF Unplaced, rows, IInv, TypeOK
  <2>3. PICK p \in Requests : pc[p] \in Placing /\ task[p].op = a
    BY <2>2 DEF IInv, PlacedUnlessDied, BeingPlaced
  <2>4. pc'[p] \in Placing /\ task'[p].op = a
    BY <1>3, <2>1, <2>3
  <2> QED BY <2>4 DEF BeingPlaced
<1> QED BY <1>1, <1>3, <1>4, <1>5, <1>6 DEF IInv, TypeOK, rows

LEMMA AddMemberStep ==
  ASSUME IInv, AddMember
  PROVE  IInv'
<1>1. PICK o \in Operators, c \in 1 .. cohorts :
        cohort' = [cohort EXCEPT ![o] = c] /\ missed' = missed \ {o}
  BY DEF AddMember
<1>2. UNCHANGED <<rows, cohorts, pc, task>> /\ stale' = stale \cup {p \in Requests : pc[p] \in Placing}
  BY DEF AddMember
<1>3. Shape' /\ Facts' /\ HeldByOne' /\ HeldIsAllocated' /\ FewCohorts'
  <2>1. {} \in SUBSET Requests /\ UNCHANGED <<rows, cohorts>> BY <1>2
  <2>2. /\ pc' \in [Requests -> Saving \cup Placing \cup {"idle"}]
        /\ task' \in [Requests -> Tasks] /\ stale' \subseteq Requests
        /\ \A p \in Requests \ {} : pc'[p] = pc[p] /\ task'[p] = task[p] /\ (p \in stale => p \in stale')
        /\ \A p \in {} : pc'[p] = "idle" /\ task'[p] = NoTask
    BY <1>2 DEF IInv, TypeOK
  <2> QED BY <2>1, <2>2, OvertakenKept
<1>4. PlacedUnlessDied'
  <2> SUFFICES ASSUME NEW a \in Operators, a \notin missed', Unplaced(a)' PROVE BeingPlaced(a)'
    BY DEF PlacedUnlessDied
  <2>1. a # o
    BY <1>1 DEF Unplaced, IInv, TypeOK
  <2>2. Unplaced(a) /\ a \notin missed
    BY <1>1, <1>2, <2>1 DEF Unplaced, rows, IInv, TypeOK
  <2>3. BeingPlaced(a)
    BY <2>2 DEF IInv, PlacedUnlessDied
  <2> QED BY <1>2, <2>3 DEF BeingPlaced
<1>5. cohort' \in [Operators -> 0 .. cohorts'] /\ missed' \subseteq Operators
  BY <1>1, <1>2 DEF IInv, TypeOK
<1>6. stale' \subseteq Requests
  BY <1>2 DEF IInv, TypeOK
<1> QED BY <1>2, <1>3, <1>4, <1>5, <1>6 DEF IInv, TypeOK, rows

LEMMA DiesStep ==
  ASSUME IInv, NEW q \in Requests, Dies(q)
  PROVE  IInv'
<1>1. Go(q, pc[q], "idle", NoTask) /\ UNCHANGED <<rows, weeks>>
      /\ missed' = IF pc[q] \in Placing THEN missed \cup {task[q].op} ELSE missed
  BY DEF Dies, End
<1>2. pc'[q] = "idle" /\ task'[q] = NoTask
  BY <1>1 DEF Go, IInv, TypeOK
<1>3. ShapeOf(q)' /\ SaveFact(q)' /\ ReturnFact(q)'
  BY <1>2 DEF ShapeOf, SaveFact, ReturnFact, Saving, Placing
<1>4. missed \subseteq missed' /\ missed' \subseteq Operators
      /\ (pc[q] \in Placing => task[q].op \in missed')
  BY <1>1, Placer DEF PlaceTask, IInv, TypeOK
<1>5. UNCHANGED <<op, weeks>> /\ UNCHANGED rows /\ cohorts' \in Nat /\ cohorts' >= cohorts
  BY <1>1 DEF rows, weeks, IInv, TypeOK
<1>6. FewCohorts' /\ PlacedUnlessDied' /\ cohorts' \in 0 .. Cardinality(Requests)
      /\ cohort' \in [Operators -> 0 .. cohorts'] /\ missed' \subseteq Operators
  BY <1>1, <1>4, <1>5, WeeksKept
<1>7. /\ pc' \in [Requests -> Saving \cup Placing \cup {"idle"}]
      /\ task' \in [Requests -> Tasks] /\ stale' \subseteq Requests
      /\ op' \in [Operators -> Row \cup {Absent}] /\ depot' \subseteq Vehicles
      /\ unsureHold' \subseteq Operators /\ unsureBed' \subseteq Operators
      /\ Shape' /\ Facts' /\ HeldByOne' /\ HeldIsAllocated'
  <2>1. NoTask \in Tasks BY DEF Tasks
  <2> QED BY <1>1, <1>3, <1>5, <2>1, RowsKept
<1> QED BY <1>6, <1>7 DEF IInv, TypeOK

-----------------------------------------------------------------------------
(* The writes.                                                              *)

\* Whoever is in the middle of a save is overtaken by a write, and knows nothing
\* any more; the others are not disturbed.
LEMMA Overtaking ==
  ASSUME IInv, NEW q \in Requests, NEW to \in {"place", "idle"}, NEW t \in Tasks,
         GoWriting(q, "write", to, t, Saving), to = "place" => t \in PlaceTask, cohorts' = cohorts
  PROVE  /\ pc' \in [Requests -> Saving \cup Placing \cup {"idle"}]
         /\ task' \in [Requests -> Tasks] /\ stale' \subseteq Requests
         /\ \A p \in Requests \ {q} : pc'[p] = pc[p] /\ task'[p] = task[p]
         /\ pc'[q] = to /\ task'[q] = t
         /\ Shape' /\ Facts' /\ FewCohorts'
<1> USE DEF IInv
<1>1. /\ pc' \in [Requests -> Saving \cup Placing \cup {"idle"}]
      /\ task' \in [Requests -> Tasks] /\ stale' \subseteq Requests
      /\ \A p \in Requests \ {q} : pc'[p] = pc[p] /\ task'[p] = task[p]
      /\ \A p \in Requests \ {q} : pc[p] \in Saving => p \in stale'
      /\ pc'[q] = to /\ task'[q] = t
  BY DEF GoWriting, TypeOK, Placing
<1>2. Shape'
  <2> SUFFICES ASSUME NEW p \in Requests PROVE ShapeOf(p)'
    BY DEF Shape
  <2>1. CASE p = q BY <1>1, <2>1 DEF ShapeOf, Placing
  <2>2. CASE p # q BY <1>1, <2>2 DEF Shape, ShapeOf
  <2> QED BY <2>1, <2>2
<1>3. Facts'
  BY <1>1 DEF Facts, SaveFact, ReturnFact, Saving
<1>4. FewCohorts'
  <2>1. Inserting' = Inserting BY <1>1 DEF Inserting, GoWriting
  <2> QED BY <2>1 DEF FewCohorts
<1> QED BY <1>1, <1>2, <1>3, <1>4

\* An operator who is left with a vehicle on a check that is still true had it
\* before, or nobody else did and it is not in the warehouse.
LEMMA HoldChecked ==
  ASSUME IInv, NEW q \in Requests, pc[q] = "write", task[q] \in SaveTask,
         HoldsAny(task[q].row), HoldIsChecked(q)
  PROVE  LET o == task[q].op
             v == task[q].row.vehicle
         IN \/ Holders(v) \subseteq {o} /\ v \notin depot
            \/ o \in Holders(v) \ unsureHold
<1>1. SaveFact(q) /\ pc[q] \in Saving /\ q \notin stale /\ task[q].op \in Operators
  BY DEF IInv, Facts, Saving, HoldIsChecked, SaveTask
<1>2. CASE task[q].names
  BY <1>1, <1>2 DEF SaveFact
<1>3. CASE ~task[q].names
  BY <1>1, <1>3 DEF SaveFact, HoldIsChecked, HoldsAny, Holders, Holds
<1> QED BY <1>2, <1>3

LEMMA WriteOperatorStep ==
  ASSUME IInv, NEW q \in Requests, WriteOperator(q)
  PROVE  IInv'
<1> DEFINE o == task[q].op
           row == task[q].row
<1>1. pc[q] = "write" /\ task[q] \in SaveTask /\ o \in Operators /\ row \in Row
      /\ UNCHANGED <<weeks, missed>> /\ "write" \notin Placing
  BY DEF WriteOperator, IInv, Shape, ShapeOf, SaveTask, VehicleTask, Placing
<1>2. CASE End(q, "write") /\ UNCHANGED rows
  BY <1>1, <1>2, RefusedStep
<1>3. CASE /\ GoWriting(q, "write", "place", [kind |-> "place", op |-> o, cohort |-> 0], Saving)
           /\ op' = [op EXCEPT ![o] = row]
           /\ unsureHold' = IF HoldsAny(row) /\ ~HoldIsChecked(q) THEN unsureHold \cup {o} ELSE unsureHold \ {o}
           /\ unsureBed' = IF row.housed /\ ~BedIsChecked(q) THEN unsureBed \cup {o} ELSE unsureBed \ {o}
           /\ UNCHANGED depot
  <2> DEFINE t == [kind |-> "place", op |-> o, cohort |-> 0]
  <2>1. t \in PlaceTask /\ t \in Tasks /\ cohorts' = cohorts
    BY <1>1 DEF PlaceTask, Tasks, weeks
  <2>2. /\ pc' \in [Requests -> Saving \cup Placing \cup {"idle"}]
        /\ task' \in [Requests -> Tasks] /\ stale' \subseteq Requests
        /\ \A p \in Requests \ {q} : pc'[p] = pc[p] /\ task'[p] = task[p]
        /\ pc'[q] = "place" /\ task'[q] = t
        /\ Shape' /\ Facts' /\ FewCohorts'
    BY <1>3, <2>1, Overtaking
  <2>3. op' \in [Operators -> Row \cup {Absent}] /\ depot' \subseteq Vehicles
        /\ unsureHold' \subseteq Operators /\ unsureBed' \subseteq Operators
        /\ unsureHold \subseteq unsureHold' \cup {o}
    BY <1>1, <1>3 DEF IInv, TypeOK
  <2>4. \A v \in Vehicles : \A a \in Holders(v)' : a # o => a \in Holders(v)
    BY <1>3 DEF Holders, Holds, IInv, TypeOK
  <2>5. \A v \in Vehicles : o \in Holders(v)' /\ o \notin unsureHold' =>
          \/ Holders(v) \subseteq {o} /\ v \notin depot
          \/ o \in Holders(v) \ unsureHold
    <3> SUFFICES ASSUME NEW v \in Vehicles, o \in Holders(v)', o \notin unsureHold'
                 PROVE  (Holders(v) \subseteq {o} /\ v \notin depot) \/ o \in Holders(v) \ unsureHold
      OBVIOUS
    <3>1. HoldsAny(row) /\ row.vehicle = v
      BY <1>1, <1>3, ConstantsAssumption DEF Holders, Holds, HoldsAny, IInv, TypeOK
    <3>2. HoldIsChecked(q)
      BY <1>3, <3>1
    <3> QED BY <1>1, <3>1, <3>2, HoldChecked
  <2>6. HeldByOne'
    <3> SUFFICES ASSUME NEW v \in Vehicles, NEW a \in Holders(v)' \ unsureHold',
                        NEW b \in Holders(v)' \ unsureHold', a # b
                 PROVE  FALSE
      BY DEF HeldByOne
    <3>1. \A c \in {a, b} : c # o => c \in Holders(v) \ unsureHold
      BY <2>3, <2>4
    <3>2. CASE a # o /\ b # o
      BY <3>1, <3>2 DEF IInv, HeldByOne
    <3>3. CASE a = o \/ b = o
      BY <2>5, <3>1, <3>3 DEF IInv, HeldByOne
    <3> QED BY <3>2, <3>3
  <2>7. HeldIsAllocated'
    <3> SUFFICES ASSUME NEW v \in depot, NEW a \in Holders(v)', a \notin unsureHold' PROVE FALSE
      BY <1>3 DEF HeldIsAllocated
    <3>1. v \in Vehicles BY DEF IInv, TypeOK
    <3>2. a \in Holders(v) \ unsureHold
      BY <2>3, <2>4, <2>5, <3>1
    <3> QED BY <3>2 DEF IInv, HeldIsAllocated
  <2>8. PlacedUnlessDied'
    <3> SUFFICES ASSUME NEW a \in Operators, a \notin missed', Unplaced(a)' PROVE BeingPlaced(a)'
      BY DEF PlacedUnlessDied
    <3>1. CASE a = o
      BY <2>2, <3>1 DEF BeingPlaced, Placing
    <3>2. CASE a # o
      <4>1. Unplaced(a) /\ a \notin missed
        BY <1>1, <1>3, <3>2 DEF Unplaced, weeks, IInv, TypeOK
      <4>2. PICK p \in Requests : pc[p] \in Placing /\ task[p].op = a
        BY <4>1 DEF IInv, PlacedUnlessDied, BeingPlaced
      <4>3. pc'[p] \in Placing /\ task'[p].op = a
        BY <1>1, <2>2, <4>2
      <4> QED BY <4>3 DEF BeingPlaced
    <3> QED BY <3>1, <3>2
  <2> QED BY <1>1, <2>2, <2>3, <2>6, <2>7, <2>8 DEF IInv, TypeOK, weeks
<1> QED BY <1>2, <1>3 DEF WriteOperator

LEMMA WriteVehicleStep ==
  ASSUME IInv, NEW q \in Requests, WriteVehicle(q)
  PROVE  IInv'
<1> DEFINE v == task[q].vehicle
           out == task[q].out
<1>1. pc[q] = "write" /\ task[q] \in VehicleTask /\ v \in Vehicles
      /\ UNCHANGED <<op, unsureBed, weeks, missed>> /\ GoWriting(q, "write", "idle", NoTask, Saving)
      /\ depot' = (IF out THEN depot \cup {v} ELSE depot \ {v})
      /\ unsureHold' = (IF out /\ q \in stale THEN unsureHold \cup Holders(v) ELSE unsureHold)
  BY DEF WriteVehicle, IInv, Shape, ShapeOf, SaveTask, VehicleTask
<1>2. /\ pc' \in [Requests -> Saving \cup Placing \cup {"idle"}]
      /\ task' \in [Requests -> Tasks] /\ stale' \subseteq Requests
      /\ \A p \in Requests \ {q} : pc'[p] = pc[p] /\ task'[p] = task[p]
      /\ Shape' /\ Facts' /\ FewCohorts'
  <2>1. NoTask \in Tasks /\ cohorts' = cohorts BY <1>1 DEF Tasks, weeks
  <2> QED BY <1>1, <2>1, Overtaking
<1>3. depot' \subseteq Vehicles /\ unsureHold' \subseteq Operators /\ unsureHold \subseteq unsureHold'
      /\ \A u \in Vehicles : Holders(u)' = Holders(u)
  BY <1>1 DEF IInv, TypeOK, Holders, Holds
<1>4. HeldByOne'
  BY <1>3 DEF IInv, HeldByOne
<1>5. HeldIsAllocated'
  <2> SUFFICES ASSUME NEW u \in depot' PROVE Holders(u) \subseteq unsureHold'
    BY <1>3 DEF HeldIsAllocated
  <2>1. CASE u \in depot
    BY <1>3, <2>1 DEF IInv, HeldIsAllocated
  <2>2. CASE u \notin depot
    <3>1. u = v /\ out BY <1>1, <2>2
    <3>2. CASE q \in stale BY <1>1, <3>1, <3>2
    <3>3. CASE q \notin stale
      BY <1>1, <2>2, <3>1, <3>3 DEF IInv, Facts, ReturnFact
    <3> QED BY <3>2, <3>3
  <2> QED BY <2>1, <2>2
<1>6. PlacedUnlessDied'
  <2> SUFFICES ASSUME NEW a \in Operators, a \notin missed', Unplaced(a)' PROVE BeingPlaced(a)'
    BY DEF PlacedUnlessDied
  <2>1. Unplaced(a) /\ a \notin missed BY <1>1 DEF Unplaced, weeks
  <2>2. PICK p \in Requests : pc[p] \in Placing /\ task[p].op = a
    BY <2>1 DEF IInv, PlacedUnlessDied, BeingPlaced
  <2>3. pc'[p] \in Placing /\ task'[p].op = a
    BY <1>1, <1>2, <2>2 DEF Placing
  <2> QED BY <2>3 DEF BeingPlaced
<1> QED BY <1>1, <1>2, <1>3, <1>4, <1>5, <1>6 DEF IInv, TypeOK, weeks

-----------------------------------------------------------------------------
LEMMA Inductive == IInv /\ [Next]_vars => IInv'
<1> SUFFICES ASSUME IInv, [Next]_vars PROVE IInv'
  OBVIOUS
<1>1. CASE AddMember
  BY <1>1, AddMemberStep
<1>2. ASSUME NEW q \in Requests, Step(q) PROVE IInv'
  BY <1>2, StartCreateStep, StartUpdateStep, CountBedsStep, CheckDepotStep, CheckHolderStep,
     WriteOperatorStep, StartVehicleStep, CheckReturnStep, WriteVehicleStep, ReadPlacedStep,
     FindCohortStep, InsertCohortStep, JoinStep, DiesStep DEF Step
<1>3. CASE UNCHANGED vars
  BY <1>3 DEF vars, rows, weeks, flight, IInv, TypeOK, Shape, ShapeOf, Facts, SaveFact, ReturnFact,
     FewCohorts, Inserting, HeldByOne, HeldIsAllocated, PlacedUnlessDied, Unplaced, BeingPlaced,
     HoldsAny, Holders, Holds
<1> QED BY <1>1, <1>2, <1>3 DEF Next

LEMMA Invariant == Spec => []IInv
<1> QED BY InitIInv, Inductive, PTL DEF Spec

\* The roster has the types of its tables, and there are no more cohorts of the
\* week than requests that find none (findOrCreateCohort).
THEOREM TypeCorrect == Spec => []TypeOK
<1>1. IInv => TypeOK BY DEF IInv
<1> QED BY <1>1, Invariant, PTL

\* Among the operators whose vehicle was checked on rows that were still true at
\* the write (assertVehicleAssignable), no two hold the same one.
THEOREM OneCheckedHolder == Spec => []HeldByOne
<1>1. IInv => HeldByOne BY DEF IInv
<1> QED BY <1>1, Invariant, PTL

\* A vehicle held on such a check is not in the warehouse: neither the save of
\* the operator nor the return of the vehicle (updateVehicle) lets that happen.
THEOREM CheckedHoldIsAllocated == Spec => []HeldIsAllocated
<1>1. IInv => HeldIsAllocated BY DEF IInv
<1> QED BY <1>1, Invariant, PTL

\* An active operator with a vehicle has a cohort, or ensureCohortForOperator is
\* under way for him, or the request that ran it died.
THEOREM EverybodyPlaced == Spec => []PlacedUnlessDied
<1>1. IInv => PlacedUnlessDied BY DEF IInv
<1> QED BY <1>1, Invariant, PTL

-----------------------------------------------------------------------------
(* The beds.                                                                *)

\* Whoever has a bed is active or about to be.
HousedActive(row) == row.housed => row.status \in {"active", "pending_activation"}

\* What a save that nobody overtook knows of the bed it is going to give: the
\* operator has it already, or there was room for him when it was counted.
BedFact(q) ==
  LET t == task[q]
      s == t.row.site
  IN
  pc[q] \in Saving /\ task[q] \in SaveTask =>
    /\ HousedActive(t.row)
    /\ q \notin stale /\ t.row.housed /\ ~t.bed => t.op \in Occupants(s)
    /\ q \notin stale /\ t.bed /\ ~t.blind /\ pc[q] # "bed" => Cardinality(Occupants(s) \ {t.op}) < Beds[s]

BedInv ==
  /\ \A o \in Operators : op[o] # Absent => HousedActive(op[o])
  /\ \A q \in Requests : BedFact(q)
  /\ BedsSuffice

\* A step that writes no operator keeps what is known of the beds.
LEMMA BedsKept ==
  ASSUME BedInv, NEW q \in Requests, UNCHANGED <<op, unsureBed>>,
         \A p \in Requests \ {q} : pc'[p] = pc[p] /\ task'[p] = task[p] /\ (p \in stale => p \in stale'),
         BedFact(q)'
  PROVE  BedInv'
<1>1. \A s : Occupants(s)' = Occupants(s)
  BY DEF Occupants, Occupies
<1>2. \A p \in Requests : BedFact(p)'
  <2> SUFFICES ASSUME NEW p \in Requests, p # q PROVE BedFact(p)'
    OBVIOUS
  <2> QED BY <1>1 DEF BedInv, BedFact
<1>3. BedsSuffice'
  BY <1>1 DEF BedInv, BedsSuffice
<1> QED BY <1>2, <1>3 DEF BedInv

\* So does the step of a request that is not, or no longer, saving an operator.
LEMMA BedsUntouched ==
  ASSUME IInv, BedInv, NEW q \in Requests, NEW from, NEW to, NEW t,
         Go(q, from, to, t), UNCHANGED <<op, unsureBed>>,
         to \notin Saving \/ t \notin SaveTask
  PROVE  BedInv'
<1>1. /\ \A p \in Requests \ {q} : pc'[p] = pc[p] /\ task'[p] = task[p] /\ (p \in stale => p \in stale')
      /\ pc'[q] = to /\ task'[q] = t
  BY DEF Go, IInv, TypeOK
<1>2. BedFact(q)'
  BY <1>1 DEF BedFact
<1> QED BY <1>1, <1>2, BedsKept

\* A check that is passed with the task as it was, past the bed.
LEMMA BedsChecked ==
  ASSUME IInv, BedInv, NEW q \in Requests, NEW to \in Saving, pc[q] \in {"depot", "holder"},
         Go(q, pc[q], to, task[q]), UNCHANGED <<op, unsureBed>>
  PROVE  BedInv'
<1>1. /\ \A p \in Requests \ {q} : pc'[p] = pc[p] /\ task'[p] = task[p] /\ (p \in stale => p \in stale')
      /\ pc'[q] = to /\ task'[q] = task[q] /\ stale' = stale
  BY DEF Go, IInv, TypeOK, Saving
<1>2. \A s : Occupants(s)' = Occupants(s)
  BY DEF Occupants, Occupies
<1>3. BedFact(q)'
  BY <1>1, <1>2 DEF BedInv, BedFact, Saving
<1> QED BY <1>1, <1>3, BedsKept

LEMMA StartCreateBeds ==
  ASSUME IInv, BedInv, NEW q \in Requests, StartCreate(q) PROVE BedInv'
<1>1. PICK o \in Operators, row \in Hires :
        /\ op[o] = Absent
        /\ Go(q, "idle", FirstCheck(row.vehicle # NoVehicle, FALSE),
              [kind |-> "create", op |-> o, row |-> row, names |-> row.vehicle # NoVehicle,
               bed |-> FALSE, blind |-> FALSE])
        /\ UNCHANGED <<rows, weeks, missed>>
  BY DEF StartCreate
<1>2. /\ \A p \in Requests \ {q} : pc'[p] = pc[p] /\ task'[p] = task[p] /\ (p \in stale => p \in stale')
      /\ task'[q].row = row /\ task'[q].bed = FALSE /\ UNCHANGED <<op, unsureBed>>
  BY <1>1 DEF Go, IInv, TypeOK, rows
<1>3. ~row.housed
  BY ConstantsAssumption
<1>4. BedFact(q)'
  BY <1>2, <1>3 DEF BedFact, HousedActive
<1> QED BY <1>2, <1>4, BedsKept

\* An update that keeps a bed unchecked keeps the one the operator occupies.
LEMMA MergedBed ==
  ASSUME NEW row \in Row, NEW b \in Bodies, HousedActive(row), Merge(row, b).housed
  PROVE  /\ HousedActive(Merge(row, b))
         /\ ~ChecksBed(row, b) => Occupies(row, Merge(row, b).site)
<1> USE ConstantsAssumption DEF Row, AllBodies, Statuses
<1>1. b \in AllBodies OBVIOUS
<1>2. HousedActive(Merge(row, b))
  BY <1>1 DEF Merge, HousedActive
<1>3. ASSUME ~ChecksBed(row, b) PROVE Occupies(row, Merge(row, b).site)
  <2>1. b.housed = "keep" /\ row.housed
    BY <1>1, <1>3 DEF ChecksBed, Merge
  <2>2. Merge(row, b).site = row.site
    BY <1>1, <1>3, <2>1 DEF ChecksBed, Merge
  <2> QED BY <2>1, <2>2 DEF Occupies, HousedActive
<1> QED BY <1>2, <1>3

LEMMA StartUpdateBeds ==
  ASSUME IInv, BedInv, NEW q \in Requests, StartUpdate(q) PROVE BedInv'
<1> DEFINE After(o, b) == Merge(op[o], b)
           Names(o, b) == b.vehicle # "keep" /\ After(o, b).vehicle # NoVehicle
<1>1. PICK o \in Operators, b \in Bodies :
        /\ op[o] # Absent
        /\ Go(q, "idle", FirstCheck(Names(o, b), ChecksBed(op[o], b)),
              [kind |-> "update", op |-> o, row |-> After(o, b), names |-> Names(o, b),
               bed |-> ChecksBed(op[o], b), blind |-> FALSE])
        /\ UNCHANGED <<rows, weeks, missed>>
  BY DEF StartUpdate
<1>2. op[o] \in Row /\ HousedActive(op[o])
  BY <1>1 DEF IInv, TypeOK, BedInv
<1>3. /\ \A p \in Requests \ {q} : pc'[p] = pc[p] /\ task'[p] = task[p] /\ (p \in stale => p \in stale')
      /\ pc'[q] = FirstCheck(Names(o, b), ChecksBed(op[o], b))
      /\ task'[q].row = After(o, b) /\ task'[q].bed = ChecksBed(op[o], b) /\ task'[q].op = o
      /\ UNCHANGED <<op, unsureBed>>
  BY <1>1 DEF Go, IInv, TypeOK, rows
<1>4. ChecksBed(op[o], b) => pc'[q] = "bed"
  BY <1>3 DEF FirstCheck
<1>5. HousedActive(After(o, b))
  BY <1>2, MergedBed DEF HousedActive
<1>6. After(o, b).housed /\ ~ChecksBed(op[o], b) => o \in Occupants(After(o, b).site)
  <2>1. After(o, b).housed /\ ~ChecksBed(op[o], b) => Occupies(op[o], After(o, b).site)
    BY <1>2, MergedBed
  <2> QED BY <2>1 DEF Occupants
<1>7. BedFact(q)'
  <2>1. \A s : Occupants(s)' = Occupants(s)
    BY <1>3 DEF Occupants, Occupies
  <2> HIDE DEF After, Names
  <2>2. /\ HousedActive(task'[q].row)
        /\ task'[q].row.housed /\ ~task'[q].bed => task'[q].op \in Occupants(task'[q].row.site)
        /\ task'[q].bed => pc'[q] = "bed"
    BY <1>3, <1>4, <1>5, <1>6
  <2> QED BY <2>1, <2>2 DEF BedFact
<1> QED BY <1>3, <1>7, BedsKept

LEMMA CountBedsBeds ==
  ASSUME IInv, BedInv, NEW q \in Requests, CountBeds(q) PROVE BedInv'
<1> DEFINE s == task[q].row.site
           to == FirstCheck(task[q].names, FALSE)
<1>1. pc[q] = "bed" /\ task[q] \in SaveTask /\ UNCHANGED <<op, unsureBed>>
  BY DEF CountBeds, IInv, Shape, ShapeOf, rows
<1>2. \A x : Occupants(x)' = Occupants(x)
  BY <1>1 DEF Occupants, Occupies
<1>3. to \in {"depot", "write"}
  BY DEF FirstCheck
<1>4. CASE End(q, "bed")
  BY <1>1, <1>4, BedsUntouched DEF End, Saving
<1>5. CASE Cardinality(Occupants(s) \ {task[q].op}) < Beds[s] /\ Go(q, "bed", to, task[q])
  <2>1. /\ \A p \in Requests \ {q} : pc'[p] = pc[p] /\ task'[p] = task[p] /\ (p \in stale => p \in stale')
        /\ pc'[q] = to /\ task'[q] = task[q] /\ stale' = stale
    BY <1>3, <1>5 DEF Go, IInv, TypeOK
  <2>2. BedFact(q)'
    BY <1>1, <1>2, <1>5, <2>1 DEF BedInv, BedFact, Saving
  <2> QED BY <1>1, <2>1, <2>2, BedsKept
<1>6. CASE Go(q, "bed", to, [task[q] EXCEPT !.blind = TRUE])
  <2>1. /\ \A p \in Requests \ {q} : pc'[p] = pc[p] /\ task'[p] = task[p] /\ (p \in stale => p \in stale')
        /\ pc'[q] = to /\ task'[q] = [task[q] EXCEPT !.blind = TRUE] /\ stale' = stale
    BY <1>3, <1>6 DEF Go, IInv, TypeOK
  <2>2. /\ task'[q].row = task[q].row /\ task'[q].bed = task[q].bed /\ task'[q].op = task[q].op
        /\ task'[q].blind
    BY <1>1, <2>1 DEF SaveTask
  <2>3. BedFact(q)'
    BY <1>1, <1>2, <2>1, <2>2 DEF BedInv, BedFact, Saving
  <2> QED BY <1>1, <2>1, <2>3, BedsKept
<1> QED BY <1>4, <1>5, <1>6 DEF CountBeds

\* The occupants of a site are among the operators, and can be counted.
LEMMA OccupantsFinite ==
  ASSUME NEW S \in SUBSET Operators
  PROVE  IsFiniteSet(S) /\ Cardinality(S) \in Nat
BY ConstantsAssumption, FS_Subset, FS_CardinalityType

LEMMA OneMoreBed ==
  ASSUME NEW S \in SUBSET Operators, NEW o \in Operators, NEW n \in Nat, Cardinality(S) < n,
         NEW T \in SUBSET (S \cup {o})
  PROVE  Cardinality(T) <= n
<1>1. IsFiniteSet(S) /\ Cardinality(S) \in Nat
  BY OccupantsFinite
<1>2. IsFiniteSet(S \cup {o}) /\ Cardinality(S \cup {o}) \in Nat
  BY OccupantsFinite
<1>3. Cardinality(S \cup {o}) = IF o \in S THEN Cardinality(S) ELSE Cardinality(S) + 1
  BY <1>1, FS_AddElement, Zenon
<1>4. Cardinality(T) <= Cardinality(S \cup {o})
  BY <1>2, FS_Subset, Zenon
<1>5. Cardinality(T) \in Nat
  BY OccupantsFinite
<1> QED BY <1>1, <1>2, <1>3, <1>4, <1>5

LEMMA WriteOperatorBeds ==
  ASSUME IInv, BedInv, NEW q \in Requests, WriteOperator(q) PROVE BedInv'
<1> DEFINE o == task[q].op
           row == task[q].row
<1>1. pc[q] = "write" /\ task[q] \in SaveTask /\ o \in Operators /\ row \in Row
  BY DEF WriteOperator, IInv, Shape, ShapeOf, SaveTask, VehicleTask
<1>2. CASE End(q, "write") /\ UNCHANGED rows
  BY <1>2, BedsUntouched DEF End, Saving, rows
<1>3. CASE /\ GoWriting(q, "write", "place", [kind |-> "place", op |-> o, cohort |-> 0], Saving)
           /\ op' = [op EXCEPT ![o] = row]
           /\ unsureBed' = IF row.housed /\ ~BedIsChecked(q) THEN unsureBed \cup {o} ELSE unsureBed \ {o}
  <2>1. /\ \A p \in Requests \ {q} : pc'[p] = pc[p] /\ task'[p] = task[p]
        /\ \A p \in Requests \ {q} : pc[p] \in Saving => p \in stale'
        /\ pc'[q] = "place"
    BY <1>3 DEF GoWriting, IInv, TypeOK
  <2>2. BedFact(q) /\ HousedActive(row)
    BY <1>1 DEF BedInv, BedFact, Saving
  <2>3. \A x \in Operators : op'[x] = IF x = o THEN row ELSE op[x]
    BY <1>1, <1>3 DEF IInv, TypeOK
  <2>4. \A x \in Operators : op'[x] # Absent => HousedActive(op'[x])
    BY <2>2, <2>3 DEF BedInv
  <2>5. \A p \in Requests : BedFact(p)'
    BY <2>1 DEF BedInv, BedFact, Saving, Placing
  <2>6. ASSUME NEW s \in Sites PROVE Cardinality(Occupants(s)' \ unsureBed') <= Beds[s]
    <3> DEFINE Sure == Occupants(s) \ unsureBed
               SureNext == Occupants(s)' \ unsureBed'
    <3>1. \A x \in Operators : x # o => (x \in SureNext <=> x \in Sure)
      BY <1>3, <2>3 DEF Occupants
    <3>2. SureNext \in SUBSET Operators /\ Sure \in SUBSET Operators /\ SureNext \subseteq Sure \cup {o}
      BY <3>1 DEF Occupants
    <3>3. Cardinality(Sure) <= Beds[s] /\ Beds[s] \in Nat
      BY ConstantsAssumption DEF BedInv, BedsSuffice
    <3> HIDE DEF SureNext
    <3>4. CASE SureNext \subseteq Sure
      <4>1. Cardinality(SureNext) <= Cardinality(Sure) /\ Cardinality(SureNext) \in Nat /\ Cardinality(Sure) \in Nat
        BY <3>2, <3>4, OccupantsFinite, FS_Subset
      <4> QED BY <3>3, <4>1 DEF SureNext
    <3>5. CASE ~(SureNext \subseteq Sure)
      <4>1. o \in SureNext /\ o \notin Sure
        BY <3>2, <3>5
      <4>2. row.housed /\ BedIsChecked(q) /\ row.site = s
        BY <1>1, <1>3, <2>3, <4>1 DEF SureNext, Occupants, Occupies
      <4>3. q \notin stale /\ ~task[q].blind
        BY <4>2 DEF BedIsChecked
      <4>4. CASE task[q].bed
        <5>1. Cardinality(Occupants(s) \ {o}) < Beds[s]
          BY <1>1, <2>2, <4>2, <4>3, <4>4 DEF BedFact, Saving
        <5>2. SureNext \subseteq (Occupants(s) \ {o}) \cup {o}
          BY <3>2
        <5>3. Occupants(s) \ {o} \in SUBSET Operators
          BY DEF Occupants
        <5>4. Cardinality(SureNext) <= Beds[s]
          BY <1>1, <3>3, <5>1, <5>2, <5>3, OneMoreBed
        <5> QED BY <5>4 DEF SureNext
      <4>5. CASE ~task[q].bed
        <5>1. o \in Occupants(s)
          BY <1>1, <2>2, <4>2, <4>3, <4>5 DEF BedFact, Saving
        <5>2. o \notin unsureBed
          BY <4>2, <4>5 DEF BedIsChecked
        <5> QED BY <4>1, <5>1, <5>2
      <4> QED BY <4>4, <4>5
    <3> QED BY <3>4, <3>5
  <2> QED BY <2>4, <2>5, <2>6 DEF BedInv, BedsSuffice
<1> QED BY <1>2, <1>3 DEF WriteOperator

\* Somebody else's write leaves the beds, and stops at most the others' saves.
LEMMA OvertakingBeds ==
  ASSUME IInv, BedInv, NEW q \in Requests, NEW from, NEW t, NEW overtaken,
         GoWriting(q, from, "idle", t, overtaken), UNCHANGED <<op, unsureBed>>
  PROVE  BedInv'
<1>1. /\ \A p \in Requests \ {q} : pc'[p] = pc[p] /\ task'[p] = task[p] /\ (p \in stale => p \in stale')
      /\ pc'[q] = "idle"
  BY DEF GoWriting, IInv, TypeOK
<1>2. BedFact(q)'
  BY <1>1 DEF BedFact, Saving
<1> QED BY <1>1, <1>2, BedsKept

LEMMA AddMemberBeds == ASSUME BedInv, AddMember PROVE BedInv'
<1>1. UNCHANGED <<op, unsureBed, pc, task>> /\ stale \subseteq stale'
  BY DEF AddMember, rows
<1>2. \A s : Occupants(s)' = Occupants(s)
  BY <1>1 DEF Occupants, Occupies
<1> QED BY <1>1, <1>2 DEF BedInv, BedFact, BedsSuffice

LEMMA BedsInductive == IInv /\ BedInv /\ [Next]_vars => BedInv'
<1> SUFFICES ASSUME IInv, BedInv, [Next]_vars PROVE BedInv'
  OBVIOUS
<1>1. ASSUME NEW q \in Requests, CheckDepot(q) \/ CheckHolder(q) PROVE BedInv'
  <2>1. pc[q] \in {"depot", "holder"} /\ UNCHANGED <<op, unsureBed>>
    BY <1>1 DEF CheckDepot, CheckHolder, rows
  <2>2. CASE End(q, pc[q])
    BY <2>1, <2>2, BedsUntouched DEF End, Saving
  <2>3. CASE Go(q, pc[q], "holder", task[q]) \/ Go(q, pc[q], "write", task[q])
    BY <2>1, <2>3, BedsChecked DEF Saving
  <2> QED BY <1>1, <2>2, <2>3 DEF CheckDepot, CheckHolder
<1>2. ASSUME NEW q \in Requests, StartVehicle(q) PROVE BedInv'
  <2>1. PICK v \in Vehicles, out \in BOOLEAN :
          /\ Go(q, "idle", IF out /\ v \notin depot THEN "warehouse" ELSE "write",
                [kind |-> "vehicle", vehicle |-> v, out |-> out])
          /\ UNCHANGED rows
    BY <1>2 DEF StartVehicle
  <2>2. [kind |-> "vehicle", vehicle |-> v, out |-> out] \notin SaveTask
    BY DEF SaveTask
  <2> QED BY <2>1, <2>2, BedsUntouched DEF rows
<1>3. ASSUME NEW q \in Requests, CheckReturn(q) PROVE BedInv'
  <2>1. pc[q] = "warehouse" /\ task[q] \in VehicleTask /\ UNCHANGED <<op, unsureBed>>
    BY <1>3 DEF CheckReturn, IInv, Shape, ShapeOf, rows
  <2>2. task[q] \notin SaveTask
    BY <2>1 DEF VehicleTask, SaveTask
  <2> QED BY <1>3, <2>1, <2>2, BedsUntouched DEF CheckReturn, End, Saving
<1>4. ASSUME NEW q \in Requests, WriteVehicle(q) PROVE BedInv'
  BY <1>4, OvertakingBeds DEF WriteVehicle
<1>5. ASSUME NEW q \in Requests, ReadPlaced(q) \/ FindCohort(q) \/ InsertCohort(q) \/ Dies(q) PROVE BedInv'
  BY <1>5, BedsUntouched DEF ReadPlaced, FindCohort, InsertCohort, Dies, End, Saving, rows
<1>6. ASSUME NEW q \in Requests, Join(q) PROVE BedInv'
  BY <1>6, OvertakingBeds DEF Join, rows
<1>7. CASE UNCHANGED vars
  <2>1. \A s : Occupants(s)' = Occupants(s)
    BY <1>7 DEF Occupants, Occupies, vars, rows
  <2> QED BY <1>7, <2>1 DEF vars, rows, flight, BedInv, BedFact, BedsSuffice
<1> QED BY <1>1, <1>2, <1>3, <1>4, <1>5, <1>6, <1>7, StartCreateBeds, StartUpdateBeds, CountBedsBeds,
           WriteOperatorBeds, AddMemberBeds DEF Next, Step

\* BedsSuffice holds of every run: the operators housed on a count that was
\* still true at the write never outnumber the beds of a site, whatever other
\* saves, moves between sites and deaths come in between.
THEOREM EnoughBeds == Spec => []BedsSuffice
<1>1. Init => BedInv
  <2> SUFFICES ASSUME Init PROVE BedInv
    OBVIOUS
  <2>1. \A s \in Sites : Occupants(s) \ unsureBed = {} /\ Beds[s] \in Nat
    BY ConstantsAssumption DEF Init, Occupants, Occupies, Absent
  <2>2. BedsSuffice
    BY <2>1, FS_EmptySet DEF BedsSuffice
  <2> QED BY <2>2 DEF Init, BedInv, BedFact, Saving
<1>2. BedInv => BedsSuffice
  BY DEF BedInv
<1> QED BY <1>1, <1>2, BedsInductive, Invariant, PTL DEF Spec
=============================================================================
