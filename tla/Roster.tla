-------------------------------- MODULE Roster --------------------------------
(***************************************************************************)
(* The roster of the Ops API (ops.service.ts, accommodation.service.ts and  *)
(* the cohort placement of onboarding.service.ts): operators with the       *)
(* vehicle they hold, the bed they have at their site and their cohort, and *)
(* vehicles that are allocated to an amoeba or stand in the warehouse.      *)
(*                                                                         *)
(* A request reads the roster, checks it in statements of their own, and    *)
(* writes a whole row from what it has read. Requests are "stale" once      *)
(* another has written meanwhile. All operators are of one class and        *)
(* amoeba, and of one week: they share the cohort that is found or created. *)
(***************************************************************************)
EXTENDS Naturals, FiniteSets

CONSTANTS
  Operators, Vehicles, NoVehicle,
  Sites,
  Beds,       \* accommodation_capacity of each site
  Requests,   \* requests that may be in flight at once
  Hires,      \* rows an operator may be created with
  Bodies      \* what an update of an operator may ask for

Statuses  == {"pending_activation", "active", "inactive"}
AllBodies == [status : Statuses \cup {"keep"}, vehicle : Vehicles \cup {NoVehicle, "keep"},
              housed : {"yes", "no", "keep"}, site : Sites \cup {"keep"}]

Row    == [status : Statuses, vehicle : Vehicles \cup {NoVehicle}, housed : BOOLEAN, site : Sites]
Absent == [status |-> "absent"]

ASSUME ConstantsAssumption ==
  /\ NoVehicle \notin Vehicles /\ "keep" \notin Vehicles \cup Sites
  /\ IsFiniteSet(Operators) /\ IsFiniteSet(Requests)
  /\ Beds \in [Sites -> Nat]
  /\ Hires \subseteq {row \in Row : row.status # "inactive" /\ ~row.housed}
  /\ Bodies \subseteq AllBodies

VARIABLES
  op,         \* [Operators -> Row]: ops_operators
  depot,      \* vehicles without an amoeba
  cohorts,    \* how many cohorts there are for the week
  cohort,     \* [Operators -> Nat]: onboarding_cohort_id, 0 for none
  pc,         \* the statement each request issues next
  task,       \* what each request has read and is going to write
  stale,      \* requests overtaken by a write of another
  unsureHold, \* operators whose hold of a vehicle was not checked on fresh rows
  unsureBed,  \* operators whose bed was not
  missed      \* operators whose placement died

rows   == <<op, depot, unsureHold, unsureBed>>
weeks  == <<cohorts, cohort>>
flight == <<pc, task, stale>>
vars   == <<rows, weeks, flight, missed>>

NoTask == [kind |-> "none"]
SaveTask == [kind : {"create", "update"}, op : Operators, row : Row,
             names : BOOLEAN, bed : BOOLEAN, blind : BOOLEAN]
VehicleTask == [kind : {"vehicle"}, vehicle : Vehicles, out : BOOLEAN]
PlaceTask == [kind : {"place"}, op : Operators, cohort : Nat]
Tasks     == {NoTask} \cup SaveTask \cup VehicleTask \cup PlaceTask

Init ==
  /\ op = [o \in Operators |-> Absent]
  /\ depot \in SUBSET Vehicles
  /\ cohorts = 0
  /\ cohort = [o \in Operators |-> 0]
  /\ pc = [q \in Requests |-> "idle"]
  /\ task = [q \in Requests |-> NoTask]
  /\ stale = {} /\ unsureHold = {} /\ unsureBed = {} /\ missed = {}

Saving  == {"bed", "depot", "holder", "warehouse", "write"}
Placing == {"place", "find", "insert", "join"}

\* The step of a request, and whom its write overtakes.
Go(q, from, to, t) ==
  /\ pc[q] = from
  /\ pc' = [pc EXCEPT ![q] = to]
  /\ task' = [task EXCEPT ![q] = t]
  /\ stale' = IF to = "idle" \/ from = "idle" THEN stale \ {q} ELSE stale

GoWriting(q, from, to, t, overtaken) ==
  /\ pc[q] = from
  /\ pc' = [pc EXCEPT ![q] = to]
  /\ task' = [task EXCEPT ![q] = t]
  /\ stale' = (stale \cup {p \in Requests : pc[p] \in overtaken}) \ {q}

End(q, from) == Go(q, from, "idle", NoTask)

Holds(row, v) == row.status = "active" /\ row.vehicle = v
HoldsAny(row) == row.status = "active" /\ row.vehicle # NoVehicle
Holders(v)    == {o \in Operators : Holds(op[o], v)}

\* siteOccupancy: active and pending operators who are accommodated there.
Occupies(row, s) == row.status \in {"active", "pending_activation"} /\ row.housed /\ row.site = s
Occupants(s)     == {o \in Operators : Occupies(op[o], s)}

-----------------------------------------------------------------------------
(* createOperator and updateOperator up to the write.                       *)

\* What the request checks first.
FirstCheck(names, bed) == IF bed THEN "bed" ELSE IF names THEN "depot" ELSE "write"

StartCreate(q) ==
  \E o \in Operators, row \in Hires :
    LET names == row.vehicle # NoVehicle IN
    /\ op[o] = Absent
    /\ Go(q, "idle", FirstCheck(names, FALSE),
          [kind |-> "create", op |-> o, row |-> row, names |-> names, bed |-> FALSE, blind |-> FALSE])
    /\ UNCHANGED <<rows, weeks, missed>>

\* The merged row; leaving active status frees the bed.
Merge(row, b) ==
  LET st   == IF b.status = "keep" THEN row.status ELSE b.status
      h    == IF b.housed = "keep" THEN row.housed ELSE b.housed = "yes"
  IN [status  |-> st,
      vehicle |-> IF b.vehicle = "keep" THEN row.vehicle ELSE b.vehicle,
      housed  |-> st # "inactive" /\ h,
      site    |-> IF b.site = "keep" THEN row.site ELSE b.site]

\* Mutant: a move to another site is not checked.
ChecksBedWhenAsked(row, b) == Merge(row, b).housed /\ b.housed = "yes"

\* The bed is checked when the body asks for one or moves an accommodated operator.
ChecksBed(row, b) ==
  /\ Merge(row, b).housed
  /\ \/ b.housed = "yes"
     \/ b.housed = "keep" /\ b.site # "keep" /\ b.site # row.site

StartUpdate(q) ==
  \E o \in Operators, b \in Bodies :
    LET row   == Merge(op[o], b)
        bed   == ChecksBed(op[o], b)
        names == b.vehicle # "keep" /\ row.vehicle # NoVehicle
    IN
    /\ op[o] # Absent
    /\ Go(q, "idle", FirstCheck(names, bed),
          [kind |-> "update", op |-> o, row |-> row, names |-> names, bed |-> bed, blind |-> FALSE])
    /\ UNCHANGED <<rows, weeks, missed>>

\* assertCanHouse: the capacity of the site, which may be unknown, then a count.
CountBeds(q) ==
  LET t == task[q]
      s == t.row.site
      next == FirstCheck(t.names, FALSE)
  IN
  /\ pc[q] = "bed"
  /\ \/ Cardinality(Occupants(s) \ {t.op}) < Beds[s] /\ Go(q, "bed", next, t)
     \/ Cardinality(Occupants(s) \ {t.op}) >= Beds[s] /\ End(q, "bed")
     \/ Go(q, "bed", next, [t EXCEPT !.blind = TRUE])
  /\ UNCHANGED <<rows, weeks, missed>>

\* assertVehicleAssignable, first the vehicle ...
CheckDepot(q) ==
  /\ pc[q] = "depot"
  /\ \/ task[q].row.vehicle \notin depot /\ Go(q, "depot", "holder", task[q])
     \/ task[q].row.vehicle \in depot /\ End(q, "depot")
  /\ UNCHANGED <<rows, weeks, missed>>

\* Mutant: only an operator who is created with a vehicle is refused.
CheckHolderOfNew(q) ==
  LET t == task[q]
      taken == t.kind = "create" /\ Holders(t.row.vehicle) \ {t.op} # {}
  IN
  /\ pc[q] = "holder"
  /\ \/ ~taken /\ Go(q, "holder", "write", t)
     \/ taken /\ End(q, "holder")
  /\ UNCHANGED <<rows, weeks, missed>>

\* ... then who holds it.
CheckHolder(q) ==
  LET t == task[q]
      taken == Holders(t.row.vehicle) \ {t.op} # {}
  IN
  /\ pc[q] = "holder"
  /\ \/ ~taken /\ Go(q, "holder", "write", t)
     \/ taken /\ End(q, "holder")
  /\ UNCHANGED <<rows, weeks, missed>>

\* Is the hold, the bed, that the write leaves the operator with as good as a
\* check of the rows at the time of the write?
HoldIsChecked(q) ==
  LET t == task[q] IN
  q \notin stale /\ (t.names \/ (HoldsAny(op[t.op]) /\ t.op \notin unsureHold))
BedIsChecked(q) ==
  LET t == task[q] IN
  q \notin stale /\ ~t.blind /\ (t.bed \/ (op[t.op] # Absent /\ op[t.op].housed /\ t.op \notin unsureBed))

\* The INSERT, which person_id must be new to, or the UPDATE of all columns.
WriteOperator(q) ==
  LET t == task[q]
      o == t.op
  IN
  /\ pc[q] = "write"
  /\ t.kind \in {"create", "update"}
  /\ \/ /\ t.kind = "create" /\ op[o] # Absent
        /\ End(q, "write")
        /\ UNCHANGED rows
     \/ /\ t.kind = "update" \/ op[o] = Absent
        /\ GoWriting(q, "write", "place", [kind |-> "place", op |-> o, cohort |-> 0], Saving)
        /\ op' = [op EXCEPT ![o] = t.row]
        /\ unsureHold' = IF HoldsAny(t.row) /\ ~HoldIsChecked(q) THEN unsureHold \cup {o} ELSE unsureHold \ {o}
        /\ unsureBed' = IF t.row.housed /\ ~BedIsChecked(q) THEN unsureBed \cup {o} ELSE unsureBed \ {o}
        /\ UNCHANGED depot
  /\ UNCHANGED <<weeks, missed>>

-----------------------------------------------------------------------------
(* updateVehicle. Its body allocates the vehicle, returns it to the         *)
(* warehouse, or leaves the amoeba as it was read.                          *)

StartVehicle(q) ==
  \E v \in Vehicles, out \in BOOLEAN :
    /\ Go(q, "idle", IF out /\ v \notin depot THEN "warehouse" ELSE "write",
          [kind |-> "vehicle", vehicle |-> v, out |-> out])
    /\ UNCHANGED <<rows, weeks, missed>>

CheckReturn(q) ==
  /\ pc[q] = "warehouse"
  /\ \/ Holders(task[q].vehicle) = {} /\ Go(q, "warehouse", "write", task[q])
     \/ Holders(task[q].vehicle) # {} /\ End(q, "warehouse")
  /\ UNCHANGED <<rows, weeks, missed>>

WriteVehicle(q) ==
  LET t == task[q] IN
  /\ pc[q] = "write"
  /\ t.kind = "vehicle"
  /\ GoWriting(q, "write", "idle", NoTask, Saving)
  /\ depot' = IF t.out THEN depot \cup {t.vehicle} ELSE depot \ {t.vehicle}
  /\ unsureHold' = IF t.out /\ q \in stale THEN unsureHold \cup Holders(t.vehicle) ELSE unsureHold
  /\ UNCHANGED <<op, unsureBed, weeks, missed>>

-----------------------------------------------------------------------------
(* ensureCohortForOperator, at the end of every create and update.          *)

Unplaced(o) == HoldsAny(op[o]) /\ cohort[o] = 0

ReadPlaced(q) ==
  /\ pc[q] = "place"
  /\ \/ Unplaced(task[q].op) /\ Go(q, "place", "find", task[q])
     \/ ~Unplaced(task[q].op) /\ End(q, "place")
  /\ UNCHANGED <<rows, weeks, missed>>

\* Mutant: without a cohort of the week nobody is placed.
FindCohortOnly(q) ==
  /\ pc[q] = "find"
  /\ \/ cohorts = 0 /\ End(q, "find")
     \/ \E c \in 1 .. cohorts : Go(q, "find", "join", [task[q] EXCEPT !.cohort = c])
  /\ UNCHANGED <<rows, weeks, missed>>

\* findOrCreateCohort: any of the cohorts of the week, or a new one.
FindCohort(q) ==
  /\ pc[q] = "find"
  /\ \/ cohorts = 0 /\ Go(q, "find", "insert", task[q])
     \/ \E c \in 1 .. cohorts : Go(q, "find", "join", [task[q] EXCEPT !.cohort = c])
  /\ UNCHANGED <<rows, weeks, missed>>

InsertCohort(q) ==
  /\ Go(q, "insert", "join", [task[q] EXCEPT !.cohort = cohorts + 1])
  /\ cohorts' = cohorts + 1
  /\ UNCHANGED <<rows, cohort, missed>>

Join(q) ==
  /\ GoWriting(q, "join", "idle", NoTask, Placing)
  /\ cohort' = [cohort EXCEPT ![task[q].op] = task[q].cohort]
  /\ missed' = missed \ {task[q].op}
  /\ UNCHANGED <<rows, cohorts>>

\* addCohortMembers, one operator after another.
AddMember ==
  /\ \E o \in Operators, c \in 1 .. cohorts :
       /\ op[o] # Absent
       /\ cohort' = [cohort EXCEPT ![o] = c]
       /\ missed' = missed \ {o}
  /\ stale' = stale \cup {p \in Requests : pc[p] \in Placing}
  /\ UNCHANGED <<rows, cohorts, pc, task>>

\* The process dies, or a statement fails, between two statements of a request.
Dies(q) ==
  /\ pc[q] # "idle"
  /\ End(q, pc[q])
  /\ missed' = IF pc[q] \in Placing THEN missed \cup {task[q].op} ELSE missed
  /\ UNCHANGED <<rows, weeks>>

Step(q) ==
  \/ StartCreate(q) \/ StartUpdate(q) \/ CountBeds(q) \/ CheckDepot(q) \/ CheckHolder(q)
  \/ WriteOperator(q)
  \/ StartVehicle(q) \/ CheckReturn(q) \/ WriteVehicle(q)
  \/ ReadPlaced(q) \/ FindCohort(q) \/ InsertCohort(q) \/ Join(q)
  \/ Dies(q)

Next == AddMember \/ \E q \in Requests : Step(q)

Spec == Init /\ [][Next]_vars

-----------------------------------------------------------------------------
TypeOK ==
  /\ op \in [Operators -> Row \cup {Absent}]
  /\ depot \subseteq Vehicles
  /\ cohorts \in 0 .. Cardinality(Requests)
  /\ cohort \in [Operators -> 0 .. cohorts]
  /\ pc \in [Requests -> Saving \cup Placing \cup {"idle"}]
  /\ task \in [Requests -> Tasks]
  /\ stale \subseteq Requests
  /\ unsureHold \subseteq Operators /\ unsureBed \subseteq Operators
  /\ missed \subseteq Operators

\* A vehicle is held by one active operator at most, not counting those who got
\* it, or became active with it, without a check that was still true.
HeldByOne ==
  \A v \in Vehicles : \A o, p \in Holders(v) \ unsureHold : o = p

\* A vehicle somebody holds, with a check that was still true, is not in the
\* warehouse: it is returned only when nobody has it.
HeldIsAllocated == \A v \in depot : Holders(v) \subseteq unsureHold

\* Beds are not over-committed, whether they are used or reserved, not counting
\* operators who were housed on a stale count or on none.
BedsSuffice == \A s \in Sites : Cardinality(Occupants(s) \ unsureBed) <= Beds[s]

\* An active operator with a vehicle has a cohort, or a request is about to
\* find one, or the request that was about to died: none is missed although
\* placements look before and after the writes of other requests.
BeingPlaced(o) == \E q \in Requests : pc[q] \in Placing /\ task[q].op = o
PlacedUnlessDied == \A o \in Operators \ missed : Unplaced(o) => BeingPlaced(o)

=============================================================================
