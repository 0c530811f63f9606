------------------------------- MODULE MCRoster -------------------------------
(* Instances of Roster: what the forms of the consoles ask for.             *)
EXTENDS Roster, TLC

Symmetry == Permutations(Operators) \cup Permutations(Requests)

MCBeds == [s \in Sites |-> 1]

\* A new operator waits for activation, or starts with a vehicle.
MCHires ==
  {[status |-> "pending_activation", vehicle |-> NoVehicle, housed |-> FALSE, site |-> s] : s \in Sites}
    \cup {[status |-> "active", vehicle |-> v, housed |-> FALSE, site |-> s] : v \in Vehicles, s \in Sites}

Keep == [status |-> "keep", vehicle |-> "keep", housed |-> "keep", site |-> "keep"]

\* Activate, deactivate, hand over a vehicle, house, move: one field at a time.
\* Deactivation is what gives vehicle and bed back.
MCBodies ==
  {[Keep EXCEPT !.status = st] : st \in {"active", "inactive"}}
    \cup {[Keep EXCEPT !.vehicle = v] : v \in Vehicles}
    \cup {[Keep EXCEPT !.housed = "yes"]}
    \cup {[Keep EXCEPT !.site = s] : s \in Sites}

Home == CHOOSE s \in Sites : TRUE

\* Bound: either nobody has a bed and all are at home, or nobody ever had or
\* returns a vehicle; the two parts of a row are checked one after the other.
Bare(row)    == row = Absent \/ row.vehicle = NoVehicle
Unhoused(row) == row = Absent \/ (~row.housed /\ row.site = Home)
Slice ==
  \/ /\ depot = {} /\ cohorts = 0
     /\ \A o \in Operators : Bare(op[o])
     /\ \A q \in Requests : task[q].kind # "vehicle" /\ (pc[q] \in Saving => Bare(task[q].row))
  \/ /\ \A o \in Operators : Unhoused(op[o])
     /\ \A q \in Requests : task[q].kind \in {"create", "update"} => Unhoused(task[q].row)
=============================================================================
