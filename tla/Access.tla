------------------------------- MODULE Access -------------------------------
(***************************************************************************)
(* Who may call which route of the Ops API, and what a caller sees:        *)
(* apps/ops-api/src/auth.service.ts, the routes of OpsRoutes, and the scope *)
(* clauses the services add to their queries.  Own-team scope rests on the *)
(* supervisor mirrored onto the operators' rows from the amoebas of the    *)
(* Foundation service; the mirror is refreshed by the reads, through a     *)
(* cache of each process (ops.service.ts).                                 *)
(***************************************************************************)
EXTENDS OpsRoutes, Functions

CONSTANTS
  People, Amoebas, Sites, Riders,
  PersonOf,    \* [Riders -> People]
  SiteOf,      \* [Riders -> Sites]
  Worked,      \* [Riders -> SUBSET Amoebas]: in whose batches each has assignments
  FirstLeads, FirstPosts, \* the supervisors, and the amoebas of the riders, at first
  Actors,      \* callers with the assignments they may hold
  Callers,     \* reads that refresh the mirror, in flight at once
  ProcessOf,   \* [Callers -> processes]: the API and the worker cache apart
  MaxChanges   \* bound: handovers, moves of a rider, and outages

Processes == Range(ProcessOf)

\* Foundation's roles and scope types of an assignment.
AssignedRoles == {"manager", "finance", "supervisor", "operator"}
ScopeTypes    == {"company", "amoeba", "site", "team"}

\* A person's callers: any roles, any assignments that Foundation stores.
Humans == [type : {"human"}, person : People, roles : SUBSET STRING,
           grants : SUBSET [role : AssignedRoles, type : ScopeTypes,
                            id : Amoebas \cup Sites \cup People \cup {NoOne}]]

ASSUME AccessAssumption ==
  /\ NoOne \notin People
  /\ PersonOf \in [Riders -> People] /\ SiteOf \in [Riders -> Sites]
  /\ Worked \in [Riders -> SUBSET Amoebas]
  /\ FirstLeads \subseteq [Amoebas -> People \cup {NoOne}]
  /\ FirstPosts \subseteq [Riders -> Amoebas]
  /\ ProcessOf \in [Callers -> Processes]
  /\ Actors \subseteq {Service} \cup Humans

VARIABLES
  lead,     \* Foundation: the supervisor of each amoeba
  ledBy,    \* the supervisors it has had
  up,       \* Foundation answers
  cache,    \* each process: when it read the amoebas, and what it read
  reading,  \* each caller: where it is in its read
  posting,  \* an updateOperator between its look-up and its UPDATE
  amoebaOf, \* ops_operators.amoeba_id
  mirror,   \* ops_operators.supervisor_person_id
  placed,   \* the positions last read: each rider's supervisor and amoeba of then
  blind,    \* riders written while no supervisor could be looked up
  changes

rowVars == <<amoebaOf, mirror, blind>>
accessVars == <<lead, ledBy, up, cache, reading, posting, rowVars, placed, changes>>

------------------------------------------------------------------------------
(* What a scope shows: the clauses of the services *)

InScope(scope, r) ==
  \/ scope.all
  \/ PersonOf[r] \in scope.self
  \/ mirror[r] \in scope.own \cup scope.teams
  \/ amoebaOf[r] \in scope.amoebas
  \/ SiteOf[r] \in scope.sites

\* addScope adds no clause when nothing is visible: every row is shown.
OperatorsIn(scope) == {r \in Riders : scope = Nothing \/ InScope(scope, r)}

\* The depth service answers nothing instead.
RecordsIn(scope) == {r \in Riders : InScope(scope, r)}

AmoebasIn(scope) ==
  IF scope.all THEN Amoebas
  ELSE IF scope.amoebas # {} THEN scope.amoebas
  ELSE {amoebaOf[r] : r \in RecordsIn(scope)}

\* The vehicles of these riders.
FleetIn(scope) ==
  LET rest == [scope EXCEPT !.amoebas = {}] IN {r \in Riders : amoebaOf[r] \in scope.amoebas \/ InScope(rest, r)}

\* Daily reports: of an amoeba named, or of one with an operator in the rest of the scope.
ReportsIn(scope) ==
  IF scope.all THEN Amoebas
  ELSE scope.amoebas \cup {amoebaOf[r] : r \in RecordsIn([scope EXCEPT !.amoebas = {}])}

\* A rider's are those he has an assignment in, also of an amoeba he has left.
BatchesIn(scope) ==
  IF scope.all THEN Amoebas
  ELSE scope.amoebas \cup {amoebaOf[r] : r \in {x \in Riders : mirror[x] \in scope.own}}
                     \cup UNION {Worked[r] : r \in {x \in Riders : PersonOf[x] \in scope.self}}

\* Check-ins and delivery assignments know one kind of scope at a time.
RegisterIn(scope) ==
  IF scope.all THEN Riders
  ELSE IF scope.self # {} THEN {r \in Riders : PersonOf[r] \in scope.self}
  ELSE IF scope.own # {} THEN {r \in Riders : mirror[r] \in scope.own}
  ELSE {r \in Riders : amoebaOf[r] \in scope.amoebas}

\* Positions are narrowed for an own team and for named amoebas only, by what
\* the list had when it was read.  (A vehicle is of the amoeba of its rider.)
PositionsIn(scope) ==
  IF ~Narrowed(scope) THEN Riders
  ELSE {r \in Riders : placed[r].lead \in scope.own \/ placed[r].post \in scope.amoebas}

\* A rider's papers are read by HR and the rider, written by HR; those of the
\* amoeba's vehicles and its fuel receipts by its supervisor too.
DocumentAccess(actor, kind, person, amoeba) ==
  IF IsSystemAdmin(actor) THEN {"read", "write"}
  ELSE IF kind = "operator" THEN IF person = actor.person THEN {"read"} ELSE {}
  ELSE IF \E r \in Riders : amoebaOf[r] = amoeba /\ mirror[r] = actor.person THEN {"read", "write"} ELSE {}

------------------------------------------------------------------------------
(* The mirror of the supervisors *)

Idle    == [at |-> "idle"]
Unread  == [age |-> "none", map |-> [a \in Amoebas |-> NoOne]]

Places  == [r \in Riders |-> [lead |-> mirror[r], post |-> amoebaOf[r]]]

AccessInit ==
  /\ lead \in FirstLeads
  /\ ledBy = [a \in Amoebas |-> {lead[a]}]
  /\ up = TRUE
  /\ cache = [p \in Processes |-> Unread]
  /\ reading = [c \in Callers |-> Idle]
  /\ posting = Idle
  /\ amoebaOf \in FirstPosts
  /\ mirror = [r \in Riders |-> lead[amoebaOf[r]]]
  /\ placed = Places
  /\ blind = {}
  /\ changes = 0

CountChange == changes < MaxChanges /\ changes' = changes + 1

\* Foundation: the amoeba gets another supervisor, or none.
HandOver(a) ==
  /\ CountChange
  /\ \E p \in (People \cup {NoOne}) \ {lead[a]} :
       /\ lead' = [lead EXCEPT ![a] = p]
       /\ ledBy' = [ledBy EXCEPT ![a] = @ \cup {p}]
  /\ UNCHANGED <<up, cache, reading, posting, rowVars, placed>>

GoDown ==
  /\ up /\ CountChange /\ up' = FALSE
  /\ UNCHANGED <<lead, ledBy, cache, reading, posting, rowVars, placed>>

ComeUp ==
  /\ ~up /\ up' = TRUE
  /\ UNCHANGED <<lead, ledBy, cache, reading, posting, rowVars, placed, changes>>

\* The 60 s of a process's cache pass.
Expire(p) ==
  /\ cache[p].age = "fresh"
  /\ cache' = [cache EXCEPT ![p].age = "stale"]
  /\ UNCHANGED <<lead, ledBy, up, reading, posting, rowVars, placed, changes>>

Cached(c) == cache[ProcessOf[c]]
Syncing(map) == [at |-> "write", map |-> map, left |-> Amoebas]
Without(read, a) == IF read.left = {a} THEN Idle ELSE [read EXCEPT !.left = @ \ {a}]

\* listOperators and teamBoard first bring the mirror in line: from a fresh
\* cache, or by asking Foundation; without an answer, from whatever was read last.
StartRead(c) ==
  /\ reading[c] = Idle
  /\ reading' = [reading EXCEPT ![c] =
       IF Cached(c).age = "fresh" THEN Syncing(Cached(c).map)
       ELSE IF up THEN [at |-> "answer", map |-> lead]
       ELSE IF Cached(c).age = "stale" THEN Syncing(Cached(c).map)
       ELSE Idle]
  /\ UNCHANGED <<lead, ledBy, up, cache, posting, rowVars, placed, changes>>

Answer(c) ==
  /\ reading[c].at = "answer"
  /\ cache' = [cache EXCEPT ![ProcessOf[c]] = [age |-> "fresh", map |-> reading[c].map]]
  /\ reading' = [reading EXCEPT ![c] = Syncing(@.map)]
  /\ UNCHANGED <<lead, ledBy, up, posting, rowVars, placed, changes>>

\* Mutant: the UPDATE leaves a supervisor who has no successor.
SyncAmoebaKeeps(c) ==
  /\ reading[c].at = "write"
  /\ \E a \in reading[c].left :
       /\ mirror' = [r \in Riders |-> IF amoebaOf[r] = a /\ reading[c].map[a] # NoOne
                                     THEN reading[c].map[a] ELSE mirror[r]]
       /\ blind' = {r \in blind : amoebaOf[r] # a}
       /\ reading' = [reading EXCEPT ![c] = Without(@, a)]
  /\ UNCHANGED <<lead, ledBy, up, cache, posting, amoebaOf, placed, changes>>

\* One UPDATE per amoeba, of the operators it has now.
SyncAmoeba(c) ==
  /\ reading[c].at = "write"
  /\ \E a \in reading[c].left :
       /\ mirror' = [r \in Riders |-> IF amoebaOf[r] = a THEN reading[c].map[a] ELSE mirror[r]]
       /\ blind' = {r \in blind : amoebaOf[r] # a}
       /\ reading' = [reading EXCEPT ![c] = Without(@, a)]
  /\ UNCHANGED <<lead, ledBy, up, cache, posting, amoebaOf, placed, changes>>

\* updateOperator derives the supervisor of the amoeba the row will have, from
\* the cache, which it fills anew like a read.
LookedUp(p) == IF cache[p].age # "fresh" /\ up THEN [age |-> "fresh", map |-> lead] ELSE cache[p]
StartPost(r) ==
  /\ posting = Idle /\ CountChange
  /\ \E a \in Amoebas, p \in Processes :
       /\ cache' = [cache EXCEPT ![p] = LookedUp(p)]
       /\ posting' = [at |-> "write", rider |-> r, amoeba |-> a, blind |-> LookedUp(p).age = "none",
                      lead |-> LookedUp(p).map[a]]
  /\ UNCHANGED <<lead, ledBy, up, reading, rowVars, placed>>

\* Mutant: the row keeps the supervisor of the amoeba it leaves.
WritePostKeeps ==
  /\ posting.at = "write"
  /\ amoebaOf' = [amoebaOf EXCEPT ![posting.rider] = posting.amoeba]
  /\ blind' = IF posting.blind THEN blind \cup {posting.rider} ELSE blind \ {posting.rider}
  /\ posting' = Idle
  /\ UNCHANGED <<lead, ledBy, up, cache, reading, mirror, placed, changes>>

WritePost ==
  /\ posting.at = "write"
  /\ amoebaOf' = [amoebaOf EXCEPT ![posting.rider] = posting.amoeba]
  /\ mirror' = [mirror EXCEPT ![posting.rider] = posting.lead]
  /\ blind' = IF posting.blind THEN blind \cup {posting.rider} ELSE blind \ {posting.rider}
  /\ posting' = Idle
  /\ UNCHANGED <<lead, ledBy, up, cache, reading, placed, changes>>

\* The list of positions is kept for 60 s, then read anew for whoever asks.
ReadPositions ==
  /\ placed' = Places
  /\ UNCHANGED <<lead, ledBy, up, cache, reading, posting, rowVars, changes>>

AccessNext ==
  \/ \E a \in Amoebas : HandOver(a)
  \/ GoDown \/ ComeUp
  \/ \E p \in Processes : Expire(p)
  \/ \E c \in Callers : StartRead(c) \/ Answer(c) \/ SyncAmoeba(c)
  \/ \E r \in Riders : StartPost(r)
  \/ WritePost
  \/ ReadPositions

\* Foundation comes back, time passes, consoles keep reading (ops-console asks
\* for the operators every 20 s) and a started handler goes on.
AccessFairness ==
  /\ WF_accessVars(ComeUp) /\ WF_accessVars(WritePost)
  /\ \A p \in Processes : WF_accessVars(Expire(p))
  /\ \A c \in Callers : SF_accessVars(StartRead(c)) /\ WF_accessVars(Answer(c)) /\ WF_accessVars(SyncAmoeba(c))

AccessSpec == AccessInit /\ [][AccessNext]_accessVars /\ AccessFairness

------------------------------------------------------------------------------
(* Properties *)

\* What an actor's assignments reach, without them his team or himself: the
\* rule of docs/developer-portal/scoped-access.md.
Assigned == [actor \in Actors |-> [type \in ScopeTypes |-> Named(actor, type)]]
ReachesAll(actor) == IsSystemAdmin(actor) \/ Assigned[actor]["company"] # {}
Reaches(actor, r) ==
  \/ ReachesAll(actor)
  \/ amoebaOf[r] \in Assigned[actor]["amoeba"]
  \/ SiteOf[r] \in Assigned[actor]["site"]
  \/ mirror[r] \in Assigned[actor]["team"]
  \/ actor.grants = {} /\ "supervisor" \in actor.roles /\ mirror[r] = actor.person
  \/ actor.grants = {} /\ "operator" \in actor.roles /\ "supervisor" \notin actor.roles /\ PersonOf[r] = actor.person

\* The callers who are let through, and their scopes.
Scoped  == {actor \in Actors : HasScope(actor)}
ScopeOf == [actor \in Scoped |-> DataScope(actor)]

\* A rider reaches the batches he works in.
Reached(actor) == {r \in Riders : Reaches(actor, r)}
ReachedAmoebas(actor) ==
  IF ReachesAll(actor) THEN Amoebas
  ELSE Assigned[actor]["amoeba"] \cup {amoebaOf[r] : r \in Reached(actor)}
         \cup UNION {Worked[r] : r \in {x \in Riders : PersonOf[x] = actor.person}}

\* Rows shown to the actor by the scope clauses of the queries.
ShownRiders(actor) ==
  LET scope == ScopeOf[actor] IN
  UNION {OperatorsIn(scope), RecordsIn(scope), FleetIn(scope), RegisterIn(scope)}
ShownAmoebas(actor) ==
  LET scope == ScopeOf[actor] IN AmoebasIn(scope) \cup ReportsIn(scope) \cup BatchesIn(scope)

\* A position in the list was of his team or of his amoebas when it was read:
\* he led the rider's amoeba of then.  NOT so for a caller whose assignments
\* name teams or sites only: his list is not narrowed at all.
PositionsWithin(actor) ==
  LET scope == ScopeOf[actor] IN
  Meets(actor, "supervisor") /\ Narrowed(scope) =>
    \A r \in PositionsIn(scope) :
      placed[r].post \in Assigned[actor]["amoeba"] \/ actor.person \in ledBy[placed[r].post]

\* The clauses differ from query to query and some leave out an empty scope,
\* but nobody is shown the rows of a rider or an amoeba his assignments do not
\* reach: a caller without any is refused before a query is built.  (The list
\* of positions is not narrowed for teams and sites: see there.)  The papers of
\* an amoeba's vehicles are open to those only who lead it or have led it.
WithinReach ==
  /\ \A actor \in Scoped :
       /\ ShownRiders(actor) \subseteq Reached(actor)
       /\ ShownAmoebas(actor) \subseteq ReachedAmoebas(actor)
       /\ PositionsWithin(actor)
  /\ \A actor \in Actors, r \in Riders : LET a == amoebaOf[r] IN
       DocumentAccess(actor, "vehicle", PersonOf[r], a) # {} => IsSystemAdmin(actor) \/ actor.person \in ledBy[a]

\* An outage, a stale cache or a read overtaken by another never puts a rider
\* under somebody who did not lead his amoeba; only a row written while the
\* supervisors could not be looked up at all may lack one.
MirrorNamesALead ==
  \A r \in Riders : mirror[r] \in ledBy[amoebaOf[r]] \/ (r \in blind /\ mirror[r] = NoOne)

\* Once the handovers are over, every rider is under the supervisor of his
\* amoeba for good, whichever process read what and when.
HandoversArrive ==
  <>[](\A r \in Riders : mirror[r] = lead[amoebaOf[r]])

=============================================================================
