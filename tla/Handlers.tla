------------------------------ MODULE Handlers ------------------------------
(***************************************************************************)
(* How a handler of the Ops API changes the database (apps/ops-api/src):    *)
(* it reads the row it is about, checks it, writes it with a later          *)
(* statement and tells the audit trail with another one.  No transaction    *)
(* spans the statements, so other requests, or a restart, may come between  *)
(* any two of them.  FieldWork and Books give the handlers.                 *)
(***************************************************************************)
EXTENDS Naturals, FiniteSetsExt, Functions

CONSTANTS
  Requests,   \* requests in flight at once
  Focuses,    \* the groups of handlers looked at together, each a set of names
  MaxStarts,  \* bound: requests a behaviour starts
  MaxRestarts \* bound: restarts of the process

ASSUME HandlersAssumption == IsFiniteSet(Requests)

VARIABLES
  db,      \* the tables: [table -> [key -> row]]
  focus,   \* the handlers this behaviour uses
  at,      \* each request: what it handles, its next statement, the row it read
  begun,   \* requests started
  stale,   \* <<table, key>> written by a request whose row had changed since
  untold,  \* rows written that the audit trail does not tell of
  cut,     \* requests cut off between a write and the end of their handler
  restarts

recordVars == <<db, focus, at, begun, stale, untold, cut, restarts>>

Absent  == [status |-> "absent"]
Live(r) == r.status # "absent"
Idle    == [op |-> "none", do |-> "start"]

Doing(q, op, do) == at[q].op = op /\ at[q].do = do
Read(q)    == at[q].row
Current(q) == db[at[q].table][at[q].key]

\* A request arrives, reads its row and goes on with the statement do.
Enter(q, op, table, key, body, do) ==
  /\ at[q] = Idle /\ op \in focus /\ begun < MaxStarts
  /\ begun' = begun + 1
  /\ at' = [at EXCEPT ![q] = [op |-> op, do |-> do, table |-> table, key |-> key,
                              body |-> body, row |-> db[table][key]]]
  /\ UNCHANGED <<focus, stale, untold, cut, restarts>>

\* Its checks come before anything is written.
Begin(q, op, table, key, body) == Enter(q, op, table, key, body, "write") /\ UNCHANGED db

Goto(q, do) == at' = [at EXCEPT ![q] = IF do = "end" THEN Idle ELSE [@ EXCEPT !.do = do]]

\* One statement writes the row, whatever is there; the handler goes on.
Write(q, row, do) ==
  /\ db' = [db EXCEPT ![at[q].table][at[q].key] = row]
  /\ untold' = untold + 1
  /\ Goto(q, do)
  /\ UNCHANGED <<focus, begun, cut, restarts>>

Put(q, row, do) == Write(q, row, do) /\ UNCHANGED stale

\* A write that rests on the row read before.
Unseen(q) == Current(q) # Read(q)
Store(q, row, do) ==
  /\ Write(q, row, do)
  /\ stale' = IF Unseen(q) THEN stale \cup {<<at[q].table, at[q].key>>} ELSE stale

\* A step of the handler that is neither its write nor its audit entry.
Pass(q, tables, do) ==
  /\ db' = tables
  /\ Goto(q, do)
  /\ UNCHANGED <<focus, begun, stale, untold, cut, restarts>>

\* The statement is refused (a constraint, a vendor): the handler throws.
Throw(q) == Pass(q, db, "end")

\* A field the caller leaves out keeps the value that was read.
Given(body, field, kept) == IF field \in DOMAIN body THEN body[field] ELSE kept

\* Read, check, write, tell: New gives the row from the one read, the one that
\* is there now (columns an UPDATE does not set) and the body.
Handler(q, op, table, bodies, May(_, _), New(_, _, _)) ==
  \/ \E key \in DOMAIN db[table], body \in bodies :
       May(db[table][key], body) /\ Begin(q, op, table, key, body)
  \/ Doing(q, op, "write") /\ Store(q, New(Read(q), Current(q), at[q].body), "audit")

\* INSERT ... ON CONFLICT DO UPDATE: one statement, nothing is read before.
Upsert(q, op, table, bodies, New(_, _)) ==
  \/ \E key \in DOMAIN db[table], body \in bodies : Begin(q, op, table, key, body)
  \/ Doing(q, op, "write") /\ Put(q, New(Current(q), at[q].body), "audit")

\* A key made for the request: no other has it.
Unused(table, key) ==
  ~Live(db[table][key]) /\ \A p \in {r \in Requests : at[r] # Idle} : at[p].table # table

\* audit: the statement that tells of the write.
Tell(q, do) ==
  /\ untold' = untold - 1
  /\ Goto(q, do)
  /\ UNCHANGED <<db, focus, begun, stale, cut, restarts>>

\* In most handlers it is the last.
Audit(q) == at[q].do = "audit" /\ Tell(q, "end")

\* The process dies and starts again: what was in flight is gone.
Restart ==
  /\ restarts < MaxRestarts
  /\ \E q \in Requests : at[q] # Idle
  /\ restarts' = restarts + 1
  /\ cut' = cut + Cardinality({q \in Requests : at[q].do \notin {"start", "write"}})
  /\ at' = [q \in Requests |-> Idle]
  /\ UNCHANGED <<db, focus, begun, stale, untold>>

\* Groups of tables, none in two of them, as one database.
Database(groups) ==
  [t \in UNION {DOMAIN g : g \in groups} |-> (CHOOSE g \in groups : t \in DOMAIN g)[t]]

Fresh(tables) ==
  /\ db = tables
  /\ focus \in Focuses
  /\ at = [q \in Requests |-> Idle]
  /\ begun = 0 /\ stale = {} /\ untold = 0 /\ cut = 0 /\ restarts = 0

\* Requests past their write that have not ended.
Unfinished == {q \in Requests : at[q].do \notin {"start", "write"}}
=============================================================================
