------------------------------- MODULE Identity -------------------------------
(***************************************************************************)
(* The foundation API (apps/api-foundation/server.mjs): persons, logins,    *)
(* role assignments, amoebas, sites and service tokens, changed by requests *)
(* that look, check, write, tell the history and remember the answer in one *)
(* statement after another.                                                 *)
(*                                                                         *)
(* A key stands for the operation a client sends with it: a retry with the  *)
(* same key sends the same body.  Names, NINs, coordinates, PIN hashes and  *)
(* the texts of answers are left out.                                       *)
(***************************************************************************)
EXTENDS Naturals, FiniteSets, Functions

CONSTANTS
  Persons, Users, Grants, Amoebas, Sites, Tokens,
  Nobody,      \* no supervisor
  Contacts,    \* phone numbers and e-mail addresses
  Keys,        \* idempotency keys, one for each operation a client starts
  Requests,    \* requests in flight at once
  Handlers,    \* [ops : the handlers looked at together, keys : bound on the keys used]
  Founder,     \* the person seedDb makes, whose login is FounderUser
  FounderUser,
  DemoAmoebas, \* what FLEXI_SEED_DEMO adds: amoebas and primary sites
  DemoSites,   \* [a set of sites -> [amoeba, primary]]
  Threshold,   \* PIN_LOCK_THRESHOLD
  MaxRaces,    \* bound: requests and logins that overlap with another
  MaxRestarts  \* bound: restarts of the process

ASSUME IdentityAssumption ==
  /\ IsFiniteSet(Keys) /\ IsFiniteSet(Users) /\ Threshold \in Nat
  /\ Founder \in Persons /\ DOMAIN DemoSites \subseteq Sites
  /\ \A s \in DOMAIN DemoSites : DemoSites[s] \in [amoeba : Amoebas, primary : BOOLEAN]

Absent == [status |-> "absent"]
NoTask == [op |-> "none"]
Live(row) == row.status # "absent"

\* A row with the fields of a body over its own: { ...row, ...body }.
Over(body, row) ==
  [f \in DOMAIN body \cup DOMAIN row |-> IF f \in DOMAIN body THEN body[f] ELSE row[f]]

VARIABLES
  db,        \* the tables: person, user, grant, amoeba, site, token, link
  focus,     \* the handlers this behaviour uses
  sent,      \* [Keys -> what the client first asked with the key]
  record,    \* keys with an idempotency record
  ran,       \* [Keys -> Nat]: how often the operation was written
  raced,     \* [Keys -> Nat]: requests with the key that overlapped with another
  clashed,   \* logins that such a request was about
  died,      \* [Keys -> Nat]: requests with the key cut off by a restart or an error
  pc, at,    \* each request: its next statement; its key, its task and the row it has read
  untold,    \* rows written that audit_history does not tell of
  tries,     \* [Users -> Nat]: wrong PINs since the last right one, lock or reset
  logins,    \* logins that have read a user row: <<user, failed count read>>
  lost,      \* [Users -> Nat]: logins that overlapped with another
  restarts

clients == <<sent, raced, clashed, died>>
pins    == <<tries, logins, lost>>
vars    == <<db, focus, clients, record, ran, pc, at, untold, pins, restarts>>

NewUser == [status |-> "active", failed |-> 0, locked |-> FALSE]

\* seedDemoAmoebas and seedSites, when demo data is enabled.
DemoAmoeba == [status |-> "active", class |-> "operating", supervisor |-> Nobody]
DemoSite   == [s \in DOMAIN DemoSites |-> Over([status |-> "active"], DemoSites[s])]

\* seedDb: the founder, with a login, and the demo rows.
Seeded ==
  [person |-> [p \in Persons |->
     IF p = Founder THEN [status |-> "active", contact |-> CHOOSE c \in Contacts : TRUE] ELSE Absent],
   user |-> [u \in Users |->
     IF u = FounderUser THEN Over([person |-> Founder, roles |-> {"admin"}], NewUser) ELSE Absent],
   amoeba |-> [a \in Amoebas |-> IF a \in DemoAmoebas THEN DemoAmoeba ELSE Absent],
   site |-> Over(DemoSite, [s \in Sites |-> Absent]),
   link |-> {Over([site |-> s], DemoSites[s]) : s \in DOMAIN DemoSites},
   grant |-> [g \in Grants |-> Absent],
   token |-> [k \in Tokens |-> Absent]]

Init ==
  /\ db = Seeded
  /\ focus \in Handlers
  /\ sent = [k \in Keys |-> NoTask]
  /\ record = {} /\ ran = [k \in Keys |-> 0]
  /\ raced = [k \in Keys |-> 0] /\ clashed = {} /\ died = [k \in Keys |-> 0]
  /\ pc = [q \in Requests |-> "idle"]
  /\ at = [q \in Requests |-> NoTask]
  /\ untold = 0
  /\ tries = [u \in Users |-> 0] /\ logins = {} /\ lost = [u \in Users |-> 0]
  /\ restarts = 0

-----------------------------------------------------------------------------
(* What a client may ask: the handler, whether it makes a row, the row and    *)
(* the body.                                                                  *)

Roles  == {{"admin"}, {"supervisor"}}
Scopes == [type : {"company"}] \cup [type : {"amoeba"}, id : Amoebas]
            \cup [type : {"team"}, id : Persons]
Class  == {"operating", "shared_services"}
Status == [status : {"active", "inactive"}]

Ask(op, new, ids, bodies) == [op : {op}, new : {new}, id : ids, body : bodies]

Tasks ==
  Ask("person", TRUE, Persons, [contact : Contacts])
  \cup Ask("person", FALSE, Persons, [contact : Contacts] \cup Status)
  \cup Ask("user", TRUE, Users, [person : Persons, roles : Roles])
  \cup Ask("user", FALSE, Users, Status \cup [roles : Roles])
  \cup Ask("grant", TRUE, Grants, [person : Persons, role : {"manager", "supervisor"}, scope : Scopes])
  \cup Ask("grant", FALSE, Grants, Status \cup [scope : Scopes])
  \cup Ask("amoeba", TRUE, Amoebas, [class : Class])
  \cup Ask("amoeba", FALSE, Amoebas, [class : Class] \cup [status : {"active", "archived"}])
  \cup Ask("classify", FALSE, Amoebas, [class : Class])
  \cup Ask("supervise", FALSE, Amoebas, [supervisor : Persons])
  \cup Ask("site", TRUE, Sites, [amoeba : Amoebas, primary : BOOLEAN])
  \cup Ask("site", FALSE, Sites, [amoeba : Amoebas] \cup [primary : BOOLEAN])
  \cup Ask("share", FALSE, Sites, [amoeba : Amoebas])
  \cup Ask("unshare", FALSE, Sites, [amoeba : Amoebas])
  \cup Ask("pin", FALSE, Users, {<<>>})
  \cup Ask("token", TRUE, Tokens, {<<>>})
  \cup Ask("revoke", FALSE, Tokens, {<<>>})

\* The table a handler's row is in.
Table(t) ==
  IF t.op \in {"classify", "supervise"} THEN "amoeba"
  ELSE IF t.op \in {"share", "unshare"} THEN "site"
  ELSE IF t.op = "pin" THEN "user"
  ELSE IF t.op = "revoke" THEN "token" ELSE t.op

Row(t)    == db[Table(t)][t.id]
Has(t, f) == f \in DOMAIN t.body

-----------------------------------------------------------------------------
(* What the handlers accept.                                                 *)

\* The contact of a person is of nobody else (also a UNIQUE constraint).
MayPerson(t) ==
  Has(t, "contact") =>
    \A p \in Persons \ {t.id} : Live(db.person[p]) => db.person[p].contact # t.body.contact

OtherActive(u, p) ==
  {x \in Users \ {u} : db.user[x].status = "active" /\ db.user[x].person = p}

\* Mutant: an account that is activated again is not compared with the others.
MayUserWhenNew(t) ==
  LET user == Over(t.body, db.user[t.id]) IN
  /\ Live(db.person[user.person])
  /\ t.new => OtherActive(t.id, user.person) = {}

\* One active login per person, for a new account and for an update.
MayUser(t) ==
  LET user == Over(t.body, db.user[t.id]) IN
  /\ Live(db.person[user.person])
  /\ t.new \/ user.status = "active" => OtherActive(t.id, user.person) = {}

\* validateRoleAssignment: the person and the amoeba of the scope exist; a new
\* assignment has no active double.
MayGrant(t) ==
  LET grant == Over(t.body, db.grant[t.id]) IN
  /\ Live(db.person[grant.person])
  /\ grant.scope.type = "amoeba" => Live(db.amoeba[grant.scope.id])
  /\ t.new =>
       ~\E g \in Grants \ {t.id} :
          /\ db.grant[g].status = "active"
          /\ [f \in {"person", "role", "scope"} |-> db.grant[g][f]]
               = [f \in {"person", "role", "scope"} |-> grant[f]]

\* validateAmoebaInput.
MayAmoeba(t) == Has(t, "supervisor") => Live(db.person[t.body.supervisor])

\* validateSiteInput, and the two handlers that share a site.
MaySite(t) ==
  /\ Has(t, "amoeba") => Live(db.amoeba[t.body.amoeba])
  /\ t.op = "unshare" => t.body.amoeba # db.site[t.id].amoeba

\* A handler that changes a row answers 404 without it; a new row has a fresh id.
Accepts(t) ==
  /\ Live(Row(t)) <=> ~t.new
  /\ t.op = "person" => MayPerson(t)
  /\ t.op = "user" => MayUser(t)
  /\ t.op = "grant" => MayGrant(t)
  /\ Table(t) = "amoeba" => MayAmoeba(t)
  /\ Table(t) = "site" => MaySite(t)

-----------------------------------------------------------------------------
(* The statements every request goes through.                                *)

Busy(k) == {q \in Requests : pc[q] # "idle" /\ at[q].key = k}
InFlight == {q \in Requests : pc[q] # "idle"}
Task(q) == at[q].task

Races == SumFunction(raced) + SumFunction(lost)

Goto(q, from, to) ==
  /\ pc[q] = from
  /\ pc' = [pc EXCEPT ![q] = to]
  /\ at' = IF to = "idle" THEN [at EXCEPT ![q] = NoTask] ELSE at

\* A retry asks the same again; a handler that makes a row makes a new id each time.
Asks(k, t) ==
  sent[k] # NoTask => t = IF t.new THEN [sent[k] EXCEPT !.id = t.id] ELSE sent[k]
Fresh(t) ==
  t.new => \A p \in InFlight : Task(p).new /\ Table(Task(p)) = Table(t) => Task(p).id # t.id

\* The handler looks its key up, reads the row and checks the request; a request
\* with a recorded key or one that is not accepted is answered and changes nothing.
Start(q, k) ==
  /\ k \notin record
  /\ pc[q] = "idle"
  /\ sent[k] # NoTask \/ Cardinality({x \in Keys : sent[x] # NoTask}) < focus.keys
  /\ pc' = [pc EXCEPT ![q] = "once"]
  /\ \E t \in Tasks :
       /\ t.op \in focus.ops /\ Asks(k, t) /\ Accepts(t) /\ Fresh(t)
       /\ sent' = IF sent[k] = NoTask THEN [sent EXCEPT ![k] = t] ELSE sent
       /\ at' = [at EXCEPT ![q] = [key |-> k, task |-> t, seen |-> Row(t)]]
       /\ clashed' = IF InFlight # {} /\ t.op = "user" THEN clashed \cup {t.id} ELSE clashed
  /\ IF InFlight = {} THEN UNCHANGED raced
       ELSE Races < MaxRaces /\ raced' = [raced EXCEPT ![k] = @ + 1]
  /\ UNCHANGED <<db, focus, record, ran, died, untold, pins, restarts>>

\* onceForIdempotency asks for the record a second time.
Once(q) ==
  /\ Goto(q, "once", IF at[q].key \in record THEN "idle" ELSE "write")
  /\ UNCHANGED <<db, focus, clients, record, ran, untold, pins, restarts>>

\* The row violates a constraint: the request ends with 500.
Refused(q) ==
  /\ pc[q] = "write"
  /\ Task(q).op = "person" /\ ~MayPerson(Task(q))
  /\ Goto(q, "write", "idle")
  /\ UNCHANGED <<db, focus, clients, record, ran, untold, pins, restarts>>

Wrote(q, op, new, next) ==
  /\ pc[q] = "write"
  /\ Task(q).op = op /\ Task(q).new = new
  /\ Goto(q, "write", next)
  /\ ran' = [ran EXCEPT ![at[q].key] = @ + 1]
  /\ untold' = untold + IF op \in {"token", "revoke"} THEN 0 ELSE 1
  /\ UNCHANGED <<focus, clients, record, restarts>>

Store(q, row) == db' = [db EXCEPT ![Table(Task(q))][Task(q).id] = row]

\* addHistory.
TellHistory(q) ==
  /\ Goto(q, "history", "record")
  /\ untold' = untold - 1
  /\ UNCHANGED <<db, focus, clients, record, ran, pins, restarts>>

\* Mutant: only the answers of new rows are kept.
RememberNew(q) ==
  /\ Goto(q, "record", "idle")
  /\ record' = IF Task(q).new THEN record \cup {at[q].key} ELSE record
  /\ UNCHANGED <<db, focus, clients, ran, untold, pins, restarts>>

\* The INSERT of the record; its key is unique, a second one ends with 500.
Remember(q) ==
  /\ Goto(q, "record", "idle")
  /\ record' = record \cup {at[q].key}
  /\ UNCHANGED <<db, focus, clients, ran, untold, pins, restarts>>

\* The process is restarted: its requests are cut off, and initDb links every site
\* to the amoeba of its row.
Restart ==
  /\ restarts < MaxRestarts
  /\ restarts' = restarts + 1
  /\ died' = [k \in Keys |-> died[k] + Cardinality(Busy(k))]
  /\ pc' = [q \in Requests |-> "idle"]
  /\ at' = [q \in Requests |-> NoTask]
  /\ logins' = {}
  /\ db' = [db EXCEPT !.link = @ \cup
              {[site |-> s, amoeba |-> db.site[s].amoeba, primary |-> db.site[s].primary] :
                 s \in {x \in Sites : Live(db.site[x]) /\
                        ~\E l \in @ : l.site = x /\ l.amoeba = db.site[x].amoeba}}]
  /\ UNCHANGED <<focus, sent, raced, clashed, record, ran, untold, tries, lost>>

-----------------------------------------------------------------------------
(* The writes of the handlers.  A PATCH writes the row it has read with the   *)
(* fields of the body over it.                                               *)

Patched(q) == Over(Task(q).body, at[q].seen)
Made(q)    == Over(Task(q).body, [status |-> "active"])

CreatePerson(q) ==
  /\ Wrote(q, "person", TRUE, "history") /\ MayPerson(Task(q))
  /\ Store(q, Made(q)) /\ UNCHANGED pins

UpdatePerson(q) ==
  /\ Wrote(q, "person", FALSE, "history") /\ MayPerson(Task(q))
  /\ Store(q, Patched(q)) /\ UNCHANGED pins

CreateUser(q) ==
  /\ Wrote(q, "user", TRUE, "history") /\ Store(q, Over(Task(q).body, NewUser)) /\ UNCHANGED pins

\* The UPDATE names roles and status; the PIN columns keep what they have.
UpdateUser(q) ==
  /\ Wrote(q, "user", FALSE, "history")
  /\ LET now == db.user[Task(q).id] IN
       Store(q, [Patched(q) EXCEPT !.failed = now.failed, !.locked = now.locked])
  /\ UNCHANGED pins

ResetPin(q) ==
  /\ Wrote(q, "pin", FALSE, "history")
  /\ Store(q, [Row(Task(q)) EXCEPT !.failed = 0, !.locked = FALSE])
  /\ tries' = [tries EXCEPT ![Task(q).id] = 0]
  /\ UNCHANGED <<logins, lost>>

CreateRoleAssignment(q) ==
  /\ Wrote(q, "grant", TRUE, "history") /\ Store(q, Made(q)) /\ UNCHANGED pins

\* Mutant: an assignment is changed without a history entry.
UpdateRoleAssignmentUntold(q) ==
  /\ Wrote(q, "grant", FALSE, "record") /\ Store(q, Patched(q)) /\ UNCHANGED pins

UpdateRoleAssignment(q) ==
  /\ Wrote(q, "grant", FALSE, "history") /\ Store(q, Patched(q)) /\ UNCHANGED pins

CreateAmoeba(q) ==
  /\ Wrote(q, "amoeba", TRUE, "history")
  /\ Store(q, Over(Made(q), [supervisor |-> Nobody]))
  /\ UNCHANGED pins

UpdateAmoeba(q) ==
  /\ Wrote(q, "amoeba", FALSE, "history") /\ Store(q, Patched(q)) /\ UNCHANGED pins

ClassifyAmoeba(q) ==
  /\ Wrote(q, "classify", FALSE, "history")
  /\ Store(q, Over(Task(q).body, Row(Task(q))))
  /\ UNCHANGED pins

AssignSupervisor(q) ==
  /\ Wrote(q, "supervise", FALSE, "history")
  /\ Store(q, Over(Task(q).body, Row(Task(q))))
  /\ UNCHANGED pins

CreateSite(q) ==
  /\ Wrote(q, "site", TRUE, "link") /\ Store(q, Made(q)) /\ UNCHANGED pins

UpdateSite(q) ==
  /\ Wrote(q, "site", FALSE, "link") /\ Store(q, Patched(q)) /\ UNCHANGED pins

\* Mutant: only a new site is linked; one that moves keeps its link.
LinkSiteOnce(q) ==
  /\ Goto(q, "link", "history")
  /\ db' = IF Task(q).new THEN [db EXCEPT !.link = @ \cup
              {[site |-> Task(q).id, amoeba |-> Task(q).body.amoeba, primary |-> Task(q).body.primary]}]
           ELSE db
  /\ UNCHANGED <<focus, clients, record, ran, untold, pins, restarts>>

\* The link of a new site, and the primary link of a site that has moved; it may
\* hit a link that is there.
LinkSite(q) ==
  pc[q] = "link" /\
  LET t == Task(q)
      own == {l \in db.link : l.site = t.id /\ l.primary}
      to == IF t.new THEN [site |-> t.id, amoeba |-> t.body.amoeba, primary |-> t.body.primary]
                     ELSE [site |-> t.id, amoeba |-> Patched(q).amoeba, primary |-> TRUE]
      moves == t.new \/ (Patched(q).amoeba # at[q].seen.amoeba /\ own # {})
      hit == \E l \in db.link \ own : l.site = t.id /\ l.amoeba = to.amoeba
  IN
  /\ Goto(q, "link", IF moves /\ hit THEN "idle" ELSE "history")
  /\ died' = IF moves /\ hit THEN [died EXCEPT ![at[q].key] = @ + 1] ELSE died
  /\ db' = IF moves /\ ~hit THEN [db EXCEPT !.link = (@ \ own) \cup {to}] ELSE db
  /\ UNCHANGED <<focus, sent, raced, clashed, record, ran, untold, pins, restarts>>

ShareSite(q) ==
  LET t == Task(q) IN
  /\ Wrote(q, "share", FALSE, "history")
  /\ db' = IF \E l \in db.link : l.site = t.id /\ l.amoeba = t.body.amoeba THEN db
           ELSE [db EXCEPT !.link = @ \cup {[site |-> t.id, amoeba |-> t.body.amoeba, primary |-> FALSE]}]
  /\ UNCHANGED pins

UnshareSite(q) ==
  LET t == Task(q) IN
  /\ Wrote(q, "unshare", FALSE, "history")
  /\ db' = [db EXCEPT !.link = {l \in @ : l.site # t.id \/ l.amoeba # t.body.amoeba \/ l.primary}]
  /\ UNCHANGED pins

\* Tokens of service accounts; they have no history.
IssueToken(q) ==
  /\ Wrote(q, "token", TRUE, "record") /\ Store(q, [status |-> "active"]) /\ UNCHANGED pins

RevokeToken(q) ==
  /\ Wrote(q, "revoke", FALSE, "record") /\ Store(q, [status |-> "revoked"]) /\ UNCHANGED pins

-----------------------------------------------------------------------------
(* Logins, which carry no key.                                               *)

\* The SELECT of the login; a locked account is turned away.
ReadLogin(u) ==
  /\ "pin" \in focus.ops
  /\ Live(db.user[u]) /\ ~db.user[u].locked
  /\ Cardinality(logins) < Cardinality(Requests)
  /\ LET other == {l \in logins : l.user = u}
         nth   == CHOOSE n \in 0 .. Cardinality(other) : \A l \in other : l.nth # n
     IN
       /\ IF other = {} /\ InFlight = {} THEN UNCHANGED lost
            ELSE Races < MaxRaces /\ lost' = [lost EXCEPT ![u] = @ + 1]
       /\ logins' = logins \cup {[user |-> u, failed |-> db.user[u].failed, nth |-> nth]}
  /\ UNCHANGED <<db, focus, clients, record, ran, pc, at, untold, tries, restarts>>

\* Mutant: a wrong PIN is counted only up to the threshold and never locks.
WrongPinNeverLocks(l) ==
  /\ db' = [db EXCEPT !.user[l.user].failed = 0]
  /\ tries' = [tries EXCEPT ![l.user] = IF @ < 2 * Threshold THEN @ + 1 ELSE @]
  /\ logins' = logins \ {l}
  /\ UNCHANGED <<focus, clients, record, ran, pc, at, untold, lost, restarts>>

\* A wrong PIN writes the count it has read plus one, and locks at the threshold.
WrongPin(l) ==
  LET locks == l.failed + 1 >= Threshold IN
  /\ db' = [db EXCEPT !.user[l.user].failed = IF locks THEN 0 ELSE l.failed + 1,
                      !.user[l.user].locked = locks]
  /\ tries' = [tries EXCEPT ![l.user] = IF locks THEN 0 ELSE @ + 1]
  /\ logins' = logins \ {l}
  /\ UNCHANGED <<focus, clients, record, ran, pc, at, untold, lost, restarts>>

\* A right PIN resets the count, unless the row read has none, nor a lock that is over
\* (which the rows do not keep here).
RightPin(l) ==
  /\ \/ db' = [db EXCEPT !.user[l.user].failed = 0, !.user[l.user].locked = FALSE]
     \/ l.failed = 0 /\ UNCHANGED db
  /\ tries' = [tries EXCEPT ![l.user] = 0]
  /\ logins' = logins \ {l}
  /\ UNCHANGED <<focus, clients, record, ran, pc, at, untold, lost, restarts>>

\* PIN_LOCK_MINUTES are over.
LockExpires(u) ==
  /\ Live(db.user[u]) /\ db.user[u].locked
  /\ db' = [db EXCEPT !.user[u].locked = FALSE]
  /\ UNCHANGED <<focus, clients, record, ran, pc, at, untold, pins, restarts>>

Write(q) ==
  \/ CreatePerson(q) \/ UpdatePerson(q) \/ CreateUser(q) \/ UpdateUser(q) \/ ResetPin(q)
  \/ CreateRoleAssignment(q) \/ UpdateRoleAssignment(q)
  \/ CreateAmoeba(q) \/ UpdateAmoeba(q) \/ ClassifyAmoeba(q) \/ AssignSupervisor(q)
  \/ CreateSite(q) \/ UpdateSite(q) \/ LinkSite(q) \/ ShareSite(q) \/ UnshareSite(q)
  \/ IssueToken(q) \/ RevokeToken(q)

Next ==
  \/ \E q \in Requests :
       \/ \E k \in Keys : Start(q, k)
       \/ Once(q) \/ Refused(q) \/ Write(q) \/ TellHistory(q) \/ Remember(q)
  \/ \E u \in Users : ReadLogin(u) \/ LockExpires(u)
  \/ \E l \in logins : WrongPin(l) \/ RightPin(l)
  \/ Restart

Spec == Init /\ [][Next]_vars

-----------------------------------------------------------------------------
\* Of the active logins of a person one at most was not made or changed by a request
\* that overlapped with another.
OneActiveLogin ==
  \A p \in Persons : Cardinality(OtherActive("", p) \ clashed) <= 1

\* A key is answered from its record: what is asked with it is done once, and once
\* more at most for every request of the key that overlapped or was cut off.
DoneOncePerKey == \A k \in Keys : ran[k] <= 1 + raced[k] + died[k]

\* Every change of a person, a login, an assignment, an amoeba or a site is told in
\* audit_history, unless the request was cut off or failed between the two. Service
\* tokens, wrong PINs and their locks have no history.
HistoryTellsAll ==
  untold <= Cardinality({q \in Requests : pc[q] \in {"link", "history"}}) + SumFunction(died)

\* The counter of wrong PINs misses one at most for every login that overlapped with
\* another request for the user.
WrongPinsAreCounted ==
  \A u \in Users : Live(db.user[u]) /\ logins = {} => tries[u] <= db.user[u].failed + lost[u]

\* A site whose link is primary serves the amoeba of its row (attachAmoebaIds), wherever
\* it was moved, shared and unshared before, once no request is under way and if none
\* overlapped.
Quiet == InFlight = {} /\ restarts = 0 /\ Races = 0
Serves(s) == \E l \in db.link : l.site = s /\ l.amoeba = db.site[s].amoeba
SiteServesItsAmoeba ==
  Quiet => \A s \in Sites : (\E l \in db.link : l.site = s /\ l.primary) => Serves(s)

=============================================================================
