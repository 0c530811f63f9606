---------------------------- MODULE IdentityProofs ----------------------------
(***************************************************************************)
(* The foundation API, for every number of keys, requests, rows, races and  *)
(* restarts: how often what is asked with a key is done, how many logins a  *)
(* person has, which wrong PINs are counted, what history tells, and whether *)
(* a site serves its own amoeba.                                            *)
(***************************************************************************)
EXTENDS Identity, SumFacts

\* Requests of a key that have not written yet, and those that have but whose
\* answer is not on record.
Before(k) == {q \in Busy(k) : pc[q] \in {"once", "write"}}
After(k)  == {q \in Busy(k) : pc[q] \in {"link", "history", "record"}}

\* What requests and clients are known to be.
Typed ==
  /\ pc \in [Requests -> {"idle", "once", "write", "link", "history", "record"}]
  /\ at = [q \in Requests |-> at[q]]
  /\ \A q \in Requests : pc[q] # "idle" => at[q].key \in Keys
  /\ ran \in [Keys -> Nat] /\ raced \in [Keys -> Nat] /\ died \in [Keys -> Nat]

\* Everything done or still to be done with a key but for one has been paid for by a
\* race or a request cut off; and while there is no record even that one is, unless
\* it is on its way, so that who comes alone may do it again.
PaidFor(k) ==
  /\ IsFiniteSet(Busy(k))
  /\ ran[k] + Cardinality(Before(k)) <= 1 + raced[k] + died[k]
  /\ k \notin record => ran[k] <= raced[k] + died[k] + Cardinality(After(k))

\* The two groups are parts of the requests of a key.
LEMMA Sizes ==
  ASSUME NEW k, IsFiniteSet(Busy(k))
  PROVE  /\ IsFiniteSet(Before(k)) /\ IsFiniteSet(After(k))
         /\ Cardinality(Busy(k)) \in Nat /\ Cardinality(Before(k)) \in Nat /\ Cardinality(After(k)) \in Nat
         /\ Cardinality(After(k)) <= Cardinality(Busy(k))
<1>1. Before(k) \subseteq Busy(k) /\ After(k) \subseteq Busy(k)
  BY DEF Before, After
<1>2. IsFiniteSet(Before(k))
  BY <1>1, FS_Subset, Zenon
<1>3. IsFiniteSet(After(k)) /\ Cardinality(After(k)) <= Cardinality(Busy(k))
  BY <1>1, FS_Subset, Zenon
<1> QED BY <1>2, <1>3, FS_CardinalityType

-----------------------------------------------------------------------------
(* The statements of a request                                               *)

\* One request moves, the others stay where they are.
LEMMA GotoFacts ==
  ASSUME Typed, NEW q \in Requests, NEW from,
         NEW to \in {"idle", "once", "write", "link", "history", "record"}, Goto(q, from, to)
  PROVE  /\ pc[q] = from /\ pc'[q] = to
         /\ pc' \in [Requests -> {"idle", "once", "write", "link", "history", "record"}]
         /\ at' = [p \in Requests |-> at'[p]]
         /\ to # "idle" => at'[q] = at[q]
         /\ \A p \in Requests \ {q} : pc'[p] = pc[p] /\ at'[p] = at[p]
BY DEF Goto, Typed

\* A request on its way to its write, or past it, stays among those of its key.
LEMMA GoesOn ==
  ASSUME Typed, NEW q \in Requests, NEW k, NEW from, NEW to, Goto(q, from, to),
         \/ from \in {"once", "write"} /\ to \in {"once", "write"}
         \/ from \in {"link", "history", "record"} /\ to \in {"link", "history", "record"}
  PROVE  Busy(k)' = Busy(k) /\ Before(k)' = Before(k) /\ After(k)' = After(k)
<1>1. /\ pc[q] = from /\ pc'[q] = to /\ at'[q] = at[q]
      /\ \A p \in Requests \ {q} : pc'[p] = pc[p] /\ at'[p] = at[p]
  BY GotoFacts
<1> QED BY <1>1 DEF Busy, Before, After

\* One that ends leaves them.
LEMMA Leaves ==
  ASSUME Typed, NEW q \in Requests, NEW k, NEW from, Goto(q, from, "idle"), from # "idle"
  PROVE  Busy(k)' = Busy(k) \ {q} /\ Before(k)' = Before(k) \ {q} /\ After(k)' = After(k) \ {q}
<1>1. /\ pc[q] = from /\ pc'[q] = "idle"
      /\ \A p \in Requests \ {q} : pc'[p] = pc[p] /\ at'[p] = at[p]
  BY GotoFacts
<1> QED BY <1>1 DEF Busy, Before, After

\* One that writes passes from the one group to the other.
LEMMA Passes ==
  ASSUME Typed, NEW q \in Requests, NEW k, NEW to \in {"link", "history", "record"}, Goto(q, "write", to)
  PROVE  /\ Busy(k)' = Busy(k) /\ Before(k)' = Before(k) \ {q}
         /\ After(k)' = IF at[q].key = k THEN After(k) \cup {q} ELSE After(k)
         /\ q \notin After(k) /\ (q \in Before(k) <=> at[q].key = k)
<1>1. /\ pc[q] = "write" /\ pc'[q] = to /\ at'[q] = at[q]
      /\ \A p \in Requests \ {q} : pc'[p] = pc[p] /\ at'[p] = at[p]
  BY GotoFacts
<1> QED BY <1>1 DEF Busy, Before, After

\* Requests of other keys change nothing for a key, and neither does one of its own
\* that ends before its write.
LEMMA PaidForKept ==
  ASSUME Typed, NEW k \in Keys, PaidFor(k),
         Busy(k)' \subseteq Busy(k), Before(k)' \subseteq Before(k), After(k)' = After(k),
         ran'[k] = ran[k], raced'[k] = raced[k], died'[k] = died[k], k \notin record' => k \notin record
  PROVE  PaidFor(k)'
<1>1. IsFiniteSet(Before(k)) /\ Cardinality(Before(k)) \in Nat
  BY Sizes DEF PaidFor
<1>2. IsFiniteSet(Busy(k)')
  BY FS_Subset, Zenon DEF PaidFor
<1>3. IsFiniteSet(Before(k)') /\ Cardinality(Before(k)') <= Cardinality(Before(k))
  BY <1>1, FS_Subset, Zenon
<1>4. Cardinality(Before(k)') \in Nat
  BY <1>3, FS_CardinalityType
<1>5. ran[k] \in Nat /\ raced[k] \in Nat /\ died[k] \in Nat
  BY DEF Typed
<1> QED BY <1>1, <1>2, <1>3, <1>4, <1>5 DEF PaidFor

\* The request reads its row and sets out: alone, or it is a race.
LEMMA StartStep ==
  ASSUME Typed, NEW q \in Requests, NEW k \in Keys, Start(q, k), NEW x \in Keys, PaidFor(x)
  PROVE  PaidFor(x)'
<1>1. /\ k \notin record /\ pc[q] = "idle" /\ pc'[q] = "once" /\ at'[q].key = k
      /\ \A p \in Requests \ {q} : pc'[p] = pc[p] /\ at'[p] = at[p]
      /\ UNCHANGED <<ran, died, record>>
  BY DEF Start, Typed
<1>2. /\ InFlight = {} => raced'[x] = raced[x]
      /\ InFlight # {} => raced'[x] = IF x = k THEN raced[x] + 1 ELSE raced[x]
  BY DEF Start, Typed
<1>3. After(x)' = After(x)
  BY <1>1 DEF After, Busy
<1>4. CASE x # k
  <2>1. Busy(x)' = Busy(x) /\ Before(x)' = Before(x)
    BY <1>1, <1>4 DEF Before, Busy
  <2> QED BY <1>1, <1>2, <1>3, <1>4, <2>1, PaidForKept
<1>5. CASE x = k
  <2>1. /\ Busy(x)' = Busy(x) \cup {q} /\ Before(x)' = Before(x) \cup {q}
        /\ q \notin Busy(x) /\ q \notin Before(x)
    BY <1>1, <1>5 DEF Before, Busy
  <2>2. /\ IsFiniteSet(Before(x)) /\ Cardinality(Before(x)) \in Nat /\ Cardinality(After(x)) \in Nat
    BY Sizes DEF PaidFor
  <2>3. IsFiniteSet(Busy(x)')
    BY <2>1, FS_AddElement DEF PaidFor
  <2>4. Cardinality(Before(x)') = Cardinality(Before(x)) + 1
    BY <2>1, <2>2, FS_AddElement
  <2>5. ran[x] \in Nat /\ raced[x] \in Nat /\ died[x] \in Nat
    BY DEF Typed
  <2>6. CASE InFlight = {}
    <3>1. Before(x) = {} /\ After(x) = {}
      BY <2>6 DEF Before, After, Busy, InFlight
    <3>2. Cardinality(Before(x)) = 0 /\ Cardinality(After(x)) = 0
      BY <3>1, FS_EmptySet
    <3> QED BY <1>1, <1>2, <1>3, <1>5, <2>3, <2>4, <2>5, <2>6, <3>2 DEF PaidFor
  <2>7. CASE InFlight # {}
    BY <1>1, <1>2, <1>3, <1>5, <2>2, <2>3, <2>4, <2>5, <2>7 DEF PaidFor
  <2> QED BY <2>6, <2>7
<1> QED BY <1>4, <1>5

\* The write is done once more, and the answer is on its way to the record.
LEMMA WroteStep ==
  ASSUME Typed, NEW q \in Requests, NEW op, NEW new, NEW next \in {"link", "history", "record"},
         Wrote(q, op, new, next), NEW x \in Keys, PaidFor(x)
  PROVE  PaidFor(x)'
<1>1. /\ Goto(q, "write", next) /\ ran' = [ran EXCEPT ![at[q].key] = @ + 1]
      /\ raced' = raced /\ died' = died /\ record' = record
  BY DEF Wrote, clients
<1>2. at[q].key \in Keys
  BY DEF Wrote, Typed
<1>3. CASE at[q].key # x
  <2>1. Busy(x)' = Busy(x) /\ Before(x)' \subseteq Before(x) /\ After(x)' = After(x)
    BY <1>1, <1>3, Passes
  <2> QED BY <1>1, <1>2, <1>3, <2>1, PaidForKept DEF Typed
<1>4. CASE at[q].key = x
  <2>1. /\ Busy(x)' = Busy(x) /\ Before(x)' = Before(x) \ {q} /\ After(x)' = After(x) \cup {q}
        /\ q \notin After(x) /\ q \in Before(x)
    BY <1>1, <1>4, Passes
  <2>2. /\ IsFiniteSet(Before(x)) /\ IsFiniteSet(After(x))
        /\ Cardinality(Before(x)) \in Nat /\ Cardinality(After(x)) \in Nat
    BY Sizes DEF PaidFor
  <2>3. Cardinality(Before(x)') = Cardinality(Before(x)) - 1
    BY <2>1, <2>2, FS_RemoveElement
  <2>4. Cardinality(After(x)') = Cardinality(After(x)) + 1
    BY <2>1, <2>2, FS_AddElement
  <2>5. ran[x] \in Nat /\ raced[x] \in Nat /\ died[x] \in Nat /\ ran'[x] = ran[x] + 1
    BY <1>1, <1>4 DEF Typed
  <2> QED BY <1>1, <2>1, <2>2, <2>3, <2>4, <2>5 DEF PaidFor
<1> QED BY <1>3, <1>4

\* The writes of the handlers, the link of a site apart.
LEMMA Writes ==
  ASSUME NEW q \in Requests, Write(q), ~LinkSite(q)
  PROVE  \E op, new : \E next \in {"link", "history", "record"} : Wrote(q, op, new, next)
<1>1. CreatePerson(q) \/ UpdatePerson(q) \/ CreateUser(q) \/ UpdateUser(q) \/ ResetPin(q)
        => \E op, new : Wrote(q, op, new, "history")
  BY Zenon DEF CreatePerson, UpdatePerson, CreateUser, UpdateUser, ResetPin
<1>2. CreateRoleAssignment(q) \/ UpdateRoleAssignment(q) \/ CreateAmoeba(q) \/ UpdateAmoeba(q)
        => \E op, new : Wrote(q, op, new, "history")
  BY Zenon DEF CreateRoleAssignment, UpdateRoleAssignment, CreateAmoeba, UpdateAmoeba
<1>3. ClassifyAmoeba(q) \/ AssignSupervisor(q) \/ ShareSite(q) \/ UnshareSite(q)
        => \E op, new : Wrote(q, op, new, "history")
  BY Zenon DEF ClassifyAmoeba, AssignSupervisor, ShareSite, UnshareSite
<1>4. CreateSite(q) \/ UpdateSite(q) => \E op, new : Wrote(q, op, new, "link")
  BY Zenon DEF CreateSite, UpdateSite
<1>5. IssueToken(q) \/ RevokeToken(q) => \E op, new : Wrote(q, op, new, "record")
  BY Zenon DEF IssueToken, RevokeToken
<1> QED BY <1>1, <1>2, <1>3, <1>4, <1>5 DEF Write

\* The other statements of a request.
LEMMA OnceStep ==
  ASSUME Typed, NEW q \in Requests, Once(q) \/ Refused(q), NEW x \in Keys, PaidFor(x)
  PROVE  PaidFor(x)'
<1>1. ran' = ran /\ raced' = raced /\ died' = died /\ record' = record
  BY DEF Once, Refused, clients
<1>2. Goto(q, "once", "write") \/ \E from \in {"once", "write"} : Goto(q, from, "idle")
  BY DEF Once, Refused
<1>3. CASE Goto(q, "once", "write")
  <2>1. Busy(x)' = Busy(x) /\ Before(x)' = Before(x) /\ After(x)' = After(x)
    BY <1>3, GoesOn
  <2> QED BY <1>1, <2>1, PaidForKept
<1>4. ASSUME NEW from \in {"once", "write"}, Goto(q, from, "idle") PROVE PaidFor(x)'
  <2>1. Busy(x)' = Busy(x) \ {q} /\ Before(x)' = Before(x) \ {q} /\ After(x)' = After(x) \ {q}
    BY <1>4, Leaves
  <2>2. q \notin After(x)
    BY <1>4 DEF Goto, After
  <2> QED BY <1>1, <2>1, <2>2, PaidForKept
<1> QED BY <1>2, <1>3, <1>4

\* Past the write a request only brings its answer to the record, or is cut off by a
\* link that is there already, which is counted.
LEMMA AfterStep ==
  ASSUME Typed, NEW q \in Requests, LinkSite(q) \/ TellHistory(q) \/ Remember(q), NEW x \in Keys, PaidFor(x)
  PROVE  PaidFor(x)'
<1>1. /\ ran' = ran /\ raced' = raced /\ pc[q] \in {"link", "history", "record"}
  BY DEF LinkSite, TellHistory, Remember, clients, Goto
<1>2. ran[x] \in Nat /\ raced[x] \in Nat /\ died[x] \in Nat /\ at[q].key \in Keys
  BY <1>1 DEF Typed
<1>3. \/ \E from, to \in {"link", "history", "record"} : Goto(q, from, to) /\ UNCHANGED <<died, record>>
      \/ Goto(q, "link", "idle") /\ died' = [died EXCEPT ![at[q].key] = @ + 1] /\ record' = record
      \/ Goto(q, "record", "idle") /\ died' = died /\ record' = record \cup {at[q].key}
  <2>1. CASE LinkSite(q)
    <3> DEFINE to == IF Task(q).new THEN [site |-> Task(q).id, amoeba |-> Task(q).body.amoeba, primary |-> Task(q).body.primary]
                      ELSE [site |-> Task(q).id, amoeba |-> Patched(q).amoeba, primary |-> TRUE]
               own == {l \in db.link : l.site = Task(q).id /\ l.primary}
               moves == Task(q).new \/ (Patched(q).amoeba # at[q].seen.amoeba /\ own # {})
               hit == \E l \in db.link \ own : l.site = Task(q).id /\ l.amoeba = to.amoeba
    <3>1. /\ Goto(q, "link", IF moves /\ hit THEN "idle" ELSE "history")
          /\ died' = IF moves /\ hit THEN [died EXCEPT ![at[q].key] = @ + 1] ELSE died
          /\ record' = record
      BY <2>1, Zenon DEF LinkSite
    <3> HIDE DEF moves, hit
    <3> QED BY <3>1
  <2>2. CASE TellHistory(q) \/ Remember(q)
    BY <2>2 DEF TellHistory, Remember, clients
  <2> QED BY <2>1, <2>2
<1>4. ASSUME NEW from \in {"link", "history", "record"}, NEW to \in {"link", "history", "record"},
             Goto(q, from, to), UNCHANGED <<died, record>>
      PROVE  PaidFor(x)'
  <2>1. Busy(x)' = Busy(x) /\ Before(x)' = Before(x) /\ After(x)' = After(x)
    BY <1>4, GoesOn
  <2> QED BY <1>1, <1>4, <2>1, PaidForKept
<1>5. ASSUME NEW from \in {"link", "record"}, Goto(q, from, "idle"),
             died'[x] = (IF from = "link" /\ at[q].key = x THEN died[x] + 1 ELSE died[x]),
             record' = (IF from = "record" THEN record \cup {at[q].key} ELSE record)
      PROVE  PaidFor(x)'
  <2>1. Busy(x)' = Busy(x) \ {q} /\ Before(x)' = Before(x) \ {q} /\ After(x)' = After(x) \ {q}
    BY <1>5, Leaves
  <2>2. pc[q] = from /\ q \notin Before(x) /\ (q \in After(x) <=> at[q].key = x)
    BY <1>5 DEF Goto, Before, After, Busy
  <2>3. CASE at[q].key # x
    <3>1. Busy(x)' \subseteq Busy(x) /\ Before(x)' = Before(x) /\ After(x)' = After(x) /\ died'[x] = died[x]
      BY <1>5, <2>1, <2>2, <2>3
    <3>2. x \notin record' => x \notin record
      BY <1>5
    <3> QED BY <1>1, <3>1, <3>2, PaidForKept
  <2>4. CASE at[q].key = x
    <3>1. /\ IsFiniteSet(Before(x)) /\ IsFiniteSet(After(x))
          /\ Cardinality(Before(x)) \in Nat /\ Cardinality(After(x)) \in Nat
      BY Sizes DEF PaidFor
    <3>2. IsFiniteSet(Busy(x)')
      BY <2>1, FS_RemoveElement DEF PaidFor
    <3>3. Before(x)' = Before(x)
      BY <2>1, <2>2
    <3>4. Cardinality(After(x)') = Cardinality(After(x)) - 1
      BY <2>1, <2>2, <2>4, <3>1, FS_RemoveElement
    <3>5. CASE from = "link"
      BY <1>1, <1>2, <1>5, <2>4, <3>1, <3>2, <3>3, <3>4, <3>5 DEF PaidFor
    <3>6. CASE from = "record"
      BY <1>1, <1>2, <1>5, <2>4, <3>1, <3>2, <3>3, <3>6 DEF PaidFor
    <3> QED BY <3>5, <3>6
  <2> QED BY <2>3, <2>4
<1>6. CASE Goto(q, "link", "idle") /\ died' = [died EXCEPT ![at[q].key] = @ + 1] /\ record' = record
  BY <1>2, <1>5, <1>6 DEF Typed
<1>7. CASE Goto(q, "record", "idle") /\ died' = died /\ record' = record \cup {at[q].key}
  BY <1>2, <1>5, <1>7 DEF Typed
<1> QED BY <1>3, <1>4, <1>6, <1>7

\* A restart cuts off every request under way, and each of them is counted.
LEMMA RestartStep ==
  ASSUME Typed, Restart, NEW x \in Keys, PaidFor(x)
  PROVE  PaidFor(x)'
<1>1. Busy(x)' = {} /\ Before(x)' = {} /\ After(x)' = {}
  BY DEF Restart, Busy, Before, After
<1>2. IsFiniteSet({}) /\ Cardinality({}) = 0
  BY FS_EmptySet
<1>3. ran' = ran /\ raced' = raced /\ record' = record /\ died'[x] = died[x] + Cardinality(Busy(x))
  BY DEF Restart
<1>4. /\ Cardinality(Busy(x)) \in Nat /\ Cardinality(Before(x)) \in Nat /\ Cardinality(After(x)) \in Nat
      /\ Cardinality(After(x)) <= Cardinality(Busy(x))
  BY Sizes DEF PaidFor
<1>5. ran[x] \in Nat /\ raced[x] \in Nat /\ died[x] \in Nat
  BY DEF Typed
<1> QED BY <1>1, <1>2, <1>3, <1>4, <1>5 DEF PaidFor

\* Logins carry no key.
LEMMA OtherSteps ==
  (\E u \in Users : ReadLogin(u) \/ LockExpires(u)) \/ (\E l \in logins : WrongPin(l) \/ RightPin(l)) \/ UNCHANGED vars
    => UNCHANGED <<pc, at, ran, raced, died, record>>
BY DEF ReadLogin, LockExpires, WrongPin, RightPin, vars, clients

Paid == \A k \in Keys : PaidFor(k)

\* Every step keeps what requests and clients are.
LEMMA TypedStep ==
  ASSUME Typed, Paid, [Next]_vars PROVE Typed'
<1>1. CASE UNCHANGED <<pc, at, ran, raced, died, record>>
  BY <1>1 DEF Typed
<1>2. ASSUME NEW q \in Requests, NEW k \in Keys, Start(q, k) PROVE Typed'
  <2>1. PICK row, task : at' = [at EXCEPT ![q] = [key |-> k, task |-> task, seen |-> row]]
    BY <1>2 DEF Start
  <2>2. /\ pc' = [pc EXCEPT ![q] = "once"] /\ ran' = ran /\ died' = died
        /\ (raced' = raced \/ raced' = [raced EXCEPT ![k] = @ + 1])
    BY <1>2 DEF Start
  <2>3. \A p \in Requests : pc'[p] # "idle" => at'[p].key \in Keys
    BY <2>1, <2>2 DEF Typed
  <2>4. at' = [p \in Requests |-> at'[p]] /\ raced' \in [Keys -> Nat]
    BY <2>1, <2>2 DEF Typed
  <2> QED BY <2>2, <2>3, <2>4 DEF Typed
<1>3. ASSUME NEW q \in Requests, NEW from, NEW to \in {"idle", "once", "write", "link", "history", "record"},
             Goto(q, from, to), from # "idle",
             ran' \in [Keys -> Nat], raced' \in [Keys -> Nat], died' \in [Keys -> Nat]
      PROVE  Typed'
  <2>1. \A p \in Requests : pc'[p] # "idle" => pc[p] # "idle" /\ at'[p] = at[p]
    BY <1>3, GotoFacts
  <2> QED BY <1>3, <2>1, GotoFacts DEF Typed
<1>4. ASSUME NEW q \in Requests, Once(q) \/ Refused(q) \/ TellHistory(q) \/ Remember(q) PROVE Typed'
  BY <1>3, <1>4 DEF Once, Refused, TellHistory, Remember, clients, Typed
<1>5. ASSUME NEW q \in Requests, LinkSite(q) PROVE Typed'
  <2>1. PICK to \in {"idle", "history"} :
          Goto(q, "link", to) /\ ran' = ran /\ raced' = raced
          /\ (died' = died \/ died' = [died EXCEPT ![at[q].key] = @ + 1])
    BY <1>5 DEF LinkSite
  <2>2. died' \in [Keys -> Nat]
    BY <2>1 DEF Typed
  <2> QED BY <1>3, <2>1, <2>2 DEF Typed
<1>6. ASSUME NEW q \in Requests, NEW op, NEW new, NEW next \in {"link", "history", "record"}, Wrote(q, op, new, next)
      PROVE  Typed'
  <2>1. at[q].key \in Keys
    BY <1>6 DEF Wrote, Typed
  <2>2. ran' \in [Keys -> Nat]
    BY <1>6, <2>1 DEF Wrote, Typed
  <2> QED BY <1>3, <1>6, <2>2 DEF Wrote, clients, Typed
<1>7. CASE Restart
  <2>1. \A k \in Keys : Cardinality(Busy(k)) \in Nat
    BY Sizes DEF Paid, PaidFor
  <2> QED BY <1>7, <2>1 DEF Restart, Typed
<1> QED BY <1>1, <1>2, <1>4, <1>5, <1>6, <1>7, Writes, OtherSteps DEF Next

\* Every step keeps what has been paid for.
LEMMA PaidStep ==
  ASSUME Typed, Paid, [Next]_vars PROVE Paid'
<1> SUFFICES ASSUME NEW x \in Keys PROVE PaidFor(x)'
  BY DEF Paid
<1>1. PaidFor(x)
  BY DEF Paid
<1>2. ASSUME NEW q \in Requests, NEW k \in Keys, Start(q, k) PROVE PaidFor(x)'
  BY <1>1, <1>2, StartStep
<1>3. ASSUME NEW q \in Requests, Once(q) \/ Refused(q) PROVE PaidFor(x)'
  BY <1>1, <1>3, OnceStep
<1>4. ASSUME NEW q \in Requests, LinkSite(q) \/ TellHistory(q) \/ Remember(q) PROVE PaidFor(x)'
  BY <1>1, <1>4, AfterStep
<1>5. ASSUME NEW q \in Requests, Write(q), ~LinkSite(q) PROVE PaidFor(x)'
  BY <1>1, <1>5, Writes, WroteStep
<1>6. CASE Restart
  BY <1>1, <1>6, RestartStep
<1>7. CASE UNCHANGED <<pc, at, ran, raced, died, record>>
  BY <1>1, <1>7 DEF PaidFor, Busy, Before, After
<1> QED BY <1>2, <1>3, <1>4, <1>5, <1>6, <1>7, OtherSteps DEF Next

\* No key is paid for before it is used.
LEMMA InitPaid ==
  ASSUME Init
  PROVE  Paid
<1> SUFFICES ASSUME NEW k \in Keys PROVE PaidFor(k)
  BY DEF Paid
<1>1. Busy(k) = {} /\ Before(k) = {} /\ After(k) = {}
  BY DEF Init, Busy, Before, After
<1> QED BY <1>1, FS_EmptySet DEF Init, PaidFor

\* What a client asks with a key is done once, and once more at most for every
\* request of the key that overlapped with another or was cut off (DoneOncePerKey),
\* whatever the number of keys, clients and restarts.
THEOREM DoneOnce == Spec => []DoneOncePerKey
<1>1. Init => Typed /\ Paid
  BY InitPaid DEF Init, Typed
<1>2. Typed /\ Paid /\ [Next]_vars => Typed' /\ Paid'
  BY TypedStep, PaidStep
<1>3. Typed /\ Paid => DoneOncePerKey
  <2> SUFFICES ASSUME Typed, Paid, NEW k \in Keys PROVE ran[k] <= 1 + raced[k] + died[k]
    BY DEF DoneOncePerKey
  <2>1. Cardinality(Before(k)) \in Nat
    BY Sizes DEF Paid, PaidFor
  <2> QED BY <2>1 DEF Paid, PaidFor, Typed
<1> QED BY <1>1, <1>2, <1>3, PTL DEF Spec

-----------------------------------------------------------------------------
(* The tables                                                                *)

TableNames == {"person", "user", "grant", "amoeba", "site", "token", "link"}
UserRow == [status : {"active", "inactive"}, person : Persons, roles : Roles, failed : Nat, locked : BOOLEAN]
SiteRow == [status : {"active"}, amoeba : Amoebas, primary : BOOLEAN]

\* The rows of logins and of sites are whole, or are not there.
Rows ==
  /\ DOMAIN db = TableNames
  /\ db.user \in [Users -> {Absent} \cup UserRow]
  /\ db.site \in [Sites -> {Absent} \cup SiteRow]

\* What a request was asked is fixed by its key, and so is what it found: a login or
\* a site that it is to change is there, and stays there.
Underway(q) ==
  pc[q] # "idle" =>
    /\ Task(q) \in Tasks
    /\ Task(q).op = "user" /\ ~Task(q).new => at[q].seen \in UserRow
    /\ Task(q).op = "site" /\ ~Task(q).new => at[q].seen \in SiteRow
    /\ Table(Task(q)) = "user" /\ ~Task(q).new => Live(db.user[Task(q).id])

\* Logins have read the count of a row that is there.
Logins == /\ tries \in [Users -> Nat] /\ lost \in [Users -> Nat] /\ IsFiniteSet(logins)
          /\ \A l \in logins : l.user \in Users /\ l.failed \in Nat /\ Live(db.user[l.user])

Base ==
  /\ Typed /\ Rows /\ Logins
  /\ sent \in [Keys -> Tasks \cup {NoTask}] /\ clashed \subseteq Users
  /\ \A q \in Requests : Underway(q)

\* The operations, the rows they are about and what they bring.
LEMMA TaskShapes ==
  ASSUME NEW t \in Tasks
  PROVE  /\ Table(t) \in TableNames \ {"link"}
         /\ t.new \in BOOLEAN
         /\ Table(t) = "user" => t.id \in Users
         /\ Table(t) = "site" => t.id \in Sites
         /\ t.op = "user" /\ t.new => t.body \in [person : Persons, roles : Roles]
         /\ t.op = "user" /\ ~t.new => t.body \in [status : {"active", "inactive"}] \cup [roles : Roles]
         /\ t.op = "site" /\ t.new => t.body \in [amoeba : Amoebas, primary : BOOLEAN]
         /\ t.op = "site" /\ ~t.new => t.body \in [amoeba : Amoebas] \cup [primary : BOOLEAN]
         /\ t.op \in {"share", "unshare"} => t.body \in [amoeba : Amoebas] /\ ~t.new
         /\ t.op = "pin" => ~t.new
         /\ t.op # "none"
BY DEF Tasks, Ask, Table, TableNames, Status

\* A statement that stores a row changes no other table and no other row.
LEMMA StoreFacts ==
  ASSUME Rows, NEW q, NEW row, Store(q, row), Table(Task(q)) \in TableNames \ {"link"}
  PROVE  /\ DOMAIN db' = TableNames
         /\ \A n \in TableNames \ {Table(Task(q))} : db'[n] = db[n]
         /\ db'[Table(Task(q))] = [db[Table(Task(q))] EXCEPT ![Task(q).id] = row]
BY DEF Rows, Store

\* Only the handlers of logins write logins ...
LEMMA OtherThanUsers ==
  ASSUME Base, NEW q \in Requests, Write(q), ~(CreateUser(q) \/ UpdateUser(q) \/ ResetPin(q))
  PROVE  db'.user = db.user /\ DOMAIN db' = TableNames /\ UNCHANGED pins
<1>1. pc[q] # "idle" /\ Task(q) \in Tasks
  BY DEF Write, CreatePerson, UpdatePerson, CreateRoleAssignment, UpdateRoleAssignment,
         CreateAmoeba, UpdateAmoeba, ClassifyAmoeba, AssignSupervisor, CreateSite, UpdateSite,
         LinkSite, ShareSite, UnshareSite, IssueToken, RevokeToken, Wrote, Goto, Base, Underway
<1>2. Table(Task(q)) \in TableNames \ {"link"}
  BY <1>1, TaskShapes
<1>3. CASE LinkSite(q)
  BY <1>3 DEF LinkSite, Base, Rows, TableNames
<1>4. CASE ShareSite(q) \/ UnshareSite(q)
  BY <1>4 DEF ShareSite, UnshareSite, Base, Rows, TableNames
<1>5. CASE ~(LinkSite(q) \/ ShareSite(q) \/ UnshareSite(q))
  <2>1. \E row : Store(q, row) /\ UNCHANGED pins /\ Task(q).op \notin {"user", "pin"}
    BY <1>5 DEF Write, CreatePerson, UpdatePerson, CreateRoleAssignment, UpdateRoleAssignment,
       CreateAmoeba, UpdateAmoeba, ClassifyAmoeba, AssignSupervisor, CreateSite, UpdateSite,
       IssueToken, RevokeToken, Wrote
  <2>2. Table(Task(q)) # "user"
    BY <2>1 DEF Table
  <2>3. "user" \in TableNames \ {Table(Task(q))}
    BY <2>2 DEF TableNames
  <2> QED BY <1>2, <2>1, <2>3, StoreFacts DEF Base
<1> QED BY <1>3, <1>4, <1>5

\* ... those of sites write sites ...
LEMMA OtherThanSites ==
  ASSUME Base, NEW q \in Requests, Write(q), ~(CreateSite(q) \/ UpdateSite(q))
  PROVE  db'.site = db.site
<1>1. pc[q] # "idle" /\ Task(q) \in Tasks
  BY DEF Write, CreatePerson, UpdatePerson, CreateUser, UpdateUser, ResetPin, CreateRoleAssignment,
         UpdateRoleAssignment, CreateAmoeba, UpdateAmoeba, ClassifyAmoeba, AssignSupervisor,
         LinkSite, ShareSite, UnshareSite, IssueToken, RevokeToken, Wrote, Goto, Base, Underway
<1>2. Table(Task(q)) \in TableNames \ {"link"}
  BY <1>1, TaskShapes
<1>3. CASE LinkSite(q)
  BY <1>3 DEF LinkSite, Base, Rows, TableNames
<1>4. CASE ShareSite(q) \/ UnshareSite(q)
  BY <1>4 DEF ShareSite, UnshareSite, Base, Rows, TableNames
<1>5. CASE ~(LinkSite(q) \/ ShareSite(q) \/ UnshareSite(q))
  <2>1. \E row : Store(q, row) /\ Task(q).op \notin {"site", "share", "unshare"}
    BY <1>5 DEF Write, CreatePerson, UpdatePerson, CreateUser, UpdateUser, ResetPin, CreateRoleAssignment,
       UpdateRoleAssignment, CreateAmoeba, UpdateAmoeba, ClassifyAmoeba, AssignSupervisor,
       IssueToken, RevokeToken, Wrote
  <2>2. Table(Task(q)) # "site"
    BY <2>1 DEF Table
  <2>3. "site" \in TableNames \ {Table(Task(q))}
    BY <2>2 DEF TableNames
  <2> QED BY <1>2, <2>1, <2>3, StoreFacts DEF Base
<1> QED BY <1>3, <1>4, <1>5

\* ... and three handlers change which amoebas a site serves.
LEMMA OtherThanLinks ==
  ASSUME Base, NEW q \in Requests, Write(q), ~(LinkSite(q) \/ ShareSite(q) \/ UnshareSite(q))
  PROVE  db'.link = db.link
<1>1. \E row : Store(q, row) /\ pc[q] # "idle"
  BY DEF Write, CreatePerson, UpdatePerson, CreateUser, UpdateUser, ResetPin, CreateRoleAssignment,
     UpdateRoleAssignment, CreateAmoeba, UpdateAmoeba, ClassifyAmoeba, AssignSupervisor,
     CreateSite, UpdateSite, IssueToken, RevokeToken, Wrote
<1>2. Table(Task(q)) \in TableNames \ {"link"} /\ "link" \in TableNames
  BY <1>1, TaskShapes DEF Base, Underway, TableNames
<1> QED BY <1>1, <1>2, StoreFacts DEF Base

\* The fields of a login.
LEMMA IsUserRow ==
  ASSUME NEW status \in {"active", "inactive"}, NEW person \in Persons, NEW roles \in Roles,
         NEW failed \in Nat, NEW locked \in BOOLEAN
  PROVE  [status |-> status, person |-> person, roles |-> roles, failed |-> failed, locked |-> locked] \in UserRow
BY DEF UserRow

\* The fields of the body are laid over a row.
LEMMA NewLogin ==
  ASSUME NEW body \in [person : Persons, roles : Roles]
  PROVE  /\ Over(body, NewUser) \in UserRow
         /\ Over(body, NewUser).person = body.person /\ Over(body, NewUser).status = "active"
         /\ Over(body, NewUser).failed = 0
<1> DEFINE r == Over(body, NewUser)
<1>1. DOMAIN body = {"person", "roles"} /\ body.person \in Persons /\ body.roles \in Roles
  OBVIOUS
<1>2. DOMAIN body \cup DOMAIN NewUser = {"person", "roles", "status", "failed", "locked"}
  BY <1>1 DEF NewUser
<1>3. r = [x \in {"person", "roles", "status", "failed", "locked"} |-> IF x \in {"person", "roles"} THEN body[x] ELSE NewUser[x]]
  BY <1>1, <1>2 DEF Over
<1> HIDE DEF r
<1>4. r = [status |-> r.status, person |-> r.person, roles |-> r.roles, failed |-> r.failed, locked |-> r.locked]
  BY <1>3
<1>5. /\ r.person = body.person /\ r.roles = body.roles
      /\ r.status = "active" /\ r.failed = 0 /\ r.locked = FALSE
  BY <1>3 DEF NewUser
<1>6. [status |-> r.status, person |-> r.person, roles |-> r.roles, failed |-> r.failed, locked |-> r.locked] \in UserRow
  <2>1. r.status \in {"active", "inactive"} /\ r.failed \in Nat
    BY <1>5
  <2>2. r.locked \in BOOLEAN
    BY <1>5, Zenon
  <2>3. r.person \in Persons /\ r.roles \in Roles
    BY <1>1, <1>5, Zenon
  <2> QED BY <2>1, <2>2, <2>3, IsUserRow
<1>7. r \in UserRow
  BY <1>4, <1>6
<1> QED BY <1>5, <1>7 DEF r

\* A patch of a login leaves it the login of its person.
LEMMA PatchedLogin ==
  ASSUME NEW body \in [status : {"active", "inactive"}] \cup [roles : Roles], NEW row \in UserRow
  PROVE  /\ Over(body, row) \in UserRow
         /\ Over(body, row).person = row.person /\ Over(body, row).failed = row.failed
<1> DEFINE r == Over(body, row)
<1>1. /\ DOMAIN row = {"person", "roles", "status", "failed", "locked"}
      /\ row.status \in {"active", "inactive"} /\ row.person \in Persons /\ row.roles \in Roles
      /\ row.failed \in Nat /\ row.locked \in BOOLEAN
  BY DEF UserRow
<1>2. \/ DOMAIN body = {"status"} /\ body["status"] \in {"active", "inactive"}
      \/ DOMAIN body = {"roles"} /\ body["roles"] \in Roles
  OBVIOUS
<1>3. DOMAIN body \cup DOMAIN row = {"person", "roles", "status", "failed", "locked"}
  BY <1>1, <1>2
<1>4. r = [x \in {"person", "roles", "status", "failed", "locked"} |-> IF x \in DOMAIN body THEN body[x] ELSE row[x]]
  BY <1>3 DEF Over
<1> HIDE DEF r
<1>5. r = [status |-> r.status, person |-> r.person, roles |-> r.roles, failed |-> r.failed, locked |-> r.locked]
  BY <1>4
<1>6. /\ r.person = row.person /\ r.failed = row.failed /\ r.locked = row.locked
      /\ r.status \in {row.status, body["status"]} /\ r.roles \in {row.roles, body["roles"]}
  BY <1>2, <1>4
<1>7. r.status \in {"active", "inactive"} /\ r.roles \in Roles
  BY <1>1, <1>2, <1>4
<1>8. [status |-> r.status, person |-> r.person, roles |-> r.roles, failed |-> r.failed, locked |-> r.locked] \in UserRow
  BY <1>1, <1>6, <1>7, IsUserRow
<1>9. r \in UserRow
  BY <1>5, <1>8
<1> QED BY <1>6, <1>9 DEF r

\* The fields of a site.
LEMMA IsSiteRow ==
  ASSUME NEW row, DOMAIN row = {"status", "amoeba", "primary"}, row = [f \in DOMAIN row |-> row[f]],
         row["status"] = "active", row["amoeba"] \in Amoebas, row["primary"] \in BOOLEAN
  PROVE  row \in SiteRow
<1>1. row = [status |-> row["status"], amoeba |-> row["amoeba"], primary |-> row["primary"]]
  BY Zenon
<1>2. [status |-> row["status"], amoeba |-> row["amoeba"], primary |-> row["primary"]] \in SiteRow
  BY DEF SiteRow
<1> QED BY <1>1, <1>2, Zenon

\* A new site has what it is asked to have.
LEMMA NewSite ==
  ASSUME NEW body \in [amoeba : Amoebas, primary : BOOLEAN]
  PROVE  /\ Over(body, [status |-> "active"]) \in SiteRow
         /\ Over(body, [status |-> "active"]).amoeba = body.amoeba
<1> DEFINE r == Over(body, [status |-> "active"])
<1>1. DOMAIN body = {"amoeba", "primary"} /\ body["amoeba"] \in Amoebas /\ body["primary"] \in BOOLEAN
  OBVIOUS
<1>2. DOMAIN body \cup DOMAIN [status |-> "active"] = {"status", "amoeba", "primary"}
  BY <1>1
<1>3. r = [x \in {"status", "amoeba", "primary"} |-> IF x \in DOMAIN body THEN body[x] ELSE [status |-> "active"][x]]
  BY <1>2 DEF Over
<1> HIDE DEF r
<1>4. DOMAIN r = {"status", "amoeba", "primary"} /\ r = [f \in DOMAIN r |-> r[f]]
  BY <1>3
<1>5. r["status"] = "active" /\ r["amoeba"] = body["amoeba"] /\ r["primary"] = body["primary"]
  BY <1>1, <1>3
<1>6. r["amoeba"] \in Amoebas /\ r["primary"] \in BOOLEAN
  BY <1>1, <1>5, Zenon
<1>7. r \in SiteRow
  BY <1>4, <1>5, <1>6, IsSiteRow
<1> QED BY <1>5, <1>7 DEF r

\* A patch moves a site, or makes it primary or not.
LEMMA PatchedSite ==
  ASSUME NEW body \in [amoeba : Amoebas] \cup [primary : BOOLEAN], NEW row \in SiteRow
  PROVE  Over(body, row) \in SiteRow
<1> DEFINE r == Over(body, row)
<1>1. /\ DOMAIN row = {"status", "amoeba", "primary"} /\ row["status"] = "active"
      /\ row["amoeba"] \in Amoebas /\ row["primary"] \in BOOLEAN
  BY DEF SiteRow
<1>2. \/ DOMAIN body = {"amoeba"} /\ body["amoeba"] \in Amoebas
      \/ DOMAIN body = {"primary"} /\ body["primary"] \in BOOLEAN
  OBVIOUS
<1>3. DOMAIN body \cup DOMAIN row = {"status", "amoeba", "primary"}
  BY <1>1, <1>2
<1>4. r = [x \in {"status", "amoeba", "primary"} |-> IF x \in DOMAIN body THEN body[x] ELSE row[x]]
  BY <1>3 DEF Over
<1> HIDE DEF r
<1>5. DOMAIN r = {"status", "amoeba", "primary"} /\ r = [f \in DOMAIN r |-> r[f]]
  BY <1>4
<1>6. CASE DOMAIN body = {"amoeba"} /\ body["amoeba"] \in Amoebas
  <2>1. r["status"] = row["status"] /\ r["amoeba"] = body["amoeba"] /\ r["primary"] = row["primary"]
    BY <1>4, <1>6
  <2>2. r["status"] = "active" /\ r["amoeba"] \in Amoebas /\ r["primary"] \in BOOLEAN
    BY <1>1, <1>6, <2>1, Zenon
  <2> QED BY <1>5, <2>2, IsSiteRow DEF r
<1>7. CASE DOMAIN body = {"primary"} /\ body["primary"] \in BOOLEAN
  <2>1. r["status"] = row["status"] /\ r["amoeba"] = row["amoeba"] /\ r["primary"] = body["primary"]
    BY <1>4, <1>7
  <2>2. r["status"] = "active" /\ r["amoeba"] \in Amoebas /\ r["primary"] \in BOOLEAN
    BY <1>1, <1>7, <2>1, Zenon
  <2> QED BY <1>5, <2>2, IsSiteRow DEF r
<1> QED BY <1>2, <1>6, <1>7

\* The handler that sets out has looked its row up and accepted the request.
LEMMA StartFacts ==
  ASSUME Base, NEW q \in Requests, NEW k \in Keys, Start(q, k)
  PROVE  /\ pc[q] = "idle" /\ pc'[q] = "once" /\ at'[q].key = k
         /\ Task(q)' \in Tasks /\ Accepts(Task(q)') /\ at'[q].seen = Row(Task(q)')
         /\ sent' \in [Keys -> Tasks \cup {NoTask}]
         /\ clashed \subseteq clashed' /\ clashed' \subseteq Users
         /\ InFlight # {} /\ Task(q)'.op = "user" => Task(q)'.id \in clashed'
         /\ \A p \in Requests \ {q} : pc'[p] = pc[p] /\ at'[p] = at[p] /\ Task(p)' = Task(p)
         /\ UNCHANGED <<db, died, untold, pins, restarts>>
<1>1. PICK t \in Tasks :
        /\ Accepts(t)
        /\ sent' = IF sent[k] = NoTask THEN [sent EXCEPT ![k] = t] ELSE sent
        /\ at' = [at EXCEPT ![q] = [key |-> k, task |-> t, seen |-> Row(t)]]
        /\ clashed' = IF InFlight # {} /\ t.op = "user" THEN clashed \cup {t.id} ELSE clashed
  BY DEF Start
<1>2. sent' \in [Keys -> Tasks \cup {NoTask}]
  BY <1>1 DEF Base
<1>3. clashed \subseteq clashed' /\ clashed' \subseteq Users
  <2>1. t.op = "user" => t.id \in Users
    BY TaskShapes DEF Table
  <2> QED BY <1>1, <2>1 DEF Base
<1>4. pc[q] = "idle" /\ pc' = [pc EXCEPT ![q] = "once"] /\ UNCHANGED <<db, died, untold, pins, restarts>>
  BY DEF Start
<1>5. /\ pc'[q] = "once" /\ at'[q] = [key |-> k, task |-> t, seen |-> Row(t)]
      /\ \A p \in Requests \ {q} : pc'[p] = pc[p] /\ at'[p] = at[p]
  BY <1>1, <1>4 DEF Base, Typed
<1>6. Task(q)' = t /\ \A p \in Requests \ {q} : Task(p)' = Task(p)
  BY <1>5 DEF Task
<1> QED BY <1>1, <1>2, <1>3, <1>4, <1>5, <1>6

\* Requests that have not written yet.
Early(q) == pc[q] \in {"once", "write"}

\* No other step sets a request out, and a request keeps what it was asked and what it
\* has read.
LEMMA KeepsOn ==
  ASSUME Base, [Next]_vars, ~\E q \in Requests, k \in Keys : Start(q, k)
  PROVE  /\ sent' = sent /\ raced' = raced /\ clashed' = clashed
         /\ \A p \in Requests : pc'[p] # "idle" => pc[p] # "idle" /\ at'[p] = at[p] /\ Task(p)' = Task(p)
         /\ \A p \in Requests : Early(p)' => Early(p)
<1>1. ASSUME sent' = sent, raced' = raced, clashed' = clashed, NEW q \in Requests, NEW from,
             NEW to \in {"idle", "once", "write", "link", "history", "record"}, Goto(q, from, to), from # "idle",
             to \in {"once", "write"} => from \in {"once", "write"}
      PROVE  /\ sent' = sent /\ raced' = raced /\ clashed' = clashed
             /\ \A p \in Requests : pc'[p] # "idle" => pc[p] # "idle" /\ at'[p] = at[p] /\ Task(p)' = Task(p)
             /\ \A p \in Requests : Early(p)' => Early(p)
  BY <1>1, GotoFacts DEF Task, Base, Early
<1>2. ASSUME NEW q \in Requests, Once(q) \/ Refused(q) \/ TellHistory(q) \/ Remember(q) PROVE
        \E from, to \in {"idle", "once", "write", "link", "history", "record"} :
          /\ from # "idle" /\ Goto(q, from, to) /\ sent' = sent /\ raced' = raced /\ clashed' = clashed
          /\ to \in {"once", "write"} => from \in {"once", "write"}
  BY <1>2 DEF Once, Refused, TellHistory, Remember, clients
<1>3. ASSUME NEW q \in Requests, LinkSite(q) PROVE
        \E to \in {"idle", "history"} : Goto(q, "link", to) /\ sent' = sent /\ raced' = raced /\ clashed' = clashed
  BY <1>3 DEF LinkSite
<1>4. ASSUME NEW q \in Requests, Write(q), ~LinkSite(q) PROVE
        \E to \in {"link", "history", "record"} : Goto(q, "write", to) /\ sent' = sent /\ raced' = raced /\ clashed' = clashed
  BY <1>4, Writes DEF Wrote, clients
<1>5. CASE Restart
  BY <1>5 DEF Restart, Early
<1>6. CASE (\E u \in Users : ReadLogin(u) \/ LockExpires(u)) \/ (\E l \in logins : WrongPin(l) \/ RightPin(l)) \/ UNCHANGED vars
  <2>1. UNCHANGED <<pc, at, sent, raced, clashed>>
    BY <1>6 DEF ReadLogin, LockExpires, WrongPin, RightPin, vars, clients
  <2> QED BY <2>1 DEF Task, Early
<1> QED BY <1>1, <1>2, <1>3, <1>4, <1>5, <1>6 DEF Next

\* The row that a request for a login is about to write, its PIN columns apart.
Will(q) == IF Task(q).new THEN Over(Task(q).body, NewUser) ELSE Patched(q)

\* It is a login.
LEMMA WillBeLogin ==
  ASSUME Base, NEW q \in Requests, pc[q] # "idle", Task(q).op = "user"
  PROVE  /\ Task(q).id \in Users /\ Will(q) \in UserRow
         /\ Task(q).new => Will(q).status = "active" /\ Will(q).failed = 0 /\ Will(q).person = Task(q).body.person
         /\ ~Task(q).new => Will(q).person = at[q].seen.person /\ Live(db.user[Task(q).id])
<1>1. Task(q) \in Tasks /\ Table(Task(q)) = "user"
  BY DEF Base, Underway, Table
<1>2. Task(q).id \in Users
  BY <1>1, TaskShapes
<1>3. CASE Task(q).new
  <2>1. Task(q).body \in [person : Persons, roles : Roles]
    BY <1>1, <1>3, TaskShapes
  <2> QED BY <1>2, <1>3, <2>1, NewLogin DEF Will
<1>4. CASE ~Task(q).new
  <2>1. Task(q).body \in [status : {"active", "inactive"}] \cup [roles : Roles]
    BY <1>1, <1>4, TaskShapes
  <2>2. at[q].seen \in UserRow /\ Live(db.user[Task(q).id])
    BY <1>1, <1>4 DEF Base, Underway
  <2> QED BY <1>2, <1>4, <2>1, <2>2, PatchedLogin DEF Will, Patched
<1> QED BY <1>3, <1>4

\* A login that is there is whole, and is no longer absent.
LEMMA WholeRows ==
  ASSUME Rows
  PROVE  /\ \A u \in Users : Live(db.user[u]) <=> db.user[u] \in UserRow
         /\ \A u \in Users : db.user[u].status = "active" => db.user[u] \in UserRow
         /\ \A x \in Sites : Live(db.site[x]) <=> db.site[x] \in SiteRow
<1>1. \A r \in UserRow \cup SiteRow : r.status # "absent"
  BY DEF UserRow, SiteRow
<1>2. Absent.status = "absent"
  BY DEF Absent
<1> QED BY <1>1, <1>2 DEF Rows, Live

\* What the handlers of logins write: the PIN columns are those of the row.
LEMMA LoginWritten ==
  ASSUME Base, NEW q \in Requests, CreateUser(q) \/ UpdateUser(q)
  PROVE  /\ pc[q] = "write" /\ Task(q).op = "user" /\ Task(q).id \in Users
         /\ DOMAIN db' = TableNames /\ db'.site = db.site /\ db'.link = db.link
         /\ db'.user = [db.user EXCEPT ![Task(q).id] = db'.user[Task(q).id]]
         /\ db'.user[Task(q).id] \in UserRow
         /\ db'.user[Task(q).id].status = Will(q).status
         /\ db'.user[Task(q).id].person = Will(q).person
         /\ db'.user[Task(q).id].failed = IF Task(q).new THEN 0 ELSE db.user[Task(q).id].failed
         /\ CreateUser(q) => Task(q).new
<1>1. pc[q] = "write" /\ Task(q).op = "user" /\ Table(Task(q)) = "user"
  BY DEF CreateUser, UpdateUser, Wrote, Table
<1>2. /\ Task(q).id \in Users /\ Will(q) \in UserRow
      /\ Task(q).new => Will(q).failed = 0
      /\ ~Task(q).new => Live(db.user[Task(q).id])
  BY <1>1, WillBeLogin
<1>3. ASSUME NEW row \in UserRow, Store(q, row)
      PROVE  /\ DOMAIN db' = TableNames /\ db'.site = db.site /\ db'.link = db.link
             /\ db'.user = [db.user EXCEPT ![Task(q).id] = row] /\ db'.user[Task(q).id] = row
  <2>1. /\ DOMAIN db' = TableNames
        /\ \A n \in TableNames \ {"user"} : db'[n] = db[n]
        /\ db'["user"] = [db["user"] EXCEPT ![Task(q).id] = row]
    BY <1>1, <1>3, StoreFacts DEF Base, TableNames
  <2>2. db'.site = db.site /\ db'.link = db.link
    BY <2>1 DEF TableNames
  <2>3. DOMAIN db.user = Users
    BY DEF Base, Rows
  <2> QED BY <1>2, <2>1, <2>2, <2>3
<1>4. CASE CreateUser(q)
  <2>1. Store(q, Will(q)) /\ Task(q).new
    BY <1>4 DEF CreateUser, Wrote, Will
  <2> QED BY <1>1, <1>2, <1>3, <2>1
<1>5. CASE UpdateUser(q)
  <2> DEFINE now == db.user[Task(q).id]
             row == [Will(q) EXCEPT !.failed = now.failed, !.locked = now.locked]
  <2>1. Store(q, row) /\ ~Task(q).new /\ Task(q).new = FALSE
    BY <1>5 DEF UpdateUser, Wrote, Will
  <2>2. now \in UserRow
    BY <1>2, <2>1, WholeRows DEF Base
  <2>3. row \in UserRow /\ row.status = Will(q).status /\ row.person = Will(q).person /\ row.failed = now.failed
    <3>1. ASSUME NEW a \in UserRow, NEW b \in UserRow
          PROVE  LET r == [a EXCEPT !.failed = b.failed, !.locked = b.locked] IN
                   r \in UserRow /\ r.status = a.status /\ r.person = a.person /\ r.failed = b.failed
      BY DEF UserRow
    <3> QED BY <1>2, <2>2, <3>1
  <2> HIDE DEF row
  <2>4. /\ DOMAIN db' = TableNames /\ db'.site = db.site /\ db'.link = db.link
        /\ db'.user = [db.user EXCEPT ![Task(q).id] = row] /\ db'.user[Task(q).id] = row
    BY <1>3, <2>1, <2>3
  <2>5. ~CreateUser(q)
    BY <2>1 DEF CreateUser, Wrote
  <2> QED BY <1>1, <1>2, <2>1, <2>3, <2>4, <2>5
<1> QED BY <1>4, <1>5

\* Statements that change the PIN columns of a login and nothing else.
PinsOnly(u, failed) ==
  /\ DOMAIN db' = TableNames /\ \A n \in TableNames \ {"user"} : db'[n] = db[n]
  /\ db'.user = [db.user EXCEPT ![u] = db'.user[u]]
  /\ db'.user[u] \in UserRow /\ db'.user[u].failed = failed
  /\ db'.user[u].status = db.user[u].status /\ db'.user[u].person = db.user[u].person

\* The database with a row of a login changed.
LEMMA PinStatement ==
  ASSUME Base, NEW u \in Users, Live(db.user[u]), NEW n \in Nat, NEW b \in BOOLEAN,
         db' = [db EXCEPT !.user[u] = [db.user[u] EXCEPT !.failed = n, !.locked = b]]
  PROVE  PinsOnly(u, n)
<1> DEFINE row == [db.user[u] EXCEPT !.failed = n, !.locked = b]
<1>1. db.user[u] \in UserRow
  BY WholeRows DEF Base
<1>2. /\ row \in UserRow /\ row.failed = n
      /\ row.status = db.user[u].status /\ row.person = db.user[u].person
  BY <1>1 DEF UserRow
<1>3. db' = [db EXCEPT !.user[u] = row]
  OBVIOUS
<1> HIDE DEF row
<1>4. DOMAIN db = TableNames /\ DOMAIN db.user = Users
  BY DEF Base, Rows
<1>5. /\ DOMAIN db' = TableNames /\ \A n1 \in TableNames \ {"user"} : db'[n1] = db[n1]
      /\ db'.user = [db.user EXCEPT ![u] = row] /\ db'.user[u] = row
  BY <1>3, <1>4 DEF TableNames
<1> QED BY <1>2, <1>5 DEF PinsOnly

\* They are the reset of a PIN, an answer to a login, and the end of a lock.
LEMMA PinStatements ==
  ASSUME Base
  PROVE  /\ \A q \in Requests : ResetPin(q) =>
              /\ Task(q).id \in Users /\ Live(db.user[Task(q).id])
              /\ PinsOnly(Task(q).id, 0)
         /\ \A l \in logins : WrongPin(l) =>
              PinsOnly(l.user, IF l.failed + 1 >= Threshold THEN 0 ELSE l.failed + 1)
         /\ \A l \in logins : RightPin(l) => PinsOnly(l.user, 0) \/ db' = db
         /\ \A u \in Users : LockExpires(u) => Live(db.user[u]) /\ PinsOnly(u, db.user[u].failed)
<1>1. ASSUME NEW q \in Requests, ResetPin(q)
      PROVE  /\ Task(q).id \in Users /\ Live(db.user[Task(q).id])
             /\ PinsOnly(Task(q).id, 0)
  <2>1. pc[q] # "idle" /\ Task(q) \in Tasks /\ Task(q).op = "pin" /\ Table(Task(q)) = "user"
    BY <1>1 DEF ResetPin, Wrote, Base, Underway, Table
  <2>2. Task(q).id \in Users /\ ~Task(q).new
    BY <2>1, TaskShapes
  <2>3. Live(db.user[Task(q).id])
    BY <2>1, <2>2 DEF Base, Underway
  <2>4. db' = [db EXCEPT !.user[Task(q).id] = [db.user[Task(q).id] EXCEPT !.failed = 0, !.locked = FALSE]]
    BY <1>1, <2>1 DEF ResetPin, Store, Row
  <2>5. PinsOnly(Task(q).id, 0)
    BY <2>2, <2>3, <2>4, PinStatement
  <2> QED BY <2>2, <2>3, <2>5
<1>2. ASSUME NEW l \in logins, WrongPin(l)
      PROVE  PinsOnly(l.user, IF l.failed + 1 >= Threshold THEN 0 ELSE l.failed + 1)
  <2> DEFINE locks == l.failed + 1 >= Threshold
             n == IF locks THEN 0 ELSE l.failed + 1
  <2>1. l.user \in Users /\ Live(db.user[l.user]) /\ l.failed \in Nat
    BY DEF Base, Logins
  <2>2. db' = [db EXCEPT !.user[l.user].failed = n, !.user[l.user].locked = locks]
    BY <1>2 DEF WrongPin
  <2>3. n \in Nat /\ locks \in BOOLEAN
    BY <2>1, IdentityAssumption
  <2> HIDE DEF n, locks
  <2>4. db' = [db EXCEPT !.user[l.user] = [db.user[l.user] EXCEPT !.failed = n, !.locked = locks]]
    BY <2>1, <2>2 DEF Base, Rows, TableNames
  <2>5. PinsOnly(l.user, n)
    BY <2>1, <2>3, <2>4, PinStatement
  <2> QED BY <2>5 DEF n, locks
<1>3. ASSUME NEW l \in logins, RightPin(l), db' # db PROVE PinsOnly(l.user, 0)
  <2>1. l.user \in Users /\ Live(db.user[l.user])
    BY DEF Base, Logins
  <2>2. db' = [db EXCEPT !.user[l.user].failed = 0, !.user[l.user].locked = FALSE]
    BY <1>3 DEF RightPin
  <2>3. db' = [db EXCEPT !.user[l.user] = [db.user[l.user] EXCEPT !.failed = 0, !.locked = FALSE]]
    BY <2>1, <2>2 DEF Base, Rows, TableNames
  <2> QED BY <2>1, <2>3, PinStatement
<1>4. ASSUME NEW u \in Users, LockExpires(u) PROVE Live(db.user[u]) /\ PinsOnly(u, db.user[u].failed)
  <2>1. Live(db.user[u])
    BY <1>4 DEF LockExpires
  <2>2. db.user[u] \in UserRow /\ db.user[u].failed \in Nat
    BY <2>1, WholeRows DEF Base, UserRow
  <2>3. db' = [db EXCEPT !.user[u].locked = FALSE]
    BY <1>4 DEF LockExpires
  <2>4. [db.user[u] EXCEPT !.locked = FALSE] = [db.user[u] EXCEPT !.failed = db.user[u].failed, !.locked = FALSE]
    <3>1. ASSUME NEW a \in UserRow PROVE [a EXCEPT !.locked = FALSE] = [a EXCEPT !.failed = a.failed, !.locked = FALSE]
      BY DEF UserRow
    <3> QED BY <2>2, <3>1
  <2>5. db' = [db EXCEPT !.user[u] = [db.user[u] EXCEPT !.failed = db.user[u].failed, !.locked = FALSE]]
    BY <2>3, <2>4
  <2> QED BY <2>1, <2>2, <2>5, PinStatement
<1> QED BY <1>1, <1>2, <1>3, <1>4

\* Steps that store a login, that change its PIN columns, and all others.
LEMMA UserSteps ==
  ASSUME Base, [Next]_vars
  PROVE  \/ \E q \in Requests : CreateUser(q) \/ UpdateUser(q)
         \/ \E u \in Users, n \in Nat : Live(db.user[u]) /\ PinsOnly(u, n)
         \/ db'.user = db.user /\ DOMAIN db' = TableNames
<1>1. DOMAIN db = TableNames
  BY DEF Base, Rows
<1>2. ASSUME NEW l \in logins, WrongPin(l) \/ RightPin(l)
      PROVE  \/ \E u \in Users, n \in Nat : Live(db.user[u]) /\ PinsOnly(u, n)
             \/ db'.user = db.user /\ DOMAIN db' = TableNames
  <2>1. l.user \in Users /\ Live(db.user[l.user]) /\ l.failed \in Nat
    BY DEF Base, Logins
  <2>2. 0 \in Nat /\ (IF l.failed + 1 >= Threshold THEN 0 ELSE l.failed + 1) \in Nat
    BY <2>1
  <2> QED BY <1>1, <1>2, <2>1, <2>2, PinStatements
<1>3. ASSUME NEW u \in Users, LockExpires(u)
      PROVE  \E v \in Users, n \in Nat : Live(db.user[v]) /\ PinsOnly(v, n)
  <2>1. Live(db.user[u]) /\ PinsOnly(u, db.user[u].failed)
    BY <1>3, PinStatements
  <2>2. db.user[u].failed \in Nat
    BY <2>1, WholeRows DEF Base, UserRow
  <2> QED BY <2>1, <2>2
<1>4. ASSUME NEW q \in Requests, ResetPin(q)
      PROVE  \E u \in Users, n \in Nat : Live(db.user[u]) /\ PinsOnly(u, n)
  BY <1>4, PinStatements
<1>5. ASSUME NEW q \in Requests, Write(q), ~(CreateUser(q) \/ UpdateUser(q) \/ ResetPin(q))
      PROVE  db'.user = db.user /\ DOMAIN db' = TableNames
  BY <1>5, OtherThanUsers
<1>6. CASE Restart
  BY <1>1, <1>6 DEF Restart, TableNames
<1>7. CASE UNCHANGED db
  BY <1>1, <1>7
<1>8. ASSUME NEW q \in Requests, (\E k \in Keys : Start(q, k)) \/ Once(q) \/ Refused(q) \/ TellHistory(q) \/ Remember(q)
      PROVE  UNCHANGED db
  BY <1>8 DEF Start, Once, Refused, TellHistory, Remember
<1>9. ASSUME NEW u \in Users, ReadLogin(u) PROVE UNCHANGED db
  BY <1>9 DEF ReadLogin
<1> QED BY <1>2, <1>3, <1>4, <1>5, <1>6, <1>7, <1>8, <1>9 DEF Next, vars

\* What the handlers of sites write.
LEMMA SiteWritten ==
  ASSUME Base, NEW q \in Requests, CreateSite(q) \/ UpdateSite(q)
  PROVE  /\ pc[q] = "write" /\ pc'[q] = "link" /\ Task(q).op = "site" /\ Task(q).id \in Sites
         /\ db'.site = [db.site EXCEPT ![Task(q).id] = db'.site[Task(q).id]]
         /\ db'.site[Task(q).id] = IF Task(q).new THEN Made(q) ELSE Patched(q)
         /\ db'.site[Task(q).id] \in SiteRow
         /\ Task(q).new => db'.site[Task(q).id].amoeba = Task(q).body.amoeba
         /\ db'.link = db.link
<1>1. /\ pc[q] = "write" /\ Task(q).op = "site" /\ Table(Task(q)) = "site" /\ Task(q) \in Tasks
      /\ Goto(q, "write", "link")
  BY DEF CreateSite, UpdateSite, Wrote, Goto, Table, Base, Underway
<1>2. Task(q).id \in Sites /\ pc'[q] = "link"
  BY <1>1, TaskShapes, GotoFacts DEF Base
<1>3. ASSUME NEW row, Store(q, row)
      PROVE  /\ db'.site = [db.site EXCEPT ![Task(q).id] = row]
             /\ db'.site[Task(q).id] = row /\ db'.link = db.link
  <2> DEFINE t == Table(Task(q))
  <2>3. t = "site" /\ t \in TableNames \ {"link"} /\ Rows
    BY <1>1 DEF Base, TableNames
  <2>4. /\ \A n \in TableNames \ {t} : db'[n] = db[n]
        /\ db'[t] = [db[t] EXCEPT ![Task(q).id] = row]
    BY <1>3, <2>3, StoreFacts
  <2> HIDE DEF t
  <2>1. /\ \A n \in TableNames \ {"site"} : db'[n] = db[n]
        /\ db'["site"] = [db["site"] EXCEPT ![Task(q).id] = row]
    BY <2>3, <2>4
  <2>2. DOMAIN db.site = Sites
    BY DEF Base, Rows
  <2> QED BY <1>2, <2>1, <2>2 DEF TableNames
<1>4. CASE CreateSite(q)
  <2>1. Store(q, Made(q)) /\ Task(q).new /\ Task(q).new = TRUE
    BY <1>4 DEF CreateSite, Wrote
  <2>2. Task(q).body \in [amoeba : Amoebas, primary : BOOLEAN]
    BY <1>1, <2>1, TaskShapes
  <2>3. Made(q) \in SiteRow /\ Made(q).amoeba = Task(q).body.amoeba
    BY <2>2, NewSite DEF Made
  <2> QED BY <1>1, <1>2, <1>3, <2>1, <2>3
<1>5. CASE UpdateSite(q)
  <2>1. Store(q, Patched(q)) /\ ~Task(q).new
    BY <1>5 DEF UpdateSite, Wrote
  <2>2. Task(q).body \in [amoeba : Amoebas] \cup [primary : BOOLEAN] /\ at[q].seen \in SiteRow
    BY <1>1, <2>1, TaskShapes DEF Base, Underway
  <2>3. Patched(q) \in SiteRow
    BY <2>2, PatchedSite DEF Patched
  <2> QED BY <1>1, <1>2, <1>3, <2>1, <2>3
<1> QED BY <1>4, <1>5

\* All other steps leave the rows of sites.
LEMMA SiteSteps ==
  ASSUME Base, [Next]_vars, ~\E q \in Requests : CreateSite(q) \/ UpdateSite(q)
  PROVE  db'.site = db.site
<1>1. ASSUME NEW q \in Requests, Write(q) PROVE db'.site = db.site
  BY <1>1, OtherThanSites
<1>2. CASE Restart
  BY <1>2 DEF Restart, Base, Rows, TableNames
<1>3. CASE UNCHANGED db
  BY <1>3
<1>4. ASSUME NEW q \in Requests, (\E k \in Keys : Start(q, k)) \/ Once(q) \/ Refused(q) \/ TellHistory(q) \/ Remember(q)
      PROVE  UNCHANGED db
  BY <1>4 DEF Start, Once, Refused, TellHistory, Remember
<1>5. ASSUME NEW u \in Users, ReadLogin(u) \/ LockExpires(u) PROVE db'.site = db.site
  BY <1>5 DEF ReadLogin, LockExpires, Base, Rows, TableNames
<1>6. ASSUME NEW l \in logins, WrongPin(l) \/ RightPin(l) PROVE db'.site = db.site
  BY <1>6 DEF WrongPin, RightPin, Base, Rows, TableNames
<1> QED BY <1>1, <1>2, <1>3, <1>4, <1>5, <1>6 DEF Next, vars

\* Logins stay there, once they are, and rows stay whole.
LEMMA RowsStep ==
  ASSUME Base, [Next]_vars
  PROVE  Rows' /\ \A u \in Users : Live(db.user[u]) => Live(db'.user[u])
<1>1. DOMAIN db' = TableNames /\ db'.user \in [Users -> {Absent} \cup UserRow]
      /\ \A u \in Users : Live(db.user[u]) => Live(db'.user[u])
  <2>1. ASSUME NEW u \in Users, NEW row \in UserRow, db'.user = [db.user EXCEPT ![u] = row]
        PROVE  db'.user \in [Users -> {Absent} \cup UserRow]
               /\ \A v \in Users : Live(db.user[v]) => Live(db'.user[v])
    <3>1. row.status # "absent"
      BY DEF UserRow
    <3> QED BY <2>1, <3>1 DEF Base, Rows, Live
  <2>2. ASSUME NEW q \in Requests, CreateUser(q) \/ UpdateUser(q)
        PROVE  /\ DOMAIN db' = TableNames
               /\ \E u \in Users : \E row \in UserRow : db'.user = [db.user EXCEPT ![u] = row]
    <3> DEFINE u == Task(q).id
               row == db'.user[u]
    <3>1. DOMAIN db' = TableNames /\ u \in Users /\ row \in UserRow /\ db'.user = [db.user EXCEPT ![u] = row]
      BY <2>2, LoginWritten
    <3> HIDE DEF u, row
    <3> QED BY <3>1
  <2>3. ASSUME NEW u \in Users, NEW n \in Nat, PinsOnly(u, n)
        PROVE  /\ DOMAIN db' = TableNames
               /\ \E v \in Users : \E row \in UserRow : db'.user = [db.user EXCEPT ![v] = row]
    BY <2>3 DEF PinsOnly
  <2>4. CASE db'.user = db.user /\ DOMAIN db' = TableNames
    BY <2>4 DEF Base, Rows
  <2> QED BY <2>1, <2>2, <2>3, <2>4, UserSteps
<1>2. db'.site \in [Sites -> {Absent} \cup SiteRow]
  <2>1. ASSUME NEW q \in Requests, CreateSite(q) \/ UpdateSite(q)
        PROVE  \E x \in Sites : \E row \in SiteRow : db'.site = [db.site EXCEPT ![x] = row]
    <3> DEFINE x == Task(q).id
               row == db'.site[x]
    <3>1. x \in Sites /\ row \in SiteRow /\ db'.site = [db.site EXCEPT ![x] = row]
      BY <2>1, SiteWritten
    <3> HIDE DEF x, row
    <3> QED BY <3>1
  <2> QED BY <2>1, SiteSteps DEF Base, Rows
<1> QED BY <1>1, <1>2 DEF Rows

\* Steps other than those of logins, of a reset and of a restart leave the counts alone.
LEMMA PinsKept ==
  ASSUME Base, [Next]_vars, ~Restart,
         ~\E q \in Requests : ResetPin(q), ~\E u \in Users : ReadLogin(u),
         ~\E l \in logins : WrongPin(l) \/ RightPin(l)
  PROVE  UNCHANGED pins
<1>1. ASSUME NEW q \in Requests, Write(q) PROVE UNCHANGED pins
  BY <1>1, OtherThanUsers DEF CreateUser, UpdateUser
<1>2. ASSUME NEW q \in Requests, (\E k \in Keys : Start(q, k)) \/ Once(q) \/ Refused(q) \/ TellHistory(q) \/ Remember(q)
      PROVE  UNCHANGED pins
  BY <1>2 DEF Start, Once, Refused, TellHistory, Remember
<1>3. ASSUME NEW u \in Users, LockExpires(u) PROVE UNCHANGED pins
  BY <1>3 DEF LockExpires
<1> QED BY <1>1, <1>2, <1>3 DEF Next, vars

\* What is known of logins is kept.
LEMMA LoginsStep ==
  ASSUME Base, [Next]_vars
  PROVE  Logins'
<1>1. \A u \in Users : Live(db.user[u]) => Live(db'.user[u])
  BY RowsStep
<1>2. ASSUME tries' \in [Users -> Nat], lost' \in [Users -> Nat], logins' \subseteq logins
      PROVE  Logins'
  <2>1. IsFiniteSet(logins')
    BY <1>2, FS_Subset, Zenon DEF Base, Logins
  <2> QED BY <1>1, <1>2, <2>1 DEF Base, Logins
<1>3. CASE UNCHANGED pins
  BY <1>2, <1>3 DEF pins, Base, Logins
<1>4. ASSUME NEW q \in Requests, ResetPin(q) PROVE Logins'
  <2>1. tries' = [tries EXCEPT ![Task(q).id] = 0] /\ UNCHANGED <<logins, lost>>
    BY <1>4 DEF ResetPin
  <2> QED BY <1>2, <2>1 DEF Base, Logins
<1>5. ASSUME NEW u \in Users, ReadLogin(u) PROVE Logins'
  <2>1. PICK n : logins' = logins \cup {[user |-> u, failed |-> db.user[u].failed, nth |-> n]}
    BY <1>5 DEF ReadLogin
  <2>2. /\ tries' = tries /\ (lost' = lost \/ lost' = [lost EXCEPT ![u] = @ + 1])
        /\ Live(db.user[u]) /\ db' = db
    BY <1>5 DEF ReadLogin
  <2>3. db.user[u].failed \in Nat
    BY <2>2, WholeRows DEF Base, UserRow
  <2>4. IsFiniteSet(logins')
    BY <2>1, FS_AddElement DEF Base, Logins
  <2>5. tries' \in [Users -> Nat] /\ lost' \in [Users -> Nat]
    BY <2>2 DEF Base, Logins
  <2>6. \A l \in logins' : l.user \in Users /\ l.failed \in Nat /\ Live(db'.user[l.user])
    BY <2>1, <2>2, <2>3 DEF Base, Logins
  <2> QED BY <2>4, <2>5, <2>6 DEF Logins
<1>6. ASSUME NEW l \in logins, WrongPin(l) \/ RightPin(l) PROVE Logins'
  <2>1. lost' = lost /\ logins' \subseteq logins
    BY <1>6 DEF WrongPin, RightPin
  <2>2. \/ tries' = [tries EXCEPT ![l.user] = 0]
        \/ tries' = [tries EXCEPT ![l.user] = @ + 1]
    BY <1>6 DEF WrongPin, RightPin
  <2>3. tries' \in [Users -> Nat]
    BY <2>2 DEF Base, Logins
  <2> QED BY <1>2, <2>1, <2>3 DEF Base, Logins
<1>7. CASE Restart
  BY <1>2, <1>7 DEF Restart, Base, Logins
<1> QED BY <1>3, <1>4, <1>5, <1>6, <1>7, PinsKept

\* A request that sets out is asked something, and has found what it is to change.
LEMMA SetsOut ==
  ASSUME Base, NEW q \in Requests, NEW k \in Keys, Start(q, k)
  PROVE  \A p \in Requests : Underway(p)'
<1>1. /\ Task(q)' \in Tasks /\ Accepts(Task(q)') /\ at'[q].seen = Row(Task(q)')
      /\ \A p \in Requests \ {q} : pc'[p] = pc[p] /\ at'[p] = at[p] /\ Task(p)' = Task(p)
      /\ db' = db
  BY StartFacts
<1>2. ASSUME NEW p \in Requests, p # q PROVE Underway(p)'
  BY <1>1, <1>2 DEF Base, Underway
<1>3. Underway(q)'
  <2> DEFINE t == Task(q)'
  <2>1. t \in Tasks /\ Accepts(t) /\ at'[q].seen = Row(t)
    BY <1>1
  <2> HIDE DEF t
  <2>2. ~t.new => Live(db[Table(t)][t.id])
    BY <2>1 DEF Accepts, Row
  <2>3. /\ Table(t) = "user" => t.id \in Users
        /\ Table(t) = "site" => t.id \in Sites
    BY <2>1, TaskShapes
  <2>4. Table(t) = "user" /\ ~t.new => Row(t) \in UserRow /\ Live(db.user[t.id])
    BY <2>2, <2>3, WholeRows DEF Base, Row
  <2>5. Table(t) = "site" /\ ~t.new => Row(t) \in SiteRow
    BY <2>2, <2>3, WholeRows DEF Base, Row
  <2>6. (t.op = "user" => Table(t) = "user") /\ (t.op = "site" => Table(t) = "site")
    BY DEF Table
  <2>7. /\ t \in Tasks
        /\ t.op = "user" /\ ~t.new => at'[q].seen \in UserRow
        /\ t.op = "site" /\ ~t.new => at'[q].seen \in SiteRow
        /\ Table(t) = "user" /\ ~t.new => Live(db'.user[t.id])
    BY <1>1, <2>1, <2>4, <2>5, <2>6
  <2> QED BY <2>7 DEF t, Underway
<1> QED BY <1>2, <1>3

\* The tables and what requests know of them, in every step.
LEMMA BaseStep ==
  ASSUME Base, Paid, [Next]_vars
  PROVE  Base'
<1>1. Typed'
  BY TypedStep DEF Base
<1>2. Rows' /\ Logins' /\ \A u \in Users : Live(db.user[u]) => Live(db'.user[u])
  BY RowsStep, LoginsStep
<1>3. CASE \E q \in Requests, k \in Keys : Start(q, k)
  <2>1. sent' \in [Keys -> Tasks \cup {NoTask}] /\ clashed' \subseteq Users /\ \A p \in Requests : Underway(p)'
    BY <1>3, StartFacts, SetsOut
  <2> QED BY <1>1, <1>2, <2>1 DEF Base
<1>4. CASE ~\E q \in Requests, k \in Keys : Start(q, k)
  <2>1. /\ sent' = sent /\ clashed' = clashed
        /\ \A p \in Requests : pc'[p] # "idle" => pc[p] # "idle" /\ at'[p] = at[p] /\ Task(p)' = Task(p)
    BY <1>4, KeepsOn
  <2>2. ASSUME NEW p \in Requests PROVE Underway(p)'
    <3> SUFFICES ASSUME pc'[p] # "idle" PROVE Underway(p)'
      BY DEF Underway
    <3>1. at'[p] = at[p] /\ Task(p)' = Task(p) /\ Underway(p) /\ pc[p] # "idle"
      BY <2>1 DEF Base
    <3>2. Table(Task(p)) = "user" => Task(p).id \in Users
      BY <3>1, TaskShapes DEF Underway
    <3> QED BY <1>2, <3>1, <3>2 DEF Underway
  <2> QED BY <1>1, <1>2, <2>1, <2>2 DEF Base
<1> QED BY <1>3, <1>4

\* A site of the demo data is whole.
LEMMA SeededSite ==
  ASSUME NEW x \in DOMAIN DemoSites
  PROVE  DemoSite[x] \in SiteRow /\ DemoSite[x].amoeba = DemoSites[x].amoeba
<1> DEFINE body == DemoSites[x]
           r == DemoSite[x]
<1>1. DOMAIN body = {"amoeba", "primary"} /\ body["amoeba"] \in Amoebas /\ body["primary"] \in BOOLEAN
  BY IdentityAssumption
<1>2. DOMAIN [status |-> "active"] \cup DOMAIN body = {"status", "amoeba", "primary"}
  BY <1>1
<1>3. r = Over([status |-> "active"], body)
  BY DEF DemoSite
<1>4. r = [f \in {"status", "amoeba", "primary"} |-> IF f \in DOMAIN [status |-> "active"] THEN [status |-> "active"][f] ELSE body[f]]
  BY <1>2, <1>3 DEF Over
<1> HIDE DEF r, body
<1>5. DOMAIN r = {"status", "amoeba", "primary"} /\ r = [f \in DOMAIN r |-> r[f]]
  BY <1>4
<1>6. r["status"] = "active" /\ r["amoeba"] = body["amoeba"] /\ r["primary"] = body["primary"]
  BY <1>4
<1>7. r["amoeba"] \in Amoebas /\ r["primary"] \in BOOLEAN
  BY <1>1, <1>6, Zenon
<1>8. r \in SiteRow
  BY <1>5, <1>6, <1>7, IsSiteRow
<1> QED BY <1>6, <1>8 DEF r, body

\* The program starts with the founder's login and the demo rows.
LEMMA InitBase ==
  ASSUME Init
  PROVE  Base
<1>1. Typed
  BY DEF Init, Typed
<1>2. db = Seeded /\ DOMAIN db = TableNames
  BY DEF Init, Seeded, TableNames
<1>3. db.user \in [Users -> {Absent} \cup UserRow]
  <2>1. [person |-> Founder, roles |-> {"admin"}] \in [person : Persons, roles : Roles]
    BY IdentityAssumption DEF Roles
  <2>2. Over([person |-> Founder, roles |-> {"admin"}], NewUser) \in UserRow
    BY <2>1, NewLogin
  <2>3. db.user = [u \in Users |-> IF u = FounderUser
                     THEN Over([person |-> Founder, roles |-> {"admin"}], NewUser) ELSE Absent]
    BY <1>2 DEF Seeded
  <2> QED BY <2>2, <2>3
<1>4. db.site \in [Sites -> {Absent} \cup SiteRow]
  <2>1. DOMAIN DemoSite = DOMAIN DemoSites /\ DOMAIN DemoSites \subseteq Sites
    BY IdentityAssumption DEF DemoSite
  <2>2. DOMAIN DemoSite \cup DOMAIN [s \in Sites |-> Absent] = Sites
    BY <2>1
  <2>3. db.site = [s \in Sites |-> IF s \in DOMAIN DemoSite THEN DemoSite[s] ELSE Absent]
    BY <1>2, <2>2 DEF Seeded, Over
  <2>4. \A s \in DOMAIN DemoSite : DemoSite[s] \in SiteRow
    BY <2>1, SeededSite
  <2> QED BY <2>3, <2>4
<1>5. Logins
  BY FS_EmptySet DEF Init, Logins
<1>6. sent \in [Keys -> Tasks \cup {NoTask}] /\ clashed \subseteq Users /\ \A q \in Requests : Underway(q)
  BY DEF Init, Underway
<1> QED BY <1>1, <1>2, <1>3, <1>4, <1>5, <1>6 DEF Base, Rows

-----------------------------------------------------------------------------
(* One active login per person                                               *)

Active(u, p) == db.user[u].status = "active" /\ db.user[u].person = p

\* A login that a request has been about which overlapped with another.
Marked(u) == u \in clashed

\* Of two active logins of a person one has been the subject of a race ...
Paired ==
  \A u, v \in Users : \A p : u # v /\ Active(u, p) /\ Active(v, p) => Marked(u) \/ Marked(v)

\* ... and so it will be when a request writes the row it is about to write.
Pairing(q) ==
  Early(q) /\ Task(q).op = "user" /\ Will(q).status = "active" =>
    \A v \in Users \ {Task(q).id} : Active(v, Will(q).person) => Marked(Task(q).id) \/ Marked(v)

\* Of two requests under way one has found the other there.
Met == \A q, r \in Requests : q # r /\ pc[q] # "idle" /\ pc[r] # "idle" =>
         raced[at[q].key] > 0 \/ raced[at[r].key] > 0

\* It or the other is then marked, if it is about a login.
AboutMarked(q) == Task(q).op = "user" => Marked(Task(q).id)
MetMarked == \A q, r \in Requests : q # r /\ pc[q] # "idle" /\ pc[r] # "idle" => AboutMarked(q) \/ AboutMarked(r)

Separate == Paired /\ Met /\ MetMarked /\ \A q \in Requests : Pairing(q)

\* Races are not forgotten.
LEMMA MarkedStays ==
  ASSUME Base, [Next]_vars
  PROVE  /\ \A k \in Keys : raced[k] <= raced'[k] /\ raced[k] \in Nat /\ raced'[k] \in Nat
         /\ \A u : Marked(u) => Marked(u)'
<1>1. \A k \in Keys : raced[k] \in Nat
  BY DEF Base, Typed
<1>2. ASSUME NEW q \in Requests, NEW k \in Keys, Start(q, k)
      PROVE  \A x \in Keys : raced[x] <= raced'[x] /\ raced'[x] \in Nat
  <2>1. raced' = raced \/ raced' = [raced EXCEPT ![k] = @ + 1]
    BY <1>2 DEF Start
  <2> QED BY <2>1 DEF Base, Typed
<1>3. CASE ~\E q \in Requests, k \in Keys : Start(q, k)
  <2>1. clashed' = clashed /\ raced' = raced
    BY <1>3, KeepsOn
  <2> QED BY <1>1, <2>1 DEF Marked
<1>4. ASSUME NEW q \in Requests, NEW k \in Keys, Start(q, k) PROVE \A u : Marked(u) => Marked(u)'
  BY <1>4, StartFacts DEF Marked
<1> QED BY <1>1, <1>2, <1>3, <1>4

\* A request is the only one under way, or it or each of the others has met one.
LEMMA MetStep ==
  ASSUME Base, [Next]_vars, Met
  PROVE  Met'
<1>1. ASSUME NEW q \in Requests, NEW k \in Keys, Start(q, k) PROVE Met'
  <2>1. /\ at'[q].key = k /\ pc[q] = "idle"
        /\ \A p \in Requests \ {q} : pc'[p] = pc[p] /\ at'[p] = at[p]
    BY <1>1, StartFacts
  <2>2. \A x \in Keys : raced[x] <= raced'[x] /\ raced[x] \in Nat /\ raced'[x] \in Nat
    BY MarkedStays
  <2>3. InFlight # {} => raced'[k] > 0
    BY <1>1 DEF Start, Base, Typed
  <2>4. \A p \in Requests \ {q} : pc[p] # "idle" => raced'[k] > 0 /\ at[p].key \in Keys
    BY <2>3 DEF InFlight, Base, Typed
  <2> SUFFICES ASSUME NEW p \in Requests, NEW r \in Requests, p # r, pc'[p] # "idle", pc'[r] # "idle"
               PROVE  raced'[at'[p].key] > 0 \/ raced'[at'[r].key] > 0
    BY DEF Met
  <2>5. CASE p = q
    BY <2>1, <2>4, <2>5
  <2>6. CASE r = q
    BY <2>1, <2>4, <2>6
  <2>7. CASE p # q /\ r # q
    <3>1. at'[p] = at[p] /\ at'[r] = at[r] /\ (raced[at[p].key] > 0 \/ raced[at[r].key] > 0)
      BY <2>1, <2>7 DEF Met
    <3>2. at[p].key \in Keys /\ at[r].key \in Keys
      BY <2>1, <2>4, <2>7
    <3> QED BY <2>2, <3>1, <3>2
  <2> QED BY <2>5, <2>6, <2>7
<1>2. CASE ~\E q \in Requests, k \in Keys : Start(q, k)
  <2>1. raced' = raced /\ \A p \in Requests : pc'[p] # "idle" => pc[p] # "idle" /\ at'[p] = at[p]
    BY <1>2, KeepsOn
  <2> QED BY <2>1 DEF Met
<1> QED BY <1>1, <1>2

\* Likewise for what they are about.
LEMMA MetMarkedStep ==
  ASSUME Base, [Next]_vars, MetMarked
  PROVE  MetMarked'
<1>0. \A u : Marked(u) => Marked(u)'
  BY MarkedStays
<1>1. ASSUME NEW q \in Requests, NEW k \in Keys, Start(q, k) PROVE MetMarked'
  <2>1. /\ pc[q] = "idle"
        /\ \A p \in Requests \ {q} : pc'[p] = pc[p] /\ at'[p] = at[p] /\ Task(p)' = Task(p)
        /\ InFlight # {} => AboutMarked(q)'
    BY <1>1, StartFacts DEF AboutMarked, Marked
  <2>2. \A p \in Requests \ {q} : AboutMarked(p) => AboutMarked(p)'
    BY <1>0, <2>1 DEF AboutMarked
  <2>3. \A p \in Requests \ {q} : pc[p] # "idle" => AboutMarked(q)'
    BY <2>1 DEF InFlight
  <2> QED BY <2>1, <2>2, <2>3 DEF MetMarked
<1>2. CASE ~\E q \in Requests, k \in Keys : Start(q, k)
  <2>1. \A p \in Requests : pc'[p] # "idle" => pc[p] # "idle" /\ Task(p)' = Task(p)
    BY <1>2, KeepsOn
  <2> QED BY <1>0, <2>1 DEF MetMarked, AboutMarked
<1> QED BY <1>1, <1>2

\* A step that leaves who is active, and for whom, leaves logins apart.
LEMMA SameActive ==
  ASSUME Base, [Next]_vars, Separate, ~\E q \in Requests, k \in Keys : Start(q, k),
         \A u \in Users : db'.user[u].status = db.user[u].status /\ db'.user[u].person = db.user[u].person
  PROVE  Separate'
<1>1. \A u \in Users : Marked(u) => Marked(u)'
  BY MarkedStays
<1>2. \A u \in Users : \A p : Active(u, p)' <=> Active(u, p)
  BY DEF Active
<1>3. Paired'
  BY <1>1, <1>2 DEF Separate, Paired
<1>4. ASSUME NEW q \in Requests PROVE Pairing(q)'
  <2> SUFFICES ASSUME Early(q)', Task(q).op' = "user", Will(q).status' = "active",
                      NEW v \in Users, v # Task(q).id', Active(v, Will(q).person)'
               PROVE  Marked(Task(q).id)' \/ Marked(v)'
    BY DEF Pairing
  <2>1. pc'[q] # "idle"
    BY DEF Early
  <2>2. Early(q) /\ at'[q] = at[q] /\ Task(q)' = Task(q) /\ pc[q] # "idle"
    BY <2>1, KeepsOn
  <2>3. Will(q)' = Will(q)
    BY <2>2 DEF Will, Patched
  <2>4. Task(q).op = "user" /\ Will(q).status = "active" /\ v # Task(q).id /\ Active(v, Will(q).person)
    BY <1>2, <2>2, <2>3
  <2>5. Marked(Task(q).id) \/ Marked(v)
    BY <2>2, <2>4 DEF Separate, Pairing
  <2>6. Task(q).id \in Users
    BY <2>2, <2>4, WillBeLogin
  <2> QED BY <1>1, <2>2, <2>5, <2>6
<1> QED BY <1>3, <1>4, MetStep, MetMarkedStep DEF Separate

\* A request is accepted only if nobody else is active for the person.
LEMMA AcceptsAlone ==
  ASSUME Base, NEW q \in Requests, NEW k \in Keys, Start(q, k), Task(q)'.op = "user", Will(q)'.status = "active",
         NEW v \in Users \ {Task(q)'.id}
  PROVE  ~Active(v, Will(q)'.person)
<1> DEFINE t == Task(q)'
           user == Over(t.body, db.user[t.id])
<1>1. t \in Tasks /\ Accepts(t) /\ at'[q].seen = Row(t) /\ t.op = "user"
  BY StartFacts
<1>2. Row(t) = db.user[t.id] /\ t.id \in Users
  BY <1>1, TaskShapes DEF Row, Table
<1>3. (t.new \/ user.status = "active") => OtherActive(t.id, user.person) = {}
  BY <1>1 DEF Accepts, MayUser
<1>4. CASE t.new
  <2>1. t.body \in [person : Persons, roles : Roles]
    BY <1>1, <1>4, TaskShapes
  <2>2. user.person = t.body.person
    <3>1. "person" \in DOMAIN t.body
      BY <2>1
    <3> QED BY <3>1 DEF Over
  <2>3. Will(q)'.person = t.body.person
    <3>1. Will(q)' = Over(t.body, NewUser)
      BY <1>4 DEF Will
    <3> QED BY <2>1, <3>1, NewLogin
  <2> QED BY <1>3, <1>4, <2>2, <2>3 DEF OtherActive, Active
<1>5. CASE ~t.new
  <2>1. Will(q)' = user
    BY <1>1, <1>2, <1>5 DEF Will, Patched
  <2> QED BY <1>3, <2>1 DEF OtherActive, Active
<1> QED BY <1>4, <1>5

\* Setting out does not bring logins together.
LEMMA StartSeparate ==
  ASSUME Base, [Next]_vars, Separate, NEW q \in Requests, NEW k \in Keys, Start(q, k)
  PROVE  Separate'
<1>1. \A u \in Users : Marked(u) => Marked(u)'
  BY MarkedStays
<1>2. /\ db' = db
      /\ \A p \in Requests \ {q} : pc'[p] = pc[p] /\ at'[p] = at[p] /\ Task(p)' = Task(p)
  BY StartFacts
<1>3. Paired'
  BY <1>1, <1>2 DEF Separate, Paired, Active
<1>4. Pairing(q)'
  <2>1. \A v \in Users \ {Task(q)'.id} :
          Task(q)'.op = "user" /\ Will(q)'.status = "active" => ~Active(v, Will(q)'.person)
    BY AcceptsAlone
  <2>2. \A v \in Users : \A p : Active(v, p)' <=> Active(v, p)
    BY <1>2 DEF Active
  <2> QED BY <2>1, <2>2 DEF Pairing
<1>5. ASSUME NEW p \in Requests, p # q PROVE Pairing(p)'
  <2> SUFFICES ASSUME Early(p)', Task(p).op' = "user", Will(p).status' = "active",
                      NEW v \in Users, v # Task(p).id', Active(v, Will(p).person)'
               PROVE  Marked(Task(p).id)' \/ Marked(v)'
    BY DEF Pairing
  <2>1. at'[p] = at[p] /\ pc[p] # "idle" /\ Early(p)
    BY <1>2, <1>5 DEF Early
  <2>4. Task(p)' = Task(p)
    BY <1>2, <1>5
  <2>5. Will(p)' = Will(p)
    BY <2>1, <2>4 DEF Will, Patched
  <2>6. Task(p).op = "user" /\ Will(p).status = "active" /\ v # Task(p).id /\ Active(v, Will(p).person)
    BY <1>2, <2>4, <2>5 DEF Active
  <2>7. Marked(Task(p).id) \/ Marked(v)
    BY <2>1, <2>6 DEF Separate, Pairing
  <2>8. Task(p).id \in Users
    BY <2>1, <2>6, WillBeLogin
  <2> QED BY <1>1, <2>4, <2>7, <2>8
<1> QED BY <1>3, <1>4, <1>5, MetStep, MetMarkedStep DEF Separate

\* The write of a login was checked before, and what has changed since was a race.
LEMMA WriteSeparate ==
  ASSUME Base, [Next]_vars, Separate, NEW q \in Requests, CreateUser(q) \/ UpdateUser(q)
  PROVE  Separate'
<1>0. PICK id \in Users : id = Task(q).id
  BY LoginWritten
<1>1. /\ pc[q] = "write" /\ Task(q).op = "user" /\ id = Task(q).id
      /\ db'.user = [db.user EXCEPT ![id] = db'.user[id]]
      /\ db'.user[id].status = Will(q).status /\ db'.user[id].person = Will(q).person
  BY <1>0, LoginWritten
<1>2. \A u \in Users : Marked(u) => Marked(u)'
  BY MarkedStays
<1>3. \A u \in Users \ {id} : \A p : Active(u, p)' <=> Active(u, p)
  BY <1>1 DEF Active, Base, Rows
<1>4. Early(q) /\ Pairing(q)
  BY <1>1 DEF Separate, Early
<1>5. ASSUME NEW v \in Users \ {id}, NEW p, Active(id, p)', Active(v, p)' PROVE Marked(id) \/ Marked(v)
  <2>1. Will(q).status = "active" /\ Will(q).person = p
    BY <1>1, <1>5 DEF Active
  <2>2. Active(v, p)
    BY <1>3, <1>5
  <2> QED BY <1>1, <1>4, <2>1, <2>2 DEF Pairing
<1>6. Paired'
  <2> SUFFICES ASSUME NEW u \in Users, NEW v \in Users, NEW p, u # v, Active(u, p)', Active(v, p)'
               PROVE  Marked(u)' \/ Marked(v)'
    BY DEF Paired
  <2>1. CASE u # id /\ v # id
    BY <1>2, <1>3, <2>1 DEF Separate, Paired
  <2>2. CASE u = id
    <3>1. Marked(id) \/ Marked(v)
      BY <1>5, <2>2
    <3> QED BY <1>1, <1>2, <2>2, <3>1
  <2>3. CASE v = id
    <3>1. Marked(id) \/ Marked(u)
      BY <1>5, <2>3
    <3> QED BY <1>1, <1>2, <2>3, <3>1
  <2> QED BY <2>1, <2>2, <2>3
<1>7. ~\E p \in Requests, k \in Keys : Start(p, k)
  <2>1. ASSUME NEW p \in Requests, NEW k \in Keys, Start(p, k) PROVE FALSE
    <3>1. untold' = untold
      BY <2>1, StartFacts
    <3>2. pc'[p] = "once" /\ pc[p] = "idle" /\ pc'[q] = "history" /\ \A r \in Requests \ {p} : pc'[r] = pc[r]
      BY <2>1, StartFacts, GotoFacts DEF CreateUser, UpdateUser, Wrote, Base
    <3> QED BY <1>1, <3>2
  <2> QED BY <2>1
<1>8. ASSUME NEW p \in Requests PROVE Pairing(p)'
  <2> SUFFICES ASSUME Early(p)', Task(p).op' = "user", Will(p).status' = "active",
                      NEW v \in Users, v # Task(p).id', Active(v, Will(p).person)'
               PROVE  Marked(Task(p).id)' \/ Marked(v)'
    BY DEF Pairing
  <2>1. pc'[p] # "idle"
    BY DEF Early
  <2>2. Early(p) /\ at'[p] = at[p] /\ Task(p)' = Task(p) /\ pc[p] # "idle"
    BY <1>7, <2>1, KeepsOn
  <2>3. Will(p)' = Will(p)
    BY <2>2 DEF Will, Patched
  <2>4. p # q
    <3>1. pc'[q] = "history"
      BY GotoFacts DEF CreateUser, UpdateUser, Wrote, Base
    <3> QED BY <3>1 DEF Early
  <2>5. Task(p).id \in Users /\ at[p].key \in Keys /\ at[q].key \in Keys
    BY <1>1, <2>2, WillBeLogin DEF Base, Typed
  <2>6. CASE v # id
    <3>1. Active(v, Will(p).person)
      BY <1>3, <2>3, <2>6
    <3>2. Marked(Task(p).id) \/ Marked(v)
      BY <2>2, <2>3, <3>1 DEF Separate, Pairing
    <3> QED BY <1>2, <2>2, <2>5, <3>2
  <2>7. CASE v = id
    <3>1. AboutMarked(p) \/ AboutMarked(q)
      BY <1>1, <2>2, <2>4 DEF Separate, MetMarked
    <3>2. Marked(Task(p).id) \/ Marked(id)
      BY <1>1, <2>2, <3>1 DEF AboutMarked
    <3> QED BY <1>1, <1>2, <2>2, <2>5, <2>7, <3>2
  <2> QED BY <2>6, <2>7
<1> QED BY <1>6, <1>8, MetStep, MetMarkedStep DEF Separate

\* Every step keeps logins apart.
LEMMA SeparateStep ==
  ASSUME Base, [Next]_vars, Separate
  PROVE  Separate'
<1>1. ASSUME NEW q \in Requests, NEW k \in Keys, Start(q, k) PROVE Separate'
  BY <1>1, StartSeparate
<1>2. ASSUME NEW q \in Requests, CreateUser(q) \/ UpdateUser(q) PROVE Separate'
  BY <1>2, WriteSeparate
<1>3. CASE /\ ~\E q \in Requests, k \in Keys : Start(q, k)
           /\ \/ \E u \in Users, n \in Nat : PinsOnly(u, n)
              \/ db'.user = db.user
  <2>1. \A u \in Users : db'.user[u].status = db.user[u].status /\ db'.user[u].person = db.user[u].person
    BY <1>3 DEF PinsOnly, Base, Rows
  <2> QED BY <1>3, <2>1, SameActive
<1> QED BY <1>1, <1>2, <1>3, UserSteps

\* At first only the founder has a login.
LEMMA InitSeparate ==
  ASSUME Init
  PROVE  Separate
<1>1. \A u \in Users : db.user[u].status = "active" => u = FounderUser
  BY DEF Init, Seeded, Absent
<1> QED BY <1>1 DEF Separate, Paired, Met, MetMarked, Pairing, Active, Early, Init

\* The tables, the idempotency records and the logins, in every state.
LEMMA Grounds == Spec => [](Base /\ Paid /\ Separate)
<1>1. Init => Base /\ Paid /\ Separate
  BY InitBase, InitPaid, InitSeparate
<1>2. Base /\ Paid /\ Separate /\ [Next]_vars => Base' /\ Paid' /\ Separate'
  <2> SUFFICES ASSUME Base, Paid, Separate, [Next]_vars PROVE Base' /\ Paid' /\ Separate'
    OBVIOUS
  <2>1. Base' /\ Separate'
    BY BaseStep, SeparateStep
  <2>2. Paid'
    BY PaidStep DEF Base
  <2> QED BY <2>1, <2>2
<1> QED BY <1>1, <1>2, PTL DEF Spec

\* Of the active logins of a person one at most was not made or changed by a request
\* that overlapped with another (OneActiveLogin).
THEOREM OneLogin == Spec => []OneActiveLogin
<1>1. Separate => OneActiveLogin
  <2> SUFFICES ASSUME Separate, NEW p \in Persons
               PROVE  Cardinality(OtherActive("", p) \ clashed) <= 1
    BY DEF OneActiveLogin
  <2> DEFINE A == OtherActive("", p) \ clashed
  <2>1. \A u, v \in A : u = v
    BY DEF OtherActive, Separate, Paired, Active, Marked
  <2> HIDE DEF A
  <2>2. ASSUME A = {} PROVE Cardinality(A) <= 1
    BY <2>2, FS_EmptySet
  <2>3. ASSUME A # {} PROVE Cardinality(A) <= 1
    <3>1. PICK u \in A : A = {u}
      BY <2>1, <2>3
    <3>2. Cardinality(A) = 1
      BY <3>1, FS_Singleton
    <3> QED BY <3>2
  <2>4. Cardinality(A) <= 1
    BY <2>2, <2>3
  <2> QED BY <2>4 DEF A
<1> QED BY <1>1, Grounds, PTL

-----------------------------------------------------------------------------
(* The counter of wrong PINs                                                 *)

\* The logins of an account that have read its row and not written it yet.
Pending(u) == {l \in logins : l.user = u}

\* A request that is about to make an account.
Creates(q, u) == Early(q) /\ Task(q).op = "user" /\ Task(q).new /\ Task(q).id = u

\* The counter falls behind by the logins that overlapped with another request: each
\* pending login may write a count that has been overtaken.
Counted(u) ==
  LET n == Cardinality(Pending(u)) IN
  /\ n <= 1 + lost[u]
  /\ \A l \in Pending(u) : tries[u] + n <= 1 + l.failed + lost[u]
  /\ Live(db.user[u]) =>
       /\ Pending(u) = {} => tries[u] <= db.user[u].failed + lost[u]
       /\ Pending(u) # {} => tries[u] + n <= 1 + db.user[u].failed + lost[u]
  /\ ~Live(db.user[u]) => tries[u] = 0 /\ Pending(u) = {}
  /\ (\E q \in Requests : Creates(q, u)) => tries[u] + n <= lost[u]

\* The numbers of an account.
LEMMA CountTypes ==
  ASSUME Base, NEW u \in Users
  PROVE  /\ tries[u] \in Nat /\ lost[u] \in Nat
         /\ IsFiniteSet(Pending(u)) /\ Cardinality(Pending(u)) \in Nat
         /\ Pending(u) = {} => Cardinality(Pending(u)) = 0
         /\ Pending(u) # {} => Cardinality(Pending(u)) >= 1
         /\ Live(db.user[u]) => db.user[u].failed \in Nat
         /\ \A l \in Pending(u) : l.failed \in Nat
<1>1. Pending(u) \subseteq logins /\ IsFiniteSet(logins)
  BY DEF Pending, Base, Logins
<1>2. IsFiniteSet(Pending(u))
  BY <1>1, FS_Subset, Zenon
<1>3. Cardinality(Pending(u)) \in Nat
  BY <1>2, FS_CardinalityType
<1>4. Cardinality(Pending(u)) = 0 <=> Pending(u) = {}
  BY <1>2, FS_EmptySet
<1>5. Live(db.user[u]) => db.user[u].failed \in Nat
  BY WholeRows DEF Base, UserRow
<1> QED BY <1>1, <1>2, <1>3, <1>4, <1>5 DEF Base, Logins

\* An account whose numbers stay.
LEMMA CountedKept ==
  ASSUME Base, NEW u \in Users, Counted(u),
         Live(db'.user[u]) <=> Live(db.user[u]), Live(db.user[u]) => db'.user[u].failed = db.user[u].failed,
         tries'[u] = tries[u], lost'[u] = lost[u], Pending(u)' = Pending(u),
         \A q \in Requests : Creates(q, u)' => Creates(q, u)
  PROVE  Counted(u)'
BY Zenon DEF Counted

\* Requests that make an account have set out before.
LEMMA CreatesBefore ==
  ASSUME Base, [Next]_vars, ~\E q \in Requests, k \in Keys : Start(q, k), NEW u
  PROVE  \A q \in Requests : Creates(q, u)' => Creates(q, u)
<1> SUFFICES ASSUME NEW q \in Requests, Creates(q, u)' PROVE Creates(q, u)
  OBVIOUS
<1>1. Early(q)' /\ pc'[q] # "idle"
  BY DEF Creates, Early
<1>2. Early(q) /\ Task(q)' = Task(q)
  BY <1>1, KeepsOn
<1> QED BY <1>2 DEF Creates

\* A login takes a number that no other pending login of the account has.
LEMMA FreshNumber ==
  ASSUME NEW other, IsFiniteSet(other)
  PROVE  \E n \in 0 .. Cardinality(other) : \A l \in other : l.nth # n
<1> DEFINE N == 0 .. Cardinality(other)
           taken == {l.nth : l \in other}
<1>1. Cardinality(other) \in Nat
  BY FS_CardinalityType
<1>2. IsFiniteSet(N) /\ Cardinality(N) = Cardinality(other) + 1
  BY <1>1, FS_Interval
<1> DEFINE f == [l \in other |-> l.nth]
<1>3. f \in Surjection(other, taken)
  BY DEF Surjection
<1>4. IsFiniteSet(taken) /\ Cardinality(taken) <= Cardinality(other)
  <2> HIDE DEF f, taken
  <2> QED BY <1>3, FS_Surjection
<1>5. ~(N \subseteq taken)
  <2> SUFFICES ASSUME N \subseteq taken PROVE FALSE
    OBVIOUS
  <2> HIDE DEF N, taken
  <2>1. Cardinality(N) <= Cardinality(taken) /\ Cardinality(taken) \in Nat
    BY <1>4, FS_Subset, FS_CardinalityType
  <2> QED BY <1>1, <1>2, <1>4, <2>1
<1> QED BY <1>5

\* The SELECT of a login: another pending one, a race unless it is alone.
LEMMA ReadCounted ==
  ASSUME Base, [Next]_vars, NEW u \in Users, ReadLogin(u), NEW v \in Users, Counted(v)
  PROVE  Counted(v)'
<1> DEFINE other == {l \in logins : l.user = u}
           nth == CHOOSE n \in 0 .. Cardinality(other) : \A l \in other : l.nth # n
           new == [user |-> u, failed |-> db.user[u].failed, nth |-> nth]
<1>1. /\ Live(db.user[u]) /\ logins' = logins \cup {new}
      /\ IF other = {} /\ InFlight = {} THEN UNCHANGED lost ELSE lost' = [lost EXCEPT ![u] = @ + 1]
      /\ UNCHANGED <<db, sent, pc, at, tries>>
  BY DEF ReadLogin, clients
<1>2. other = Pending(u)
  BY DEF Pending
<1>3. \A q \in Requests : Creates(q, v)' <=> Creates(q, v)
  BY <1>1 DEF Creates, Early, Task
<1>4. lost \in [Users -> Nat]
  BY DEF Base, Logins
<1>5. CASE v # u
  <2>1. Pending(v)' = Pending(v)
    BY <1>1, <1>5 DEF Pending
  <2>2. lost'[v] = lost[v]
    BY <1>1, <1>4, <1>5
  <2> QED BY <1>1, <1>3, <2>1, <2>2, CountedKept
<1>6. CASE v = u
  <2>1. IsFiniteSet(other) /\ \A l \in other : l.nth # nth
    <3>1. IsFiniteSet(other)
      BY <1>2, CountTypes
    <3>2. \E n \in 0 .. Cardinality(other) : \A l \in other : l.nth # n
      <4> HIDE DEF other
      <4> QED BY <3>1, FreshNumber
    <3> QED BY <3>1, <3>2
  <2>2. new \notin Pending(u) /\ new.user = u /\ new.failed = db.user[u].failed
    BY <1>2, <2>1
  <2> HIDE DEF new, nth
  <2>3. Pending(u)' = Pending(u) \cup {new}
    BY <1>1, <2>2 DEF Pending
  <2> HIDE DEF other
  <2> DEFINE n == Cardinality(Pending(u))
  <2>4. Cardinality(Pending(u)') = n + 1
    BY <1>2, <2>1, <2>2, <2>3, FS_AddElement
  <2>5. /\ tries[u] \in Nat /\ lost[u] \in Nat /\ n \in Nat /\ db.user[u].failed \in Nat
        /\ (Pending(u) = {} => n = 0) /\ \A l \in Pending(u) : l.failed \in Nat
    BY <1>1, CountTypes
  <2>6. /\ n <= 1 + lost[u]
        /\ \A l \in Pending(u) : tries[u] + n <= 1 + l.failed + lost[u]
        /\ Pending(u) = {} => tries[u] <= db.user[u].failed + lost[u]
        /\ Pending(u) # {} => tries[u] + n <= 1 + db.user[u].failed + lost[u]
        /\ (\E q \in Requests : Creates(q, u)) => tries[u] + n <= lost[u]
    BY <1>1, <1>6 DEF Counted
  <2>7. tries' = tries /\ db' = db /\ Pending(u)' # {}
    BY <1>1, <2>3
  <2> HIDE DEF n
  <2>8. CASE other = {} /\ InFlight = {}
    <3>1. lost'[u] = lost[u] /\ n = 0 /\ Pending(u)' = {new}
      BY <1>1, <1>2, <2>3, <2>5, <2>8
    <3>2. ~\E q \in Requests : Creates(q, u)
      BY <2>8 DEF Creates, Early, InFlight
    <3>3. /\ n + 1 <= 1 + lost'[u]
          /\ tries[u] + (n + 1) <= 1 + db.user[u].failed + lost'[u]
      BY <1>2, <2>5, <2>6, <2>8, <3>1
    <3> QED BY <1>1, <1>3, <1>6, <2>2, <2>4, <2>7, <3>1, <3>2, <3>3 DEF Counted
  <2>9. CASE ~(other = {} /\ InFlight = {})
    <3>1. lost'[u] = lost[u] + 1
      BY <1>1, <1>4, <2>9
    <3>2. /\ n + 1 <= 1 + lost'[u]
          /\ \A l \in Pending(u) : tries[u] + (n + 1) <= 1 + l.failed + lost'[u]
          /\ tries[u] + (n + 1) <= 1 + db.user[u].failed + lost'[u]
          /\ (\E q \in Requests : Creates(q, u)) => tries[u] + (n + 1) <= lost'[u]
      BY <2>5, <2>6, <3>1
    <3> QED BY <1>1, <1>3, <1>6, <2>2, <2>3, <2>4, <2>7, <3>2 DEF Counted
  <2> QED BY <2>8, <2>9
<1> QED BY <1>5, <1>6

\* A step that sets the PIN columns of an account leaves the others alone.
LEMMA OthersCounted ==
  ASSUME Base, [Next]_vars, ~\E q \in Requests, k \in Keys : Start(q, k),
         NEW u \in Users, NEW v \in Users, v # u, Counted(v),
         db'.user = [db.user EXCEPT ![u] = db'.user[u]], tries'[v] = tries[v], lost' = lost,
         Pending(v)' = Pending(v)
  PROVE  Counted(v)'
<1>1. db'.user[v] = db.user[v]
  BY DEF Base, Rows
<1> QED BY <1>1, CreatesBefore, CountedKept

\* An answer to a login: one pending login less, and its count is written, or none.
LEMMA AnswerCounted ==
  ASSUME Base, [Next]_vars, NEW l \in logins, WrongPin(l) \/ RightPin(l), NEW v \in Users, Counted(v)
  PROVE  Counted(v)'
<1>1. PICK u \in Users : u = l.user
  BY DEF Base, Logins
<1>2. /\ lost' = lost /\ logins' = logins \ {l} /\ UNCHANGED <<pc, at, sent>>
      /\ Live(db.user[u]) /\ l.failed \in Nat
  BY <1>1 DEF WrongPin, RightPin, clients, Base, Logins
<1>3. ~\E q \in Requests, k \in Keys : Start(q, k)
  BY <1>2 DEF Start, Base, Typed
<1>4. \/ tries' = [tries EXCEPT ![u] = 0] /\ PinsOnly(u, 0)
      \/ tries' = [tries EXCEPT ![u] = @ + 1] /\ PinsOnly(u, l.failed + 1)
      \/ tries' = [tries EXCEPT ![u] = 0] /\ db' = db
  BY <1>1, PinStatements DEF WrongPin, RightPin
<1>5. CASE v # u
  <2>1. Pending(v)' = Pending(v)
    BY <1>1, <1>2, <1>5 DEF Pending
  <2>2. tries'[v] = tries[v]
    BY <1>4, <1>5 DEF Base, Logins
  <2>3. db'.user = [db.user EXCEPT ![u] = db'.user[u]]
    BY <1>4 DEF PinsOnly, Base, Rows
  <2> QED BY <1>2, <1>3, <1>5, <2>1, <2>2, <2>3, OthersCounted
<1>6. CASE v = u
  <2> DEFINE n == Cardinality(Pending(u))
  <2>1. l \in Pending(u) /\ Pending(u)' = Pending(u) \ {l}
    BY <1>1, <1>2 DEF Pending
  <2>2. /\ tries[u] \in Nat /\ lost[u] \in Nat /\ n \in Nat /\ IsFiniteSet(Pending(u)) /\ n >= 1
        /\ \A x \in Pending(u) : x.failed \in Nat
    BY <2>1, CountTypes
  <2>3. Cardinality(Pending(u)') = n - 1
    BY <2>1, <2>2, FS_RemoveElement
  <2>4. Pending(u)' = {} => n = 1
    BY <2>2, <2>3, FS_EmptySet
  <2>5. /\ n <= 1 + lost[u]
        /\ \A x \in Pending(u) : tries[u] + n <= 1 + x.failed + lost[u]
        /\ (\E q \in Requests : Creates(q, u)) => tries[u] + n <= lost[u]
    BY <1>6 DEF Counted
  <2>6. \A q \in Requests : Creates(q, u)' => Creates(q, u)
    BY <1>3, CreatesBefore
  <2>7. Live(db'.user[u]) /\ lost'[u] = lost[u]
    BY <1>2, RowsStep
  <2> HIDE DEF n
  <2>8. CASE tries' = [tries EXCEPT ![u] = 0] /\ PinsOnly(u, 0)
    <3>1. tries'[u] = 0 /\ db'.user[u].failed = 0
      BY <2>8 DEF PinsOnly, Base, Logins
    <3>2. /\ n - 1 <= 1 + lost[u]
          /\ \A x \in Pending(u) : 0 + (n - 1) <= 1 + x.failed + lost[u]
          /\ 0 <= 0 + lost[u] /\ 0 + (n - 1) <= 1 + 0 + lost[u]
          /\ (\E q \in Requests : Creates(q, u)) => 0 + (n - 1) <= lost[u]
      BY <2>2, <2>5
    <3> QED BY <1>6, <2>1, <2>3, <2>6, <2>7, <3>1, <3>2 DEF Counted
  <2>9. CASE tries' = [tries EXCEPT ![u] = @ + 1] /\ PinsOnly(u, l.failed + 1)
    <3>1. tries'[u] = tries[u] + 1 /\ db'.user[u].failed = l.failed + 1
      BY <2>9 DEF PinsOnly, Base, Logins
    <3>2. /\ n - 1 <= 1 + lost[u]
          /\ \A x \in Pending(u) : tries[u] + 1 + (n - 1) <= 1 + x.failed + lost[u]
          /\ n = 1 => tries[u] + 1 <= l.failed + 1 + lost[u]
          /\ tries[u] + 1 + (n - 1) <= 1 + (l.failed + 1) + lost[u]
          /\ (\E q \in Requests : Creates(q, u)) => tries[u] + 1 + (n - 1) <= lost[u]
      BY <1>2, <2>1, <2>2, <2>5
    <3> QED BY <1>6, <2>1, <2>3, <2>4, <2>6, <2>7, <3>1, <3>2 DEF Counted
  <2>10. CASE tries' = [tries EXCEPT ![u] = 0] /\ db' = db
    <3>1. tries'[u] = 0 /\ db'.user[u].failed \in Nat
      BY <1>2, <2>10, WholeRows DEF Base, Logins, UserRow
    <3>2. /\ n - 1 <= 1 + lost[u]
          /\ \A x \in Pending(u) : 0 + (n - 1) <= 1 + x.failed + lost[u]
          /\ 0 <= db'.user[u].failed + lost[u] /\ 0 + (n - 1) <= 1 + db'.user[u].failed + lost[u]
          /\ (\E q \in Requests : Creates(q, u)) => 0 + (n - 1) <= lost[u]
      BY <2>2, <2>5, <3>1
    <3> QED BY <1>6, <2>1, <2>3, <2>6, <2>7, <3>1, <3>2 DEF Counted
  <2> QED BY <1>4, <2>8, <2>9, <2>10
<1> QED BY <1>5, <1>6

\* Writes of requests are no start of one.
LEMMA WriteIsNoStart ==
  ASSUME Base, NEW q \in Requests, NEW op, NEW new, NEW next \in {"link", "history", "record"}, Wrote(q, op, new, next)
  PROVE  ~\E p \in Requests, k \in Keys : Start(p, k)
<1> SUFFICES ASSUME NEW p \in Requests, NEW k \in Keys, Start(p, k) PROVE FALSE
  OBVIOUS
<1>1. pc[q] = "write" /\ pc'[q] = next
  BY GotoFacts DEF Wrote, Base
<1>2. pc'[p] = "once" /\ pc[p] = "idle" /\ \A r \in Requests \ {p} : pc'[r] = pc[r]
  BY StartFacts
<1> QED BY <1>1, <1>2

\* A reset of the PIN: no count is left, but pending logins may still write theirs.
LEMMA ResetCounted ==
  ASSUME Base, [Next]_vars, NEW q \in Requests, ResetPin(q), NEW v \in Users, Counted(v)
  PROVE  Counted(v)'
<1>1. PICK u \in Users : u = Task(q).id
  BY PinStatements
<1>2. /\ Live(db.user[u]) /\ PinsOnly(u, 0) /\ tries' = [tries EXCEPT ![u] = 0]
      /\ logins' = logins /\ lost' = lost
  BY <1>1, PinStatements DEF ResetPin
<1>3. ~\E p \in Requests, k \in Keys : Start(p, k)
  BY WriteIsNoStart DEF ResetPin
<1>4. Pending(v)' = Pending(v)
  BY <1>2 DEF Pending
<1>5. CASE v # u
  <2>1. tries'[v] = tries[v] /\ db'.user = [db.user EXCEPT ![u] = db'.user[u]]
    BY <1>2, <1>5 DEF Base, Logins, PinsOnly
  <2> QED BY <1>2, <1>3, <1>4, <1>5, <2>1, OthersCounted
<1>6. CASE v = u
  <2> DEFINE n == Cardinality(Pending(u))
  <2>1. tries'[u] = 0 /\ db'.user[u].failed = 0 /\ Live(db'.user[u])
    BY <1>2, RowsStep DEF PinsOnly, Base, Logins
  <2>2. /\ tries[u] \in Nat /\ lost[u] \in Nat /\ n \in Nat
        /\ \A x \in Pending(u) : x.failed \in Nat
    BY CountTypes
  <2>3. n <= 1 + lost[u] /\ ((\E p \in Requests : Creates(p, u)) => tries[u] + n <= lost[u])
    BY <1>6 DEF Counted
  <2>4. \A p \in Requests : Creates(p, u)' => Creates(p, u)
    BY <1>3, CreatesBefore
  <2> HIDE DEF n
  <2>5. /\ \A x \in Pending(u) : 0 + n <= 1 + x.failed + lost[u]
        /\ 0 <= 0 + lost[u] /\ 0 + n <= 1 + 0 + lost[u]
        /\ (\E p \in Requests : Creates(p, u)) => 0 + n <= lost[u]
    BY <2>2, <2>3
  <2> QED BY <1>2, <1>4, <1>6, <2>1, <2>3, <2>4, <2>5 DEF Counted, n
<1> QED BY <1>5, <1>6

\* A new account, or one that keeps its PIN columns.
LEMMA LoginCounted ==
  ASSUME Base, [Next]_vars, NEW q \in Requests, CreateUser(q) \/ UpdateUser(q), NEW v \in Users, Counted(v)
  PROVE  Counted(v)'
<1>1. PICK u \in Users : u = Task(q).id
  BY LoginWritten
<1>2. /\ db'.user = [db.user EXCEPT ![u] = db'.user[u]] /\ db'.user[u] \in UserRow
      /\ db'.user[u].failed = IF Task(q).new THEN 0 ELSE db.user[u].failed
      /\ pc[q] = "write" /\ Task(q).op = "user"
      /\ ~Task(q).new => Live(db.user[u])
  BY <1>1, LoginWritten, WillBeLogin
<1>3. UNCHANGED pins
  BY DEF CreateUser, UpdateUser
<1>4. ~\E p \in Requests, k \in Keys : Start(p, k)
  BY WriteIsNoStart DEF CreateUser, UpdateUser
<1>5. Pending(v)' = Pending(v) /\ tries' = tries /\ lost' = lost
  BY <1>3 DEF Pending, pins
<1>6. CASE v # u
  BY <1>2, <1>4, <1>5, <1>6, OthersCounted
<1>7. CASE v = u /\ ~Task(q).new
  <2>1. Live(db'.user[u])
    BY <1>2, <1>7, RowsStep
  <2> QED BY <1>2, <1>4, <1>5, <1>7, <2>1, CreatesBefore, CountedKept
<1>8. CASE v = u /\ Task(q).new
  <2> DEFINE n == Cardinality(Pending(u))
  <2>1. db'.user[u].failed = 0 /\ Live(db'.user[u])
    BY <1>2, <1>8, RowsStep, WholeRows DEF Rows, UserRow, Live
  <2>2. Creates(q, u)
    BY <1>1, <1>2, <1>8 DEF Creates, Early
  <2>3. tries[u] + n <= lost[u]
    BY <1>8, <2>2 DEF Counted
  <2>4. /\ tries[u] \in Nat /\ lost[u] \in Nat /\ n \in Nat
    BY CountTypes
  <2>5. /\ n <= 1 + lost[u]
        /\ \A l \in Pending(u) : tries[u] + n <= 1 + l.failed + lost[u]
    BY <1>8 DEF Counted
  <2> HIDE DEF n
  <2>6. tries[u] <= 0 + lost[u] /\ tries[u] + n <= 1 + 0 + lost[u]
    BY <2>3, <2>4
  <2> QED BY <1>5, <1>8, <2>1, <2>3, <2>5, <2>6 DEF Counted, n
<1> QED BY <1>6, <1>7, <1>8

\* A request that sets out to make an account has found none.
LEMMA StartCounted ==
  ASSUME Base, [Next]_vars, NEW q \in Requests, NEW k \in Keys, Start(q, k), NEW v \in Users, Counted(v)
  PROVE  Counted(v)'
<1>1. /\ UNCHANGED <<db, pins>>
      /\ \A p \in Requests \ {q} : pc'[p] = pc[p] /\ at'[p] = at[p] /\ Task(p)' = Task(p)
      /\ Task(q)' \in Tasks /\ Accepts(Task(q)')
  BY StartFacts
<1>2. Pending(v)' = Pending(v) /\ tries' = tries /\ lost' = lost
  BY <1>1 DEF Pending, pins
<1>3. ASSUME NEW p \in Requests, p # q, Creates(p, v)' PROVE Creates(p, v)
  BY <1>1, <1>3 DEF Creates, Early
<1>4. CASE ~Creates(q, v)'
  BY <1>1, <1>2, <1>3, <1>4, CountedKept
<1>5. CASE Creates(q, v)'
  <2> DEFINE t == Task(q)'
  <2>1. t.op = "user" /\ t.new /\ t.id = v /\ Accepts(t)
    BY <1>1, <1>5 DEF Creates
  <2>2. ~Live(db.user[v])
    BY <2>1 DEF Accepts, Row, Table
  <2>3. tries[v] = 0 /\ Pending(v) = {} /\ Cardinality(Pending(v)) = 0 /\ lost[v] \in Nat
    BY <2>2, CountTypes DEF Counted
  <2> QED BY <1>1, <1>2, <2>2, <2>3 DEF Counted
<1> QED BY <1>4, <1>5

\* A restart forgets the pending logins, which counts none of them.
LEMMA RestartCounted ==
  ASSUME Base, Restart, NEW v \in Users, Counted(v)
  PROVE  Counted(v)'
<1>1. /\ db'.user = db.user /\ tries' = tries /\ lost' = lost
      /\ Pending(v)' = {} /\ \A q \in Requests : ~Creates(q, v)'
  BY DEF Restart, Base, Rows, TableNames, Pending, Creates, Early
<1>2. /\ tries[v] \in Nat /\ lost[v] \in Nat /\ Cardinality(Pending(v)) \in Nat
      /\ Live(db.user[v]) => db.user[v].failed \in Nat
      /\ Pending(v) # {} => Cardinality(Pending(v)) >= 1
  BY CountTypes
<1>3. Live(db.user[v]) => tries[v] <= db.user[v].failed + lost[v]
  BY <1>2 DEF Counted
<1>4. Cardinality(Pending(v)') = 0
  BY <1>1, FS_EmptySet
<1> QED BY <1>1, <1>2, <1>3, <1>4 DEF Counted

\* The counts of every account, in every step.
LEMMA CountedStep ==
  ASSUME Base, [Next]_vars, NEW v \in Users, Counted(v)
  PROVE  Counted(v)'
<1>1. CASE Restart
  BY <1>1, RestartCounted
<1>2. ASSUME NEW q \in Requests, NEW k \in Keys, Start(q, k) PROVE Counted(v)'
  BY <1>2, StartCounted
<1>3. ASSUME NEW q \in Requests, CreateUser(q) \/ UpdateUser(q) PROVE Counted(v)'
  BY <1>3, LoginCounted
<1>4. ASSUME NEW q \in Requests, ResetPin(q) PROVE Counted(v)'
  BY <1>4, ResetCounted
<1>5. ASSUME NEW u \in Users, ReadLogin(u) PROVE Counted(v)'
  BY <1>5, ReadCounted
<1>6. ASSUME NEW l \in logins, WrongPin(l) \/ RightPin(l) PROVE Counted(v)'
  BY <1>6, AnswerCounted
<1>7. ASSUME NEW u \in Users, LockExpires(u) PROVE Counted(v)'
  <2>1. Live(db.user[u]) /\ PinsOnly(u, db.user[u].failed) /\ UNCHANGED <<pins, pc, at, clients>>
    BY <1>7, PinStatements DEF LockExpires
  <2>2. Live(db'.user[v]) <=> Live(db.user[v])
    BY <2>1 DEF PinsOnly, Live, Base, Rows
  <2>3. Live(db.user[v]) => db'.user[v].failed = db.user[v].failed
    BY <2>1 DEF PinsOnly, Base, Rows
  <2>4. Pending(v)' = Pending(v) /\ tries' = tries /\ lost' = lost /\ \A q \in Requests : Creates(q, v)' <=> Creates(q, v)
    BY <2>1 DEF Pending, pins, clients, Creates, Early, Task
  <2> QED BY <2>2, <2>3, <2>4, CountedKept
<1>8. ASSUME UNCHANGED pins, db'.user = db.user, ~\E q \in Requests, k \in Keys : Start(q, k)
      PROVE  Counted(v)'
  <2>1. Pending(v)' = Pending(v) /\ tries' = tries /\ lost' = lost
    BY <1>8 DEF Pending, pins
  <2> QED BY <1>8, <2>1, CreatesBefore, CountedKept
<1>9. ASSUME NEW q \in Requests, Once(q) \/ Refused(q) \/ TellHistory(q) \/ Remember(q) PROVE UNCHANGED <<pins, db>>
  BY <1>9 DEF Once, Refused, TellHistory, Remember
<1>10. ASSUME NEW q \in Requests, Write(q), ~(CreateUser(q) \/ UpdateUser(q) \/ ResetPin(q))
       PROVE  UNCHANGED pins /\ db'.user = db.user
  BY <1>10, OtherThanUsers
<1> QED BY <1>1, <1>2, <1>3, <1>4, <1>5, <1>6, <1>7, <1>8, <1>9, <1>10 DEF Next, vars

\* The counter of wrong PINs misses at most one try for every login that overlapped
\* with another request for the user (WrongPinsAreCounted), for every threshold.
THEOREM PinsCounted == Spec => []WrongPinsAreCounted
<1> DEFINE AllCounted == \A u \in Users : Counted(u)
<1>1. Init => AllCounted
  <2> SUFFICES ASSUME Init, NEW u \in Users PROVE Counted(u)
    OBVIOUS
  <2>1. /\ tries[u] = 0 /\ lost[u] = 0 /\ Pending(u) = {} /\ \A q \in Requests : ~Creates(q, u)
    BY DEF Init, Pending, Creates, Early
  <2>2. Live(db.user[u]) => db.user[u].failed \in Nat
    BY InitBase, CountTypes
  <2>3. Cardinality(Pending(u)) = 0
    BY <2>1, FS_EmptySet
  <2> QED BY <2>1, <2>2, <2>3 DEF Counted
<1>2. Base /\ AllCounted /\ [Next]_vars => AllCounted'
  BY CountedStep
<1>3. AllCounted => WrongPinsAreCounted
  BY DEF Counted, WrongPinsAreCounted, Pending
<1> HIDE DEF AllCounted
<1> QED BY <1>1, <1>2, <1>3, Grounds, PTL DEF Spec

-----------------------------------------------------------------------------
(* The amoeba of a site                                                      *)

\* Nothing has overlapped and nothing was cut off.
Alone == restarts = 0 /\ \A k \in Keys : raced[k] = 0

PrimaryOf(s) == \E l \in db.link : l.site = s /\ l.primary
Linking(s) == \E q \in Requests : pc[q] = "link" /\ Task(q).id = s

\* A request that was accepted still would be.
Known(q) ==
  Early(q) /\ Table(Task(q)) = "site" =>
    /\ Live(db.site[Task(q).id]) <=> ~Task(q).new
    /\ Task(q).op = "site" /\ ~Task(q).new => at[q].seen = db.site[Task(q).id]
    /\ Task(q).op = "unshare" => Task(q).body.amoeba # db.site[Task(q).id].amoeba

\* Between the row of a site and its link: a new site has no link yet, and one that
\* moves serves the amoeba it had.
Halfway(q) ==
  pc[q] = "link" =>
    /\ Task(q).op = "site" /\ Live(db.site[Task(q).id])
    /\ db.site[Task(q).id].amoeba = IF Task(q).new THEN Task(q).body.amoeba ELSE Patched(q).amoeba
    /\ Task(q).new => \A l \in db.link : l.site # Task(q).id
    /\ ~Task(q).new /\ PrimaryOf(Task(q).id) =>
         \E l \in db.link : l.site = Task(q).id /\ l.amoeba = at[q].seen.amoeba

Linked == \A l \in db.link : l.site \in Sites /\ Live(db.site[l.site])

\* The links follow the rows, as long as requests come one after the other.
Followed ==
  /\ Linked
  /\ \A q \in Requests : Known(q) /\ Halfway(q)
  /\ \A s \in Sites : PrimaryOf(s) /\ ~Linking(s) => Serves(s)

Faithful == restarts \in Nat /\ (Alone => Followed)

\* Who is alone was alone before.
LEMMA AloneBefore ==
  ASSUME Base, [Next]_vars, restarts \in Nat
  PROVE  restarts' \in Nat /\ (Alone' => Alone /\ ~Restart)
<1>1. \/ Restart /\ restarts' = restarts + 1
      \/ ~Restart /\ restarts' = restarts
  <2>1. ASSUME NEW q \in Requests, Write(q), ~LinkSite(q) PROVE restarts' = restarts
    BY <2>1, Writes DEF Wrote
  <2>2. ASSUME NEW q \in Requests, (\E k \in Keys : Start(q, k)) \/ Once(q) \/ Refused(q) \/ TellHistory(q) \/ Remember(q) \/ LinkSite(q)
        PROVE  restarts' = restarts
    BY <2>2 DEF Start, Once, Refused, TellHistory, Remember, LinkSite
  <2>3. ASSUME NEW u \in Users, ReadLogin(u) \/ LockExpires(u) PROVE restarts' = restarts
    BY <2>3 DEF ReadLogin, LockExpires
  <2>4. ASSUME NEW l \in logins, WrongPin(l) \/ RightPin(l) PROVE restarts' = restarts
    BY <2>4 DEF WrongPin, RightPin
  <2>5. CASE Restart
    BY <2>5 DEF Restart
  <2>6. CASE UNCHANGED vars
    BY <2>6 DEF vars, Restart
  <2>7. Restart => restarts' = restarts + 1
    BY DEF Restart
  <2> QED BY <2>1, <2>2, <2>3, <2>4, <2>5, <2>6, <2>7 DEF Next
<1>2. \A k \in Keys : raced[k] <= raced'[k] /\ raced[k] \in Nat /\ raced'[k] \in Nat
  BY MarkedStays
<1> QED BY <1>1, <1>2 DEF Alone

\* There is one request under way at most ...
LEMMA OneAtATime ==
  ASSUME Base, Met, Alone, NEW q \in Requests, pc[q] # "idle"
  PROVE  \A p \in Requests \ {q} : pc[p] = "idle"
<1>1. \A p \in Requests : pc[p] # "idle" => at[p].key \in Keys
  BY DEF Base, Typed
<1> QED BY <1>1 DEF Met, Alone

\* ... and while it goes on there is no other.
LEMMA GoesAlone ==
  ASSUME Base, Met, Alone, NEW q \in Requests, NEW from,
         NEW to \in {"idle", "once", "write", "link", "history", "record"}, Goto(q, from, to), from # "idle", sent' = sent
  PROVE  /\ pc[q] = from /\ pc'[q] = to /\ (to # "idle" => at'[q] = at[q] /\ Task(q)' = Task(q))
         /\ \A p \in Requests \ {q} : pc[p] = "idle" /\ pc'[p] = "idle"
BY GotoFacts, OneAtATime DEF Task, Base

\* Only the two handlers of sites go on to a link, and only those of tokens tell no
\* history.
LEMMA WritesOn ==
  ASSUME NEW q \in Requests, Write(q), ~LinkSite(q)
  PROVE  \E op, new : \E next \in {"link", "history", "record"} :
           /\ Wrote(q, op, new, next)
           /\ next = "record" <=> op \in {"token", "revoke"}
           /\ next = "link" => CreateSite(q) \/ UpdateSite(q)
<1>1. CASE CreatePerson(q) \/ UpdatePerson(q) \/ CreateUser(q) \/ UpdateUser(q) \/ ResetPin(q)
  <2>1. \E op \in {"person", "user", "pin"} : \E new : Wrote(q, op, new, "history")
    BY <1>1 DEF CreatePerson, UpdatePerson, CreateUser, UpdateUser, ResetPin
  <2> QED BY <2>1
<1>2. CASE CreateRoleAssignment(q) \/ UpdateRoleAssignment(q) \/ CreateAmoeba(q) \/ UpdateAmoeba(q)
  <2>1. \E op \in {"grant", "amoeba"} : \E new : Wrote(q, op, new, "history")
    BY <1>2 DEF CreateRoleAssignment, UpdateRoleAssignment, CreateAmoeba, UpdateAmoeba
  <2> QED BY <2>1
<1>3. CASE ClassifyAmoeba(q) \/ AssignSupervisor(q) \/ ShareSite(q) \/ UnshareSite(q)
  <2>1. \E op \in {"classify", "supervise", "share", "unshare"} : \E new : Wrote(q, op, new, "history")
    BY <1>3 DEF ClassifyAmoeba, AssignSupervisor, ShareSite, UnshareSite
  <2> QED BY <2>1
<1>4. CASE CreateSite(q) \/ UpdateSite(q)
  <2>1. \E new : Wrote(q, "site", new, "link")
    BY <1>4 DEF CreateSite, UpdateSite
  <2> QED BY <1>4, <2>1
<1>5. CASE IssueToken(q) \/ RevokeToken(q)
  <2>1. \E op \in {"token", "revoke"} : \E new : Wrote(q, op, new, "record")
    BY <1>5 DEF IssueToken, RevokeToken
  <2> QED BY <2>1
<1> QED BY <1>1, <1>2, <1>3, <1>4, <1>5 DEF Write

\* The links change in four steps only.
LEMMA LinkSteps ==
  ASSUME Base, [Next]_vars, ~Restart, ~\E q \in Requests : LinkSite(q) \/ ShareSite(q) \/ UnshareSite(q)
  PROVE  db'.link = db.link
<1>1. ASSUME NEW q \in Requests, Write(q) PROVE db'.link = db.link
  BY <1>1, OtherThanLinks
<1>2. CASE UNCHANGED db
  BY <1>2
<1>3. ASSUME NEW q \in Requests, (\E k \in Keys : Start(q, k)) \/ Once(q) \/ Refused(q) \/ TellHistory(q) \/ Remember(q)
      PROVE  UNCHANGED db
  BY <1>3 DEF Start, Once, Refused, TellHistory, Remember
<1>4. ASSUME NEW u \in Users, ReadLogin(u) \/ LockExpires(u) PROVE db'.link = db.link
  BY <1>4 DEF ReadLogin, LockExpires, Base, Rows, TableNames
<1>5. ASSUME NEW l \in logins, WrongPin(l) \/ RightPin(l) PROVE db'.link = db.link
  BY <1>5 DEF WrongPin, RightPin, Base, Rows, TableNames
<1> QED BY <1>1, <1>2, <1>3, <1>4, <1>5 DEF Next, vars

\* Steps that change neither rows nor links, nor who is between the two.
LEMMA SameSites ==
  ASSUME Base, [Next]_vars, Followed, ~\E q \in Requests, k \in Keys : Start(q, k),
         db'.site = db.site, db'.link = db.link, \A p \in Requests : pc'[p] = "link" <=> pc[p] = "link"
  PROVE  Followed'
<1>1. \A p \in Requests : pc'[p] # "idle" => pc[p] # "idle" /\ at'[p] = at[p] /\ Task(p)' = Task(p)
  BY KeepsOn
<1>2. \A p \in Requests : Early(p)' => Early(p)
  BY KeepsOn
<1>3. \A x : (PrimaryOf(x)' <=> PrimaryOf(x)) /\ (Serves(x)' <=> Serves(x))
  BY DEF PrimaryOf, Serves
<1>4. ASSUME NEW q \in Requests PROVE Known(q)'
  <2> SUFFICES ASSUME Early(q)' PROVE Known(q)'
    BY DEF Known
  <2>1. Early(q) /\ pc'[q] # "idle"
    BY <1>2 DEF Early
  <2>2. at'[q] = at[q] /\ Task(q)' = Task(q) /\ Known(q)
    BY <1>1, <2>1 DEF Followed
  <2> QED BY <2>1, <2>2 DEF Known
<1>5. ASSUME NEW q \in Requests PROVE Halfway(q)'
  <2> SUFFICES ASSUME pc'[q] = "link" PROVE Halfway(q)'
    BY DEF Halfway
  <2>1. at'[q] = at[q] /\ Task(q)' = Task(q) /\ Halfway(q) /\ pc[q] = "link"
    BY <1>1 DEF Followed
  <2>2. Patched(q)' = Patched(q)
    BY <2>1 DEF Patched
  <2> QED BY <1>3, <2>1, <2>2 DEF Halfway
<1>6. \A x : Linking(x)' <=> Linking(x)
  BY <1>1 DEF Linking
<1>7. \A x \in Sites : PrimaryOf(x)' /\ ~Linking(x)' => Serves(x)'
  BY <1>3, <1>6 DEF Followed
<1>8. Linked'
  BY DEF Followed, Linked
<1> QED BY <1>4, <1>5, <1>7, <1>8 DEF Followed

\* A request sets out alone, and has just read the row.
LEMMA StartSites ==
  ASSUME Base, Alone', Followed, NEW q \in Requests, NEW k \in Keys, Start(q, k)
  PROVE  Followed'
<1>1. /\ db' = db /\ pc'[q] = "once"
      /\ Task(q)' \in Tasks /\ Accepts(Task(q)') /\ at'[q].seen = Row(Task(q)')
      /\ \A p \in Requests \ {q} : pc'[p] = pc[p] /\ at'[p] = at[p]
  BY StartFacts
<1>2. InFlight = {}
  <2>1. InFlight # {} => raced'[k] > 0
    BY DEF Start, Base, Typed
  <2> QED BY <2>1 DEF Alone
<1>3. \A p \in Requests : pc[p] = "idle"
  BY <1>2 DEF InFlight
<1>4. \A p \in Requests : pc'[p] # "link" /\ (p # q => pc'[p] = "idle")
  BY <1>1, <1>3
<1>5. \A p \in Requests : Halfway(p)' /\ (p # q => Known(p)')
  BY <1>4 DEF Halfway, Known, Early
<1>6. Known(q)'
  <2> DEFINE t == Task(q)'
  <2>1. t \in Tasks /\ Accepts(t) /\ at'[q].seen = Row(t)
    BY <1>1
  <2>2. Table(t) = "site" => (Live(db.site[t.id]) <=> ~t.new) /\ at'[q].seen = db.site[t.id] /\ MaySite(t)
    BY <2>1 DEF Accepts, Row
  <2>3. t.op = "unshare" => Table(t) = "site" /\ t.body.amoeba # db.site[t.id].amoeba
    BY <2>2 DEF MaySite, Table
  <2> QED BY <1>1, <2>2, <2>3 DEF Known
<1>7. \A x : (PrimaryOf(x)' <=> PrimaryOf(x)) /\ (Serves(x)' <=> Serves(x)) /\ ~Linking(x)
  BY <1>1, <1>3 DEF PrimaryOf, Serves, Linking
<1>8. Linked' /\ \A x \in Sites : PrimaryOf(x)' => Serves(x)'
  BY <1>1, <1>7 DEF Followed, Linked
<1> QED BY <1>5, <1>6, <1>8 DEF Followed

\* The row of a site: a new one had no link, an old one served its amoeba.
LEMMA RowSites ==
  ASSUME Base, [Next]_vars, Met, Alone, Followed, NEW q \in Requests, CreateSite(q) \/ UpdateSite(q)
  PROVE  Followed'
<1>0. PICK x \in Sites : x = Task(q).id
  BY SiteWritten
<1>1. /\ pc[q] = "write" /\ pc'[q] = "link" /\ Task(q).op = "site"
      /\ db'.site = [db.site EXCEPT ![x] = db'.site[x]]
      /\ db'.site[x] = (IF Task(q).new THEN Made(q) ELSE Patched(q)) /\ db'.site[x] \in SiteRow
      /\ Task(q).new => db'.site[x].amoeba = Task(q).body.amoeba
      /\ db'.link = db.link
  BY <1>0, SiteWritten
<1>2. Goto(q, "write", "link") /\ sent' = sent
  BY DEF CreateSite, UpdateSite, Wrote, clients
<1>3. /\ at'[q] = at[q] /\ Task(q)' = Task(q)
      /\ \A p \in Requests \ {q} : pc[p] = "idle" /\ pc'[p] = "idle"
  BY <1>2, GoesAlone
<1>4. db'.site[x].status = "active" /\ \A y \in Sites \ {x} : db'.site[y] = db.site[y]
  BY <1>1 DEF SiteRow, Base, Rows
<1>5. Known(q) /\ Early(q) /\ Table(Task(q)) = "site"
  BY <1>1 DEF Followed, Early, Table
<1>6. Linked'
  BY <1>1, <1>4 DEF Followed, Linked, Live
<1>7. \A y : PrimaryOf(y)' <=> PrimaryOf(y)
  BY <1>1 DEF PrimaryOf
<1>8. ~Linking(x)
  BY <1>1, <1>3 DEF Linking
<1>9. Halfway(q)'
  <2>1. CASE Task(q).new
    <3>1. \A l \in db.link : l.site # x
      BY <1>0, <1>5, <2>1 DEF Known, Followed, Linked
    <3> QED BY <1>0, <1>1, <1>3, <1>4, <2>1, <3>1 DEF Halfway, Live
  <2>2. CASE ~Task(q).new
    <3>1. at[q].seen = db.site[x]
      BY <1>0, <1>1, <1>5, <2>2 DEF Known
    <3>2. PrimaryOf(x) => Serves(x)
      BY <1>8 DEF Followed
    <3>3. PrimaryOf(x) => \E l \in db.link : l.site = x /\ l.amoeba = at[q].seen.amoeba
      BY <3>1, <3>2 DEF Serves
    <3>4. Patched(q)' = Patched(q)
      BY <1>3 DEF Patched
    <3> QED BY <1>0, <1>1, <1>3, <1>4, <1>7, <2>2, <3>3, <3>4 DEF Halfway, Live
  <2> QED BY <2>1, <2>2
<1>10. \A p \in Requests : Known(p)' /\ (p # q => Halfway(p)')
  BY <1>1, <1>3 DEF Known, Halfway, Early
<1>11. ASSUME NEW y \in Sites, PrimaryOf(y)', ~Linking(y)' PROVE Serves(y)'
  <2>1. y # x
    BY <1>0, <1>1, <1>3, <1>11 DEF Linking
  <2>2. ~Linking(y)
    BY <1>1, <1>3 DEF Linking
  <2>3. Serves(y)
    BY <1>7, <1>11, <2>2 DEF Followed
  <2> QED BY <1>1, <1>4, <2>1, <2>3 DEF Serves
<1> QED BY <1>6, <1>9, <1>10, <1>11 DEF Followed

\* A request alone that is past its row, when the links of one site have changed.
LEMMA LinksSites ==
  ASSUME Base, Met, Alone, Followed, NEW q \in Requests, NEW from, NEW to \in {"idle", "history"},
         Goto(q, from, to), from # "idle", sent' = sent, db'.site = db.site, NEW x \in Sites,
         \A y \in Sites \ {x} : \A l : l.site = y => (l \in db'.link <=> l \in db.link),
         Task(q).id = x, Linked', PrimaryOf(x)' => Serves(x)'
  PROVE  Followed'
<1>1. /\ pc[q] = from /\ pc'[q] = to
      /\ \A p \in Requests \ {q} : pc[p] = "idle" /\ pc'[p] = "idle"
  BY GoesAlone
<1>2. \A p \in Requests : Known(p)' /\ Halfway(p)'
  BY <1>1 DEF Known, Halfway, Early
<1>3. ASSUME NEW y \in Sites, PrimaryOf(y)' PROVE Serves(y)'
  <2>1. CASE y # x
    <3>1. PrimaryOf(y)
      BY <1>3, <2>1 DEF PrimaryOf
    <3>2. ~Linking(y)
      BY <1>1, <2>1 DEF Linking
    <3>3. Serves(y)
      BY <3>1, <3>2 DEF Followed
    <3> QED BY <2>1, <3>3 DEF Serves
  <2> QED BY <1>3, <2>1
<1> QED BY <1>2, <1>3 DEF Followed

\* The link of a site, as the row says, unless it serves that amoeba already.
LEMMA LinkSites ==
  ASSUME Base, Met, Alone, Followed, NEW q \in Requests, LinkSite(q)
  PROVE  Followed'
<1> DEFINE t == Task(q)
           own == {l \in db.link : l.site = t.id /\ l.primary}
           to == IF t.new THEN [site |-> t.id, amoeba |-> t.body.amoeba, primary |-> t.body.primary]
                          ELSE [site |-> t.id, amoeba |-> Patched(q).amoeba, primary |-> TRUE]
           moves == t.new \/ (Patched(q).amoeba # at[q].seen.amoeba /\ own # {})
           hit == \E l \in db.link \ own : l.site = t.id /\ l.amoeba = to.amoeba
<1>1. /\ pc[q] = "link" /\ sent' = sent
      /\ Goto(q, "link", IF moves /\ hit THEN "idle" ELSE "history")
      /\ db' = IF moves /\ ~hit THEN [db EXCEPT !.link = (@ \ own) \cup {to}] ELSE db
  BY Zenon DEF LinkSite
<1>2. /\ t.op = "site" /\ Live(db.site[t.id])
      /\ db.site[t.id].amoeba = (IF t.new THEN t.body.amoeba ELSE Patched(q).amoeba)
      /\ t.new => \A l \in db.link : l.site # t.id
      /\ ~t.new /\ PrimaryOf(t.id) => \E l \in db.link : l.site = t.id /\ l.amoeba = at[q].seen.amoeba
  BY <1>1 DEF Followed, Halfway
<1>3. t \in Tasks /\ Table(t) = "site"
  BY <1>1, <1>2 DEF Base, Underway, Table
<1>4. PICK x \in Sites : x = t.id
  BY <1>3, TaskShapes
<1>5. to.site = x /\ to.amoeba = db.site[x].amoeba
  BY <1>2, <1>4
<1>6. \A l \in own : l.site = x /\ l \in db.link
  BY <1>4
<1>7. PrimaryOf(x) <=> own # {}
  BY <1>4 DEF PrimaryOf
<1>8. hit => Serves(x)
  BY <1>4, <1>5 DEF Serves
<1>9. ~moves => (PrimaryOf(x) => Serves(x))
  BY <1>2, <1>4, <1>7 DEF Serves
<1>10. \E after \in {"idle", "history"} : Goto(q, "link", after)
  BY <1>1
<1>11. Linked /\ Live(db.site[x])
  BY <1>2, <1>4 DEF Followed
<1> HIDE DEF own, to, moves, hit
<1>12. CASE moves /\ ~hit
  <2>1. db'.link = (db.link \ own) \cup {to} /\ db'.site = db.site
    BY <1>1, <1>12 DEF Base, Rows, TableNames
  <2>2. Serves(x)'
    BY <1>5, <2>1 DEF Serves
  <2>3. \A y \in Sites \ {x} : \A l : l.site = y => (l \in db'.link <=> l \in db.link)
    BY <1>5, <1>6, <2>1
  <2>4. Linked'
    BY <1>5, <1>11, <2>1 DEF Linked
  <2> QED BY <1>1, <1>4, <1>10, <2>1, <2>2, <2>3, <2>4, LinksSites
<1>13. CASE ~(moves /\ ~hit)
  <2>1. db' = db
    BY <1>1, <1>13
  <2>2. PrimaryOf(x)' => Serves(x)'
    BY <1>8, <1>9, <1>13, <2>1 DEF PrimaryOf, Serves
  <2>3. Linked'
    BY <1>11, <2>1 DEF Linked
  <2> QED BY <1>1, <1>4, <1>10, <2>1, <2>2, <2>3, LinksSites
<1> QED BY <1>12, <1>13

\* Sharing a site adds amoebas; taking one back never takes that of the row.
LEMMA ShareSites ==
  ASSUME Base, Met, Alone, Followed, NEW q \in Requests, ShareSite(q) \/ UnshareSite(q)
  PROVE  Followed'
<1>1. /\ Task(q).op \in {"share", "unshare"} /\ Task(q).new = FALSE
      /\ Goto(q, "write", "history") /\ sent' = sent /\ pc[q] = "write"
  BY DEF ShareSite, UnshareSite, Wrote, clients
<1>2. Task(q) \in Tasks /\ Table(Task(q)) = "site" /\ Known(q) /\ Early(q)
  BY <1>1 DEF Base, Underway, Table, Followed, Early
<1>3. PICK x \in Sites : x = Task(q).id
  BY <1>2, TaskShapes
<1>4. /\ Live(db.site[x]) /\ (Task(q).op = "unshare" => Task(q).body.amoeba # db.site[x].amoeba)
  BY <1>1, <1>2, <1>3 DEF Known
<1>5. ~Linking(x)
  <2>1. \A p \in Requests \ {q} : pc[p] = "idle"
    BY <1>1, GoesAlone
  <2> QED BY <1>1, <2>1 DEF Linking
<1>6. Linked /\ (PrimaryOf(x) => Serves(x))
  BY <1>5 DEF Followed
<1> DEFINE b == Task(q).body.amoeba
           more == db.link \cup {[site |-> x, amoeba |-> b, primary |-> FALSE]}
           less == {l \in db.link : l.site # x \/ l.amoeba # b \/ l.primary}
<1>7. /\ db'.site = db.site
      /\ db'.link \in {db.link, more} \/ (b # db.site[x].amoeba /\ db'.link = less)
  <2>1. CASE ShareSite(q)
    <3>1. db' = db \/ db' = [db EXCEPT !.link = more]
      BY <1>3, <2>1 DEF ShareSite
    <3> HIDE DEF more
    <3> QED BY <3>1 DEF Base, Rows, TableNames
  <2>2. CASE UnshareSite(q)
    <3>1. db' = [db EXCEPT !.link = less] /\ Task(q).op = "unshare"
      BY <1>3, <2>2 DEF UnshareSite, Wrote
    <3> HIDE DEF less
    <3> QED BY <1>4, <3>1 DEF Base, Rows, TableNames
  <2> QED BY <2>1, <2>2
<1>8. \A y \in Sites \ {x} : \A l : l.site = y => (l \in db'.link <=> l \in db.link)
  BY <1>7
<1>9. Linked'
  BY <1>4, <1>6, <1>7 DEF Linked
<1>10. PrimaryOf(x)' => PrimaryOf(x)
  BY <1>7 DEF PrimaryOf
<1>11. Serves(x) => Serves(x)'
  BY <1>7 DEF Serves
<1> HIDE DEF b, more, less
<1> QED BY <1>1, <1>3, <1>6, <1>7, <1>8, <1>9, <1>10, <1>11, LinksSites

\* Links and rows in every step.
LEMMA FaithfulStep ==
  ASSUME Base, [Next]_vars, Met, Faithful
  PROVE  Faithful'
<1>1. restarts' \in Nat /\ (Alone' => Alone /\ ~Restart)
  BY AloneBefore DEF Faithful
<1> SUFFICES ASSUME Alone' PROVE Followed'
  BY <1>1 DEF Faithful
<1>2. Alone /\ Followed /\ ~Restart
  BY <1>1 DEF Faithful
<1>3. ASSUME NEW q \in Requests, NEW k \in Keys, Start(q, k) PROVE Followed'
  BY <1>2, <1>3, StartSites
<1>4. ASSUME NEW q \in Requests, CreateSite(q) \/ UpdateSite(q) PROVE Followed'
  BY <1>2, <1>4, RowSites
<1>5. ASSUME NEW q \in Requests, LinkSite(q) PROVE Followed'
  BY <1>2, <1>5, LinkSites
<1>6. ASSUME NEW q \in Requests, ShareSite(q) \/ UnshareSite(q) PROVE Followed'
  BY <1>2, <1>6, ShareSites
<1>7. ASSUME ~\E q \in Requests, k \in Keys : Start(q, k),
             ~\E q \in Requests : CreateSite(q) \/ UpdateSite(q) \/ LinkSite(q) \/ ShareSite(q) \/ UnshareSite(q)
      PROVE  Followed'
  <2>1. db'.site = db.site /\ db'.link = db.link
    BY <1>2, <1>7, SiteSteps, LinkSteps
  <2>2. ASSUME NEW q \in Requests, NEW from \in {"once", "write", "history", "record"},
               NEW to \in {"idle", "write", "history", "record"}, Goto(q, from, to)
        PROVE  \A p \in Requests : pc'[p] = "link" <=> pc[p] = "link"
    BY <2>2, GotoFacts DEF Base
  <2>3. ASSUME NEW q \in Requests, Once(q) \/ Refused(q) \/ TellHistory(q) \/ Remember(q)
        PROVE  \A p \in Requests : pc'[p] = "link" <=> pc[p] = "link"
    BY <2>2, <2>3 DEF Once, Refused, TellHistory, Remember
  <2>4. ASSUME NEW q \in Requests, Write(q)
        PROVE  \A p \in Requests : pc'[p] = "link" <=> pc[p] = "link"
    <3>1. \E op, new : \E next \in {"history", "record"} : Wrote(q, op, new, next)
      BY <1>7, <2>4, WritesOn
    <3> QED BY <2>2, <3>1 DEF Wrote
  <2>5. ASSUME (\E u \in Users : ReadLogin(u) \/ LockExpires(u)) \/ (\E l \in logins : WrongPin(l) \/ RightPin(l)) \/ UNCHANGED vars
        PROVE  \A p \in Requests : pc'[p] = "link" <=> pc[p] = "link"
    <3>1. UNCHANGED <<pc, at, ran, raced, died, record>>
      BY <2>5, OtherSteps, Zenon
    <3> QED BY <3>1
  <2>6. \A p \in Requests : pc'[p] = "link" <=> pc[p] = "link"
    <3> DEFINE Same == \A p \in Requests : pc'[p] = "link" <=> pc[p] = "link"
    <3> HIDE DEF Same
    <3>1. \A q \in Requests : Once(q) \/ Refused(q) \/ TellHistory(q) \/ Remember(q) \/ Write(q) => Same
      BY <2>3, <2>4 DEF Same
    <3>2. (\E u \in Users : ReadLogin(u) \/ LockExpires(u)) \/ (\E l \in logins : WrongPin(l) \/ RightPin(l)) \/ UNCHANGED vars => Same
      BY <2>5 DEF Same
    <3>3. Same
      BY <1>2, <1>7, <3>1, <3>2, Zenon DEF Next
    <3> QED BY <3>3 DEF Same
  <2> QED BY <1>2, <1>7, <2>1, <2>6, SameSites
<1> QED BY <1>3, <1>4, <1>5, <1>6, <1>7

\* The demo sites serve the amoebas of their rows.
LEMMA InitFaithful ==
  ASSUME Init
  PROVE  Faithful
<1>1. /\ db = Seeded /\ restarts = 0 /\ \A q \in Requests : pc[q] = "idle"
  BY DEF Init
<1>2. DOMAIN DemoSite = DOMAIN DemoSites /\ DOMAIN DemoSites \subseteq Sites
  BY IdentityAssumption DEF DemoSite
<1>3. \A x \in DOMAIN DemoSites : db.site[x] = DemoSite[x]
  BY <1>1, <1>2 DEF Seeded, Over
<1>4. ASSUME NEW x \in DOMAIN DemoSites
      PROVE  /\ Over([site |-> x], DemoSites[x]).site = x
             /\ Over([site |-> x], DemoSites[x]).amoeba = db.site[x].amoeba
             /\ Live(db.site[x])
  <2>1. DOMAIN DemoSites[x] = {"amoeba", "primary"}
    BY IdentityAssumption
  <2>2. Over([site |-> x], DemoSites[x]).site = x
    BY DEF Over
  <2>3. Over([site |-> x], DemoSites[x]).amoeba = DemoSites[x].amoeba
    BY <2>1 DEF Over
  <2>4. DemoSite[x] \in SiteRow /\ DemoSite[x].amoeba = DemoSites[x].amoeba
    BY SeededSite
  <2>5. Live(db.site[x])
    BY <1>3, <2>4 DEF SiteRow, Live
  <2> QED BY <1>3, <2>2, <2>3, <2>4, <2>5
<1>5. \A l \in db.link : \E x \in DOMAIN DemoSites : l = Over([site |-> x], DemoSites[x])
  BY <1>1 DEF Seeded
<1>6. \A l \in db.link : l.site \in DOMAIN DemoSites /\ l.amoeba = db.site[l.site].amoeba /\ Live(db.site[l.site])
  <2> SUFFICES ASSUME NEW l \in db.link
               PROVE  l.site \in DOMAIN DemoSites /\ l.amoeba = db.site[l.site].amoeba /\ Live(db.site[l.site])
    OBVIOUS
  <2>1. PICK x \in DOMAIN DemoSites : l = Over([site |-> x], DemoSites[x])
    BY <1>5
  <2> QED BY <1>4, <2>1
<1>7. Linked /\ \A x : PrimaryOf(x) => Serves(x)
  BY <1>2, <1>6 DEF Linked, PrimaryOf, Serves
<1>8. \A q \in Requests : Known(q) /\ Halfway(q)
  BY <1>1 DEF Known, Halfway, Early
<1> QED BY <1>1, <1>7, <1>8 DEF Faithful, Followed

\* While no request overlapped with another and none was cut off, a site with a primary
\* link serves the amoeba of its row, wherever it was moved, shared and unshared
\* (SiteServesItsAmoeba).
THEOREM SitesServe == Spec => []SiteServesItsAmoeba
<1>1. Base /\ Faithful => SiteServesItsAmoeba
  <2> SUFFICES ASSUME Base, Faithful, Quiet, NEW x \in Sites, PrimaryOf(x) PROVE Serves(x)
    BY DEF SiteServesItsAmoeba, PrimaryOf
  <2>1. /\ DOMAIN raced = Keys /\ \A k \in Keys : raced[k] \in Nat
        /\ DOMAIN lost = Users /\ \A u \in Users : lost[u] \in Nat
    BY DEF Base, Typed, Logins
  <2>2. /\ IsFiniteSet(Keys) /\ IsFiniteSet(Users)
    BY IdentityAssumption
  <2>3. SumFunctionOnSet(raced, Keys) \in Nat /\ SumFunctionOnSet(lost, Users) \in Nat
    BY <2>1, <2>2, SumType
  <2>4. SumFunctionOnSet(raced, Keys) + SumFunctionOnSet(lost, Users) = 0
    BY <2>1 DEF Quiet, Races, SumFunction
  <2>5. SumFunctionOnSet(raced, Keys) = 0
    BY <2>3, <2>4
  <2>6. \A k \in Keys : raced[k] = 0
    BY <2>1, <2>2, <2>5, SumZero
  <2>7. Followed
    BY <2>6 DEF Faithful, Alone, Quiet
  <2>8. ~Linking(x)
    BY DEF Linking, Quiet, InFlight
  <2> QED BY <2>7, <2>8 DEF Followed
<1>2. Init => Faithful
  BY InitFaithful
<1>3. Base /\ Separate /\ Faithful /\ [Next]_vars => Faithful'
  BY FaithfulStep DEF Separate
<1> QED BY <1>1, <1>2, <1>3, Grounds, PTL DEF Spec

-----------------------------------------------------------------------------
(* The history                                                               *)

\* Requests that have written a row and have its history entry before them.
Telling == {q \in Requests : pc[q] \in {"link", "history"}}

\* What is not told of is about to be, or was cut off.
Told ==
  /\ untold \in Int /\ IsFiniteSet(Telling)
  /\ untold <= Cardinality(Telling) + SumFunctionOnSet(died, Keys)

\* Requests cut off are natural numbers, and so is their sum.
LEMMA DiedSum ==
  ASSUME Typed
  PROVE  /\ \A k \in Keys : died[k] \in Nat
         /\ SumFunctionOnSet(died, Keys) \in Nat /\ SumFunction(died) = SumFunctionOnSet(died, Keys)
<1>1. DOMAIN died = Keys /\ \A k \in Keys : died[k] \in Nat
  BY DEF Typed
<1>2. SumFunctionOnSet(died, Keys) \in Nat
  BY <1>1, SumType, IdentityAssumption
<1>3. SumFunction(died) = SumFunctionOnSet(died, Keys)
  BY <1>1 DEF SumFunction
<1> QED BY <1>1, <1>2, <1>3

\* A request that goes from one statement to the next.
LEMMA ToldGoes ==
  ASSUME Base, Told, NEW q \in Requests, NEW from,
         NEW to \in {"idle", "once", "write", "link", "history", "record"}, Goto(q, from, to)
  PROVE  /\ from \in {"once", "write"} /\ to \in {"link", "history"} =>
              IsFiniteSet(Telling') /\ Cardinality(Telling') = Cardinality(Telling) + 1
         /\ from \in {"link", "history"} /\ to \in {"idle", "record"} =>
              IsFiniteSet(Telling') /\ Cardinality(Telling') = Cardinality(Telling) - 1
         /\ (from \in {"link", "history"} <=> to \in {"link", "history"}) => Telling' = Telling
<1>1. /\ pc[q] = from /\ pc'[q] = to /\ \A p \in Requests \ {q} : pc'[p] = pc[p]
  BY GotoFacts DEF Base
<1>2. IsFiniteSet(Telling)
  BY DEF Told
<1>3. ASSUME from \in {"once", "write"}, to \in {"link", "history"}
      PROVE  IsFiniteSet(Telling') /\ Cardinality(Telling') = Cardinality(Telling) + 1
  <2>1. Telling' = Telling \cup {q} /\ q \notin Telling
    BY <1>1, <1>3 DEF Telling
  <2> QED BY <1>2, <2>1, FS_AddElement
<1>4. ASSUME from \in {"link", "history"}, to \in {"idle", "record"}
      PROVE  IsFiniteSet(Telling') /\ Cardinality(Telling') = Cardinality(Telling) - 1
  <2>1. Telling' = Telling \ {q} /\ q \in Telling
    BY <1>1, <1>4 DEF Telling
  <2> QED BY <1>2, <2>1, FS_RemoveElement
<1>5. (from \in {"link", "history"} <=> to \in {"link", "history"}) => Telling' = Telling
  BY <1>1 DEF Telling
<1> QED BY <1>3, <1>4, <1>5

\* A restart cuts off every request that has a history entry before it, and counts it.
LEMMA ToldRestart ==
  ASSUME Base, Paid, Told, Restart
  PROVE  Told'
<1> DEFINE busy == [k \in Keys |-> Busy(k)]
           many == [k \in Keys |-> Cardinality(Busy(k))]
<1>1. \A k \in Keys : IsFiniteSet(busy[k]) /\ many[k] = Cardinality(busy[k])
  BY DEF Paid, PaidFor
<1>2. \A k \in Keys : many[k] \in Nat /\ died[k] \in Nat /\ died'[k] = died[k] + many[k]
  BY <1>1, FS_CardinalityType DEF Restart, Base, Typed
<1>3. Telling \subseteq Together(busy, Keys)
  <2> SUFFICES ASSUME NEW q \in Telling PROVE q \in Together(busy, Keys)
    OBVIOUS
  <2>1. pc[q] # "idle" /\ q \in Requests /\ at[q].key \in Keys
    BY DEF Telling, Base, Typed
  <2>2. q \in busy[at[q].key]
    BY <2>1 DEF Busy
  <2> QED BY <2>1, <2>2 DEF Together
<1> HIDE DEF busy, many
<1>4. IsFiniteSet(Together(busy, Keys)) /\ Cardinality(Together(busy, Keys)) <= SumFunctionOnSet(many, Keys)
  BY <1>1, SumOfParts, IdentityAssumption
<1>5. Cardinality(Telling) <= Cardinality(Together(busy, Keys))
  BY <1>3, <1>4, FS_Subset
<1>6. /\ Cardinality(Telling) \in Nat /\ Cardinality(Together(busy, Keys)) \in Nat
  BY <1>4, FS_CardinalityType DEF Told
<1>7. SumFunctionOnSet(many, Keys) \in Nat /\ SumFunctionOnSet(died, Keys) \in Nat
  BY <1>2, SumType, IdentityAssumption
<1>8. SumFunctionOnSet(died', Keys) = SumFunctionOnSet(died, Keys) + SumFunctionOnSet(many, Keys)
  <2>1. ASSUME NEW d, \A k \in Keys : d[k] = died[k] + many[k]
        PROVE  SumFunctionOnSet(d, Keys) = SumFunctionOnSet(died, Keys) + SumFunctionOnSet(many, Keys)
    BY <1>2, <2>1, SumPlus, IdentityAssumption
  <2> QED BY <1>2, <2>1
<1>9. untold' = untold /\ Telling' = {}
  BY DEF Restart, Telling
<1>10. IsFiniteSet(Telling') /\ Cardinality(Telling') = 0
  BY <1>9, FS_EmptySet
<1> QED BY <1>4, <1>5, <1>6, <1>7, <1>8, <1>9, <1>10 DEF Told

\* What is told in every step.
LEMMA ToldStep ==
  ASSUME Base, Paid, Told, [Next]_vars
  PROVE  Told'
<1>1. /\ untold \in Int /\ IsFiniteSet(Telling) /\ Cardinality(Telling) \in Nat
      /\ untold <= Cardinality(Telling) + SumFunctionOnSet(died, Keys)
      /\ SumFunctionOnSet(died, Keys) \in Nat
  BY FS_CardinalityType, DiedSum DEF Told, Base
<1>2. CASE Restart
  BY <1>2, ToldRestart
<1>3. ASSUME UNCHANGED <<untold, died>>, Telling' = Telling PROVE Told'
  BY <1>3 DEF Told
<1>4. ASSUME NEW q \in Requests, NEW k \in Keys, Start(q, k) PROVE Told'
  <2>1. UNCHANGED <<untold, died>>
    BY <1>4, StartFacts
  <2>2. /\ pc[q] = "idle" /\ pc'[q] = "once" /\ \A p \in Requests \ {q} : pc'[p] = pc[p]
    BY <1>4, StartFacts
  <2>3. Telling' = Telling
    BY <2>2 DEF Telling
  <2> QED BY <1>3, <2>1, <2>3
<1>5. ASSUME NEW q \in Requests, Once(q) \/ Refused(q) \/ Remember(q) PROVE Told'
  <2>1. UNCHANGED <<untold, died>>
    BY <1>5 DEF Once, Refused, Remember, clients
  <2>2. \E from \in {"once", "write", "record"} : \E to \in {"idle", "write"} : Goto(q, from, to)
    BY <1>5 DEF Once, Refused, Remember
  <2>3. Telling' = Telling
    BY <2>2, ToldGoes
  <2> QED BY <1>3, <2>1, <2>3
<1>6. ASSUME NEW q \in Requests, TellHistory(q) PROVE Told'
  <2>1. untold' = untold - 1 /\ died' = died /\ Goto(q, "history", "record")
    BY <1>6 DEF TellHistory, clients
  <2>2. IsFiniteSet(Telling') /\ Cardinality(Telling') = Cardinality(Telling) - 1
    BY <2>1, ToldGoes
  <2> QED BY <1>1, <2>1, <2>2 DEF Told
<1>7. ASSUME NEW q \in Requests, LinkSite(q) PROVE Told'
  <2>1. /\ untold' = untold
        /\ \/ Goto(q, "link", "history") /\ died' = died
           \/ Goto(q, "link", "idle") /\ died' = [died EXCEPT ![at[q].key] = @ + 1]
    BY <1>7, Zenon DEF LinkSite
  <2>2. CASE Goto(q, "link", "history") /\ died' = died
    <3>1. Telling' = Telling
      BY <2>2, ToldGoes
    <3> QED BY <1>3, <2>1, <2>2, <3>1
  <2>3. CASE Goto(q, "link", "idle") /\ died' = [died EXCEPT ![at[q].key] = @ + 1]
    <3>1. IsFiniteSet(Telling') /\ Cardinality(Telling') = Cardinality(Telling) - 1
      BY <2>3, ToldGoes
    <3>2. PICK k \in Keys : k = at[q].key
      BY <2>3 DEF Goto, Base, Typed
    <3>3. /\ \A x \in Keys : died[x] \in Nat /\ died'[x] \in Nat
          /\ died'[k] = died[k] + 1 /\ \A x \in Keys \ {k} : died'[x] = died[x]
      BY <2>3, <3>2 DEF Base, Typed
    <3>4. ASSUME NEW d, \A x \in Keys : d[x] \in Nat, d[k] = died[k] + 1, \A x \in Keys \ {k} : d[x] = died[x]
          PROVE  SumFunctionOnSet(d, Keys) = SumFunctionOnSet(died, Keys) - died[k] + d[k]
      BY <3>3, <3>4, SumChange, IdentityAssumption
    <3>5. SumFunctionOnSet(died', Keys) = SumFunctionOnSet(died, Keys) + 1
      BY <1>1, <3>3, <3>4
    <3> QED BY <1>1, <2>1, <3>1, <3>5 DEF Told
  <2> QED BY <2>1, <2>2, <2>3
<1>8. ASSUME NEW q \in Requests, Write(q), ~LinkSite(q) PROVE Told'
  <2>1. PICK op, new : \E next \in {"link", "history", "record"} :
          /\ Wrote(q, op, new, next)
          /\ next = "record" <=> op \in {"token", "revoke"}
    BY <1>8, WritesOn
  <2>2. PICK next \in {"link", "history", "record"} :
          /\ Wrote(q, op, new, next)
          /\ next = "record" <=> op \in {"token", "revoke"}
    BY <2>1
  <2>3. /\ Goto(q, "write", next) /\ died' = died
        /\ untold' = untold + IF next = "record" THEN 0 ELSE 1
    BY <2>2 DEF Wrote, clients
  <2>4. CASE next = "record"
    <3>1. Telling' = Telling
      BY <2>3, <2>4, ToldGoes
    <3> QED BY <1>1, <2>3, <2>4, <3>1 DEF Told
  <2>5. CASE next # "record"
    <3>1. IsFiniteSet(Telling') /\ Cardinality(Telling') = Cardinality(Telling) + 1
      BY <2>3, <2>5, ToldGoes
    <3> QED BY <1>1, <2>3, <2>5, <3>1 DEF Told
  <2> QED BY <2>4, <2>5
<1>9. ASSUME NEW u \in Users, ReadLogin(u) \/ LockExpires(u) PROVE UNCHANGED <<untold, died, pc>>
  BY <1>9 DEF ReadLogin, LockExpires, clients
<1>10. ASSUME NEW l \in logins, WrongPin(l) \/ RightPin(l) PROVE UNCHANGED <<untold, died, pc>>
  BY <1>10 DEF WrongPin, RightPin, clients
<1>11. CASE UNCHANGED <<untold, died, pc>>
  <2>1. Telling' = Telling
    BY <1>11 DEF Telling
  <2> QED BY <1>3, <1>11, <2>1
<1>12. CASE UNCHANGED vars
  BY <1>11, <1>12 DEF vars, clients
<1> QED BY <1>2, <1>4, <1>5, <1>6, <1>7, <1>8, <1>9, <1>10, <1>11, <1>12 DEF Next

\* Every change of a person, a login, an assignment, an amoeba or a site is told in
\* audit_history, unless the request is still on its way there or was cut off or failed
\* before it (HistoryTellsAll).
THEOREM HistoryTold == Spec => []HistoryTellsAll
<1>1. Init => Told
  <2> SUFFICES ASSUME Init PROVE Told
    OBVIOUS
  <2>1. untold = 0 /\ Telling = {}
    BY DEF Init, Telling
  <2>2. IsFiniteSet(Telling) /\ Cardinality(Telling) = 0
    BY <2>1, FS_EmptySet
  <2>3. SumFunctionOnSet(died, Keys) \in Nat
    BY InitBase, DiedSum DEF Base
  <2> QED BY <2>1, <2>2, <2>3 DEF Told
<1>2. Base /\ Paid /\ Told /\ [Next]_vars => Told'
  BY ToldStep
<1>3. Base /\ Told => HistoryTellsAll
  BY DiedSum DEF Base, Told, HistoryTellsAll, Telling
<1> QED BY <1>1, <1>2, <1>3, Grounds, PTL DEF Spec

=============================================================================
