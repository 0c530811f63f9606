---------------------------- MODULE AccessProofs ----------------------------
(***************************************************************************)
(* Access, for every number of riders, amoebas, people, processes, reads in  *)
(* flight, changes and outages: whatever a cache holds, a rider is only ever *)
(* put under somebody who has led his amoeba, and no query shows a caller    *)
(* more than his assignments reach.                                          *)
(*                                                                         *)
(* And the consoles, for every number of rows, loads, handlers and calls     *)
(* without an answer, whoever of those a console is for looks at it: they    *)
(* are refused nothing, no dialog is dropped, what they are told is done is  *)
(* done, and once, and at rest the screen shows what the API has done.       *)
(***************************************************************************)
EXTENDS Access, Consoles, TLAPS

Leads == People \cup {NoOne}
Maps  == [Amoebas -> Leads]

ReadStates  == {Idle} \cup [at : {"answer"}, map : Maps]
                  \cup [at : {"write"}, map : Maps, left : SUBSET Amoebas]
PostStates  == {Idle} \cup [at : {"write"}, rider : Riders, amoeba : Amoebas, blind : BOOLEAN, lead : Leads]

\* What the variables range over.
TypeOK ==
  /\ lead \in Maps
  /\ ledBy \in [Amoebas -> SUBSET Leads]
  /\ up \in BOOLEAN
  /\ cache \in [Processes -> [age : {"none", "fresh", "stale"}, map : Maps]]
  /\ reading \in [Callers -> ReadStates]
  /\ posting \in PostStates
  /\ amoebaOf \in [Riders -> Amoebas]
  /\ mirror \in [Riders -> Leads]
  /\ placed \in [Riders -> [lead : Leads, post : Amoebas]]
  /\ blind \subseteq Riders

LedNow == \A a \in Amoebas : lead[a] \in ledBy[a]

\* A cache that was never filled names nobody; a filled one, somebody who led.
CachesLed ==
  \A p \in Processes, a \in Amoebas :
    IF cache[p].age = "none" THEN cache[p].map[a] = NoOne ELSE cache[p].map[a] \in ledBy[a]

\* What a read is about to mirror, and what an update is about to write.
ReadsLed == \A c \in Callers : reading[c] # Idle => \A a \in Amoebas : reading[c].map[a] \in ledBy[a]
PostLed ==
  posting # Idle => \/ posting.lead \in ledBy[posting.amoeba]
                    \/ posting.blind /\ posting.lead = NoOne

\* What the list of positions says was so once: it names somebody who led, or nobody.
PlacesLed == \A r \in Riders : placed[r].lead \in ledBy[placed[r].post] \cup {NoOne}

IInv == PlacesLed /\ TypeOK /\ LedNow /\ CachesLed /\ ReadsLed /\ PostLed /\ MirrorNamesALead

------------------------------------------------------------------------------
(* The shapes of a read and of an update in progress *)

\* A read past its first step holds the map Foundation answered.
LEMMA ReadShapes ==
  ASSUME NEW x \in ReadStates, x.at # "idle"
  PROVE  x.map \in Maps /\ (x.at = "write" => x.left \in SUBSET Amoebas)
BY DEF ReadStates, Idle

\* What is idle is told by its step.
LEMMA IdleAt ==
  /\ Idle.at = "idle"
  /\ \A x \in ReadStates : x = Idle <=> x.at = "idle"
  /\ \A x \in PostStates : x = Idle <=> x.at = "idle"
BY DEF ReadStates, PostStates, Idle

\* A read that has its answer goes on to the mirror.
LEMMA SyncingRead == ASSUME NEW m \in Maps PROVE Syncing(m) \in ReadStates /\ Syncing(m).map = m
BY DEF Syncing, ReadStates

\* What is left of it after an amoeba is written is a read still, or idle.
LEMMA WithoutRead ==
  ASSUME NEW read \in [at : {"write"}, map : Maps, left : SUBSET Amoebas], NEW a
  PROVE  /\ Without(read, a) \in ReadStates
         /\ Without(read, a) # Idle => Without(read, a).map = read.map
<1>1. CASE read.left = {a}
  BY <1>1 DEF Without, ReadStates
<1>2. CASE read.left # {a}
  BY <1>2 DEF Without, ReadStates
<1> QED BY <1>1, <1>2

\* What a cache answers is a map.
LEMMA CachedOK == ASSUME TypeOK, NEW c \in Callers
  PROVE ProcessOf[c] \in Processes /\ Cached(c) = cache[ProcessOf[c]]
        /\ cache[ProcessOf[c]].map \in Maps /\ cache[ProcessOf[c]].age \in {"none", "fresh", "stale"}
BY AccessAssumption DEF TypeOK, Cached

------------------------------------------------------------------------------
(* The invariant is inductive *)

\* It holds at the start.
LEMMA IInvInit == AccessInit => IInv
<1> SUFFICES ASSUME AccessInit PROVE IInv
  OBVIOUS
<1>1. lead \in Maps /\ amoebaOf \in [Riders -> Amoebas]
  BY AccessAssumption DEF AccessInit, Maps, Leads
<1>2. Unread \in [age : {"none", "fresh", "stale"}, map : Maps]
  BY DEF Unread, Maps, Leads
<1>3. TypeOK
  <2>1. ledBy \in [Amoebas -> SUBSET Leads]
    BY <1>1 DEF AccessInit, Maps
  <2>2. mirror \in [Riders -> Leads]
    BY <1>1 DEF AccessInit, Maps
  <2>3. placed \in [Riders -> [lead : Leads, post : Amoebas]]
    BY <1>1, <2>2 DEF AccessInit, Places
  <2> QED BY <1>1, <1>2, <2>1, <2>2, <2>3 DEF AccessInit, TypeOK, ReadStates, PostStates
<1>4. LedNow /\ MirrorNamesALead
  BY <1>1, <1>3 DEF AccessInit, LedNow, MirrorNamesALead
<1>6. PlacesLed
  BY <1>1, <1>3, <1>4 DEF AccessInit, Places, PlacesLed, MirrorNamesALead, TypeOK
<1>5. CachesLed
  BY DEF AccessInit, CachesLed, Unread
<1> QED BY <1>3, <1>4, <1>5, <1>6 DEF AccessInit, IInv, ReadsLed, PostLed

\* Every step keeps it.
LEMMA IInvNext == IInv /\ [AccessNext]_accessVars => IInv'
<1> SUFFICES ASSUME IInv, [AccessNext]_accessVars PROVE IInv'
  OBVIOUS
<1> USE DEF IInv, rowVars
<1>1. ASSUME NEW a \in Amoebas, HandOver(a) PROVE IInv'
  <2>1. PICK p \in Leads : lead' = [lead EXCEPT ![a] = p] /\ ledBy' = [ledBy EXCEPT ![a] = @ \cup {p}]
    BY <1>1 DEF HandOver, Leads
  <2>2. TypeOK'
    BY <1>1, <2>1 DEF HandOver, TypeOK, Maps
  <2>3. \A b \in Amoebas : ledBy[b] \subseteq ledBy'[b]
    BY <2>1 DEF TypeOK
  <2>4. LedNow'
    BY <2>1, <2>3 DEF LedNow, TypeOK, Maps
  <2>5. CachesLed' /\ ReadsLed'
    BY <1>1, <2>3 DEF HandOver, CachesLed, ReadsLed
  <2>6. PostLed'
    <3>1. posting # Idle => posting.amoeba \in Amoebas
      BY DEF TypeOK, PostStates
    <3> QED BY <1>1, <2>3, <3>1 DEF HandOver, PostLed
  <2>7. MirrorNamesALead'
    BY <1>1, <2>3 DEF HandOver, MirrorNamesALead, TypeOK
  <2>8. PlacesLed'
    BY <1>1, <2>3 DEF HandOver, PlacesLed, TypeOK
  <2> QED BY <2>2, <2>4, <2>5, <2>6, <2>7, <2>8
<1>2. CASE GoDown \/ ComeUp
  BY <1>2 DEF GoDown, ComeUp, TypeOK, LedNow, CachesLed, ReadsLed, PostLed, MirrorNamesALead, PlacesLed
<1>3. ASSUME NEW p \in Processes, Expire(p) PROVE IInv'
  <2>1. cache' = [cache EXCEPT ![p].age = "stale"] /\ cache[p].age = "fresh"
    BY <1>3 DEF Expire
  <2>2. cache' \in [Processes -> [age : {"none", "fresh", "stale"}, map : Maps]]
    BY <2>1 DEF TypeOK
  <2>3. CachesLed'
    BY <1>3, <2>1 DEF Expire, CachesLed, TypeOK
  <2> QED BY <1>3, <2>2, <2>3 DEF Expire, TypeOK, LedNow, ReadsLed, PostLed, MirrorNamesALead, PlacesLed
<1>4. ASSUME NEW c \in Callers, StartRead(c) PROVE IInv'
  <2> DEFINE new == IF Cached(c).age = "fresh" THEN Syncing(Cached(c).map)
                    ELSE IF up THEN [at |-> "answer", map |-> lead]
                    ELSE IF Cached(c).age = "stale" THEN Syncing(Cached(c).map) ELSE Idle
  <2>1. reading' = [reading EXCEPT ![c] = new]
    BY <1>4 DEF StartRead
  <2>2. [at |-> "answer", map |-> lead] \in ReadStates
    BY DEF TypeOK, ReadStates
  <2>3. Syncing(Cached(c).map) \in ReadStates /\ Syncing(Cached(c).map).map = Cached(c).map
    BY CachedOK, SyncingRead
  <2>4. new \in ReadStates
    BY <2>2, <2>3 DEF ReadStates
  <2>5. new # Idle => \A a \in Amoebas : new.map[a] \in ledBy[a]
    <3>1. CASE new = Syncing(Cached(c).map) /\ Cached(c).age # "none"
      BY <2>3, <3>1, CachedOK DEF CachesLed
    <3>2. CASE new = [at |-> "answer", map |-> lead]
      BY <3>2 DEF LedNow
    <3> QED BY <3>1, <3>2
  <2> HIDE DEF new
  <2>6. TypeOK'
    BY <1>4, <2>1, <2>4 DEF StartRead, TypeOK
  <2>7. ReadsLed'
    BY <1>4, <2>1, <2>5 DEF StartRead, ReadsLed, TypeOK
  <2> QED BY <1>4, <2>6, <2>7 DEF StartRead, LedNow, CachesLed, PostLed, MirrorNamesALead, PlacesLed
<1>5. ASSUME NEW c \in Callers, Answer(c) PROVE IInv'
  <2>1. reading[c].map \in Maps /\ reading[c] # Idle
    BY <1>5, ReadShapes, IdleAt DEF Answer, TypeOK
  <2>2. ProcessOf[c] \in Processes
    BY CachedOK
  <2>3. cache' \in [Processes -> [age : {"none", "fresh", "stale"}, map : Maps]]
    BY <1>5, <2>1, <2>2 DEF Answer, TypeOK
  <2>4. reading' = [reading EXCEPT ![c] = Syncing(reading[c].map)]
    BY <1>5 DEF Answer
  <2>5. TypeOK'
    BY <1>5, <2>1, <2>3, <2>4, SyncingRead DEF Answer, TypeOK
  <2>6. \A a \in Amoebas : reading[c].map[a] \in ledBy[a]
    BY <2>1 DEF ReadsLed
  <2>7. CachesLed'
    BY <1>5, <2>2, <2>6 DEF Answer, CachesLed, TypeOK
  <2>8. ReadsLed'
    BY <1>5, <2>1, <2>4, <2>6, SyncingRead DEF Answer, ReadsLed, TypeOK
  <2> QED BY <1>5, <2>5, <2>7, <2>8 DEF Answer, LedNow, PostLed, MirrorNamesALead, PlacesLed
<1>6. ASSUME NEW c \in Callers, SyncAmoeba(c) PROVE IInv'
  <2>1. PICK a \in reading[c].left :
          /\ mirror' = [r \in Riders |-> IF amoebaOf[r] = a THEN reading[c].map[a] ELSE mirror[r]]
          /\ blind' = {r \in blind : amoebaOf[r] # a}
          /\ reading' = [reading EXCEPT ![c] = Without(reading[c], a)]
    BY <1>6 DEF SyncAmoeba
  <2>2. /\ reading[c] \in [at : {"write"}, map : Maps, left : SUBSET Amoebas]
        /\ reading[c] # Idle
    BY <1>6 DEF SyncAmoeba, TypeOK, ReadStates, Idle
  <2>3. a \in Amoebas /\ reading[c].map[a] \in Leads /\ reading[c].map[a] \in ledBy[a]
    BY <2>1, <2>2 DEF Maps, ReadsLed
  <2>4. /\ Without(reading[c], a) \in ReadStates
        /\ Without(reading[c], a) # Idle => Without(reading[c], a).map = reading[c].map
    BY <2>2, WithoutRead
  <2>5. TypeOK'
    <3>1. reading' \in [Callers -> ReadStates]
      BY <2>1, <2>4 DEF TypeOK
    <3>2. mirror' \in [Riders -> Leads] /\ blind' \subseteq Riders
      BY <2>1, <2>3 DEF TypeOK
    <3> QED BY <1>6, <3>1, <3>2 DEF SyncAmoeba, TypeOK
  <2>6. ReadsLed'
    BY <1>6, <2>1, <2>2, <2>4 DEF SyncAmoeba, ReadsLed, TypeOK
  <2>7. MirrorNamesALead'
    BY <1>6, <2>1, <2>3 DEF SyncAmoeba, MirrorNamesALead, TypeOK
  <2> QED BY <1>6, <2>5, <2>6, <2>7 DEF SyncAmoeba, LedNow, CachesLed, PostLed, PlacesLed
<1>7. ASSUME NEW r \in Riders, StartPost(r) PROVE IInv'
  <2>1. PICK a \in Amoebas, p \in Processes :
          /\ cache' = [cache EXCEPT ![p] = LookedUp(p)]
          /\ posting' = [at |-> "write", rider |-> r, amoeba |-> a, blind |-> LookedUp(p).age = "none",
                         lead |-> LookedUp(p).map[a]]
    BY <1>7 DEF StartPost
  <2> DEFINE found == LookedUp(p)
  <2>2. /\ found \in [age : {"none", "fresh", "stale"}, map : Maps]
        /\ \A b \in Amoebas : IF found.age = "none" THEN found.map[b] = NoOne ELSE found.map[b] \in ledBy[b]
    BY DEF TypeOK, LookedUp, CachesLed, LedNow
  <2>0. /\ cache' = [cache EXCEPT ![p] = found]
        /\ posting' = [at |-> "write", rider |-> r, amoeba |-> a, blind |-> found.age = "none", lead |-> found.map[a]]
    BY <2>1
  <2>6. found.map[a] \in Leads /\ found.age \in {"none", "fresh", "stale"}
    BY <2>2 DEF Maps
  <2> HIDE DEF found
  <2>3. TypeOK'
    <3>1. posting' \in PostStates
      BY <2>0, <2>6 DEF PostStates
    <3>2. cache' \in [Processes -> [age : {"none", "fresh", "stale"}, map : Maps]]
      BY <2>0, <2>2 DEF TypeOK
    <3> QED BY <1>7, <3>1, <3>2 DEF StartPost, TypeOK
  <2>4. PostLed'
    BY <2>0, <2>2, <2>6, <1>7 DEF StartPost, PostLed
  <2>5. CachesLed'
    BY <1>7, <2>0, <2>2 DEF StartPost, CachesLed, TypeOK
  <2> QED BY <1>7, <2>3, <2>4, <2>5 DEF StartPost, LedNow, ReadsLed, MirrorNamesALead, PlacesLed
<1>8. CASE WritePost
  <2>1. /\ posting # Idle
        /\ posting.rider \in Riders /\ posting.amoeba \in Amoebas /\ posting.lead \in Leads
    BY <1>8 DEF WritePost, TypeOK, PostStates, Idle
  <2>2. TypeOK'
    BY <1>8, <2>1 DEF WritePost, TypeOK, PostStates
  <2>3. PostLed'
    BY <1>8 DEF WritePost, PostLed
  <2>4. MirrorNamesALead'
    BY <1>8, <2>1 DEF WritePost, MirrorNamesALead, PostLed, TypeOK
  <2> QED BY <1>8, <2>2, <2>3, <2>4 DEF WritePost, LedNow, CachesLed, ReadsLed, PlacesLed
<1>9. CASE UNCHANGED accessVars
  BY <1>9 DEF accessVars, TypeOK, LedNow, CachesLed, ReadsLed, PostLed, MirrorNamesALead, PlacesLed
<1>10. CASE ReadPositions
  <2>1. placed' \in [Riders -> [lead : Leads, post : Amoebas]]
    BY <1>10 DEF ReadPositions, Places, TypeOK
  <2>2. TypeOK'
    BY <1>10, <2>1 DEF ReadPositions, TypeOK
  <2>3. PlacesLed'
    BY <1>10 DEF ReadPositions, Places, PlacesLed, MirrorNamesALead
  <2> QED BY <1>10, <2>2, <2>3 DEF ReadPositions, LedNow, CachesLed, ReadsLed, PostLed, MirrorNamesALead
<1> QED BY <1>1, <1>2, <1>3, <1>4, <1>5, <1>6, <1>7, <1>8, <1>9, <1>10 DEF AccessNext

\* The invariant holds throughout: caches, reads in flight and updates in
\* progress only carry the names of people who led the amoeba.
THEOREM AlwaysLed == AccessSpec => []IInv
BY IInvInit, IInvNext, PTL DEF AccessSpec

\* MirrorNamesALead holds of every run: no outage, stale cache or overtaken
\* read puts a rider under somebody who never led his amoeba.
THEOREM MirrorAlwaysNamesALead == AccessSpec => []MirrorNamesALead
<1>1. IInv => MirrorNamesALead
  BY DEF IInv
<1> QED BY <1>1, AlwaysLed, PTL

------------------------------------------------------------------------------
(* What a caller is shown *)

\* Callers: the service, or a person with assignments of the four types.
LEMMA ActorShapes ==
  ASSUME NEW actor \in Actors, ~IsSystemAdmin(actor)
  PROVE  actor.person \in People /\ \A g \in actor.grants : g.type \in ScopeTypes
<1>1. actor # Service
  BY DEF IsSystemAdmin, Service
<1>2. actor \in Humans
  BY <1>1, AccessAssumption
<1> QED BY <1>2 DEF Humans

\* The scope of a caller who is let through, case by case; it is never the
\* empty scope, to which addScope would add no clause.
LEMMA Scopes ==
  ASSUME NEW actor \in Actors, HasScope(actor)
  PROVE  \/ /\ IsSystemAdmin(actor) \/ Named(actor, "company") # {}
            /\ DataScope(actor) = Everything
         \/ /\ ~IsSystemAdmin(actor) /\ actor.grants # {}
            /\ DataScope(actor) = Granted(actor) /\ Granted(actor) # Nothing
         \/ /\ ~IsSystemAdmin(actor) /\ actor.grants = {} /\ "supervisor" \in actor.roles
            /\ DataScope(actor) = [Nothing EXCEPT !.own = {actor.person}]
         \/ /\ ~IsSystemAdmin(actor) /\ actor.grants = {}
            /\ "supervisor" \notin actor.roles /\ "operator" \in actor.roles
            /\ DataScope(actor) = [Nothing EXCEPT !.self = {actor.person}]
<1>1. CASE IsSystemAdmin(actor) \/ Named(actor, "company") # {}
  BY <1>1 DEF DataScope
<1>2. CASE ~IsSystemAdmin(actor) /\ Named(actor, "company") = {} /\ actor.grants # {}
  <2>1. PICK g \in actor.grants : TRUE
    BY <1>2
  <2>2. g.type \in {"amoeba", "site", "team"}
    BY <1>2, ActorShapes DEF ScopeTypes, Named
  <2>3. \/ g.id \in Named(actor, "amoeba") \/ g.id \in Named(actor, "site")
        \/ g.id \in Named(actor, "team")
    BY <2>2 DEF Named
  <2>4. Granted(actor) # Nothing
    BY <2>3 DEF Granted, Nothing
  <2> QED BY <1>2, <2>4 DEF DataScope
<1>3. CASE ~IsSystemAdmin(actor) /\ actor.grants = {}
  <2>1. \A type : Named(actor, type) = {}
    BY <1>3 DEF Named
  <2>a. Granted(actor) = Nothing
    <3>1. Named(actor, "amoeba") = {} /\ Named(actor, "site") = {} /\ Named(actor, "team") = {}
      BY <2>1
    <3>2. Granted(actor) = [Nothing EXCEPT !.amoebas = {}, !.sites = {}, !.teams = {}]
      BY <3>1, Zenon DEF Granted
    <3>3. [Nothing EXCEPT !.amoebas = {}, !.sites = {}, !.teams = {}] = Nothing
      <4>1. [Nothing EXCEPT !.amoebas = {}] = Nothing
        BY DEF Nothing
      <4>2. [Nothing EXCEPT !.sites = {}] = Nothing
        BY DEF Nothing
      <4>3. [Nothing EXCEPT !.teams = {}] = Nothing
        BY DEF Nothing
      <4> QED BY <4>1, <4>2, <4>3, Zenon
    <3> QED BY <3>2, <3>3
  <2>2. "supervisor" \in actor.roles \/ "operator" \in actor.roles
    BY <1>3 DEF HasScope
  <2> QED BY <1>3, <2>1, <2>a, <2>2 DEF DataScope
<1> QED BY <1>1, <1>2, <1>3

\* What the assignments of a caller are, by type.
LEMMA AssignedIs ==
  ASSUME NEW actor \in Actors
  PROVE  /\ ReachesAll(actor) <=> IsSystemAdmin(actor) \/ Named(actor, "company") # {}
         /\ Assigned[actor]["amoeba"] = Named(actor, "amoeba")
         /\ Assigned[actor]["site"] = Named(actor, "site")
         /\ Assigned[actor]["team"] = Named(actor, "team")
BY DEF Assigned, ReachesAll, ScopeTypes

\* The clause all queries share shows no rider beyond a caller's assignments.
LEMMA ClauseWithinReach ==
  ASSUME NEW actor \in Actors, HasScope(actor), NEW r \in Riders, InScope(DataScope(actor), r)
  PROVE  Reaches(actor, r)
<1>1. CASE ReachesAll(actor)
  BY <1>1 DEF Reaches
<1>2. CASE DataScope(actor) = Granted(actor)
  BY <1>2, AssignedIs DEF InScope, Granted, Nothing, Reaches
<1>3. CASE /\ actor.grants = {} /\ "supervisor" \in actor.roles
           /\ DataScope(actor) = [Nothing EXCEPT !.own = {actor.person}]
  BY <1>3 DEF InScope, Nothing, Reaches
<1>4. CASE /\ actor.grants = {} /\ "supervisor" \notin actor.roles /\ "operator" \in actor.roles
           /\ DataScope(actor) = [Nothing EXCEPT !.self = {actor.person}]
  BY <1>4 DEF InScope, Nothing, Reaches
<1> QED BY <1>1, <1>2, <1>3, <1>4, Scopes, AssignedIs

\* Positions, which only an own team and named amoebas narrow: whoever is shown one
\* as a team's led the rider's amoeba when the list was read, or before.
LEMMA PositionsWithinReach ==
  ASSUME TypeOK, PlacesLed, NEW actor \in Scoped PROVE PositionsWithin(actor)
<1>0. actor \in Actors /\ HasScope(actor) /\ ScopeOf[actor] = DataScope(actor)
  BY DEF Scoped, ScopeOf
<1> DEFINE scope == DataScope(actor)
<1> SUFFICES ASSUME Narrowed(scope), NEW r \in PositionsIn(scope)
             PROVE  placed[r].post \in Assigned[actor]["amoeba"] \/ actor.person \in ledBy[placed[r].post]
  BY <1>0 DEF PositionsWithin
<1>1. r \in Riders /\ (placed[r].lead \in scope.own \/ placed[r].post \in scope.amoebas)
  BY DEF PositionsIn
<1>2. CASE scope = Granted(actor)
  BY <1>0, <1>1, <1>2, AssignedIs DEF Granted, Nothing
<1>3. CASE ~IsSystemAdmin(actor) /\ scope = [Nothing EXCEPT !.own = {actor.person}]
  <2>1. placed[r].lead = actor.person
    BY <1>1, <1>3 DEF Nothing
  <2>2. actor.person # NoOne
    BY <1>0, <1>3, ActorShapes, AccessAssumption
  <2> QED BY <1>1, <2>1, <2>2 DEF PlacesLed
<1>4. scope # Everything /\ \A x : scope # [Nothing EXCEPT !.self = {x}]
  <2>1. ~scope.all /\ scope.own \cup scope.amoebas # {}
    BY DEF Narrowed
  <2>2. \A x : [Nothing EXCEPT !.self = {x}].own = {} /\ [Nothing EXCEPT !.self = {x}].amoebas = {}
    BY DEF Nothing
  <2>3. Everything.all
    BY DEF Everything, Nothing
  <2> QED BY <2>1, <2>2, <2>3
<1> QED BY <1>0, <1>2, <1>3, <1>4, Scopes

\* Every query that lists riders or their vehicles stays within reach.
LEMMA RidersWithinReach ==
  ASSUME NEW actor \in Scoped PROVE ShownRiders(actor) \subseteq Reached(actor)
<1>0. actor \in Actors /\ HasScope(actor) /\ ScopeOf[actor] = DataScope(actor)
  BY DEF Scoped, ScopeOf
<1> DEFINE scope == DataScope(actor)
<1>1. RecordsIn(scope) \subseteq Reached(actor)
  BY <1>0, ClauseWithinReach DEF RecordsIn, Reached
<1>2. OperatorsIn(scope) \subseteq Reached(actor)
  <2>1. CASE scope = Nothing
    <3>1. Everything # Nothing /\ \A x : [Nothing EXCEPT !.own = {x}] # Nothing /\ [Nothing EXCEPT !.self = {x}] # Nothing
      BY DEF Nothing, Everything
    <3> QED BY <1>0, <2>1, <3>1, Scopes
  <2>2. CASE scope # Nothing
    BY <1>1, <2>2 DEF OperatorsIn, RecordsIn
  <2> QED BY <2>1, <2>2
<1>3. FleetIn(scope) \subseteq RecordsIn(scope)
  BY DEF FleetIn, RecordsIn, InScope, DataScope, Everything, Granted, Nothing
<1>4. RegisterIn(scope) \subseteq Reached(actor)
  <2>1. CASE scope.all
    BY <1>1, <2>1 DEF RegisterIn, RecordsIn, InScope
  <2>2. CASE ~scope.all
    BY <1>1, <2>2 DEF RegisterIn, RecordsIn, InScope
  <2> QED BY <2>1, <2>2
<1> QED BY <1>0, <1>1, <1>2, <1>3, <1>4 DEF ShownRiders

\* So does every query that lists amoebas, their reports and their batches.
LEMMA AmoebasWithinReach ==
  ASSUME NEW actor \in Scoped PROVE ShownAmoebas(actor) \subseteq ReachedAmoebas(actor)
<1>0. actor \in Actors /\ HasScope(actor) /\ ScopeOf[actor] = DataScope(actor)
  BY DEF Scoped, ScopeOf
<1> DEFINE scope == DataScope(actor)
<1> DEFINE seen == {amoebaOf[r] : r \in Reached(actor)}
<1> DEFINE works == UNION {Worked[r] : r \in {x \in Riders : PersonOf[x] = actor.person}}
<1>1. CASE ReachesAll(actor)
  <2>1. scope = Everything /\ scope.all
    BY <1>0, <1>1, AssignedIs DEF DataScope, Everything, Nothing
  <2> QED BY <1>0, <1>1, <2>1 DEF ShownAmoebas, AmoebasIn, ReportsIn, BatchesIn, ReachedAmoebas
<1>2. CASE ~ReachesAll(actor)
  <2>1. ReachedAmoebas(actor) = Named(actor, "amoeba") \cup seen \cup works
    BY <1>0, <1>2, AssignedIs DEF ReachedAmoebas
  <2>2. ~scope.all /\ scope.amoebas \subseteq Named(actor, "amoeba") /\ scope.self \subseteq {actor.person}
    BY <1>0, <1>2, AssignedIs, Scopes DEF Granted, Nothing
  <2>3. RecordsIn(scope) \subseteq Reached(actor)
    BY <1>0, ClauseWithinReach DEF RecordsIn, Reached
  <2>4. RecordsIn([scope EXCEPT !.amoebas = {}]) \subseteq RecordsIn(scope)
    BY DEF RecordsIn, InScope, DataScope, Everything, Granted, Nothing
  <2>5. {r \in Riders : mirror[r] \in scope.own} \subseteq RecordsIn(scope)
    BY DEF RecordsIn, InScope
  <2> HIDE DEF scope
  <2>6. AmoebasIn(scope) \subseteq Named(actor, "amoeba") \cup seen
    BY <2>2, <2>3 DEF AmoebasIn
  <2>7. ReportsIn(scope) \subseteq Named(actor, "amoeba") \cup seen
    BY <2>2, <2>3, <2>4 DEF ReportsIn
  <2>8. BatchesIn(scope) \subseteq Named(actor, "amoeba") \cup seen \cup works
    <3>1. {amoebaOf[r] : r \in {x \in Riders : mirror[x] \in scope.own}} \subseteq seen
      BY <2>3, <2>5
    <3>2. UNION {Worked[r] : r \in {x \in Riders : PersonOf[x] \in scope.self}} \subseteq works
      BY <2>2
    <3> QED BY <2>2, <3>1, <3>2 DEF BatchesIn
  <2> QED BY <1>0, <2>1, <2>6, <2>7, <2>8 DEF ShownAmoebas, scope
<1> QED BY <1>1, <1>2

\* The papers of a vehicle need the mirror to be right: they are open to the
\* supervisors it names.
LEMMA PapersWithinReach ==
  ASSUME TypeOK, MirrorNamesALead, NEW actor \in Actors, NEW r \in Riders,
         DocumentAccess(actor, "vehicle", PersonOf[r], amoebaOf[r]) # {}
  PROVE  IsSystemAdmin(actor) \/ actor.person \in ledBy[amoebaOf[r]]
<1> SUFFICES ASSUME ~IsSystemAdmin(actor) PROVE actor.person \in ledBy[amoebaOf[r]]
  OBVIOUS
<1>1. PICK x \in Riders : amoebaOf[x] = amoebaOf[r] /\ mirror[x] = actor.person
  BY DEF DocumentAccess
<1>2. actor.person # NoOne
  BY ActorShapes, AccessAssumption
<1> QED BY <1>1, <1>2 DEF MirrorNamesALead

\* WithinReach holds of every run: none of the queries' scope clauses shows a
\* caller the rows of a rider or an amoeba his assignments do not reach; a list
\* of positions that is narrowed to his team or amoebas at all, however old, shows
\* him riders of his amoebas and of those he led; and the papers of an amoeba's
\* vehicles are read by those who led it only.
THEOREM AlwaysWithinReach == AccessSpec => []WithinReach
<1>1. IInv => WithinReach
  BY RidersWithinReach, AmoebasWithinReach, PositionsWithinReach, PapersWithinReach DEF IInv, WithinReach
<1> QED BY <1>1, AlwaysLed, PTL

------------------------------------------------------------------------------
(* One page of a console: its loads and its handlers *)

\* One load under way.
LoadShape(l) ==
  /\ l = [ticket |-> l.ticket, kind |-> l.kind, by |-> l.by, at |-> l.at, range |-> l.range, rows |-> l.rows]
  /\ l.ticket \in Nat /\ l.ticket <= issued /\ l.by \in Nat /\ l.by <= tapped
  /\ l.at \in {"range", "read", "show"}
  /\ l.kind = "part" => l.at # "range"

\* One handler under way.
TapShape(t) ==
  /\ t = [id |-> t.id, want |-> t.want, names |-> t.names, key |-> t.key, at |-> t.at]
  /\ t.id \in Nat \ {0} /\ t.id <= tapped /\ t.want \in Things
  /\ t.at \in {"before", "sent", "answered", "loading"}

\* What a page is always like: tickets and handlers are told apart by their numbers,
\* and a load that a handler waits for has that handler waiting.
Sane ==
  /\ look \in Looks
  /\ issued \in Nat /\ tapped \in Nat /\ faults \in Nat
  /\ hits \in [Things -> Nat]
  /\ open \in Things \cup {Nobody} /\ pick \in Things \cup {Nobody}
  /\ \A l \in loads : LoadShape(l)
  /\ \A l, m \in loads : l.ticket = m.ticket => l = m
  /\ \A t \in taps : TapShape(t)
  /\ \A s, t \in taps : s.id = t.id => s = t
  /\ \A l \in loads, t \in taps : t.id = l.by => t.at = "loading"

\* What a request that is sent is.
LEMMA AskedIs ==
  ASSUME NEW t, t = [id |-> t.id, want |-> t.want, names |-> t.names, key |-> t.key, at |-> t.at],
         NEW e, e = Asked(t)
  PROVE  /\ e = [id |-> e.id, want |-> e.want, names |-> e.names, key |-> e.key, at |-> e.at]
         /\ e.id = t.id /\ e.want = t.want /\ e.names = Meant(t) /\ e.key = KeyRow(t.want) /\ e.at = "sent"
<1> DEFINE m == Meant(t) y == KeyRow(t.want)
<1>1. e = [t EXCEPT !.at = "sent", !.names = m, !.key = y]
  BY DEF Asked
<1> HIDE DEF m, y
<1>2. /\ e = [id |-> e.id, want |-> e.want, names |-> e.names, key |-> e.key, at |-> e.at]
      /\ e.id = t.id /\ e.want = t.want /\ e.names = m /\ e.key = y /\ e.at = "sent"
  BY <1>1
<1> QED BY <1>2 DEF m, y

\* What a handler is that begins.
LEMMA StartIs ==
  ASSUME NEW x, Start(x)
  PROVE  \E n : /\ taps' = taps \cup {n}
                /\ n = [id |-> n.id, want |-> n.want, names |-> n.names, key |-> n.key, at |-> n.at]
                /\ n.id = tapped + 1 /\ n.want = x
                /\ \/ n.at = "before" /\ n.names = x /\ n.key = Nobody
                   \/ n.at = "sent" /\ n.names = (IF look.how.reads = "late" THEN pick ELSE x) /\ n.key = KeyRow(x)
<1> DEFINE b == Started(x) a == Asked(Started(x))
<1>1. /\ b = [id |-> b.id, want |-> b.want, names |-> b.names, key |-> b.key, at |-> b.at]
      /\ b.id = tapped + 1 /\ b.want = x /\ b.names = x /\ b.key = Nobody /\ b.at = "before"
  BY DEF Started
<1>2. Meant(b) = (IF look.how.reads = "late" THEN pick ELSE x)
  BY <1>1 DEF Meant
<1>3. /\ a = [id |-> a.id, want |-> a.want, names |-> a.names, key |-> a.key, at |-> a.at]
      /\ a.id = b.id /\ a.want = b.want /\ a.names = Meant(b) /\ a.key = KeyRow(b.want) /\ a.at = "sent"
  BY <1>1, AskedIs
<1>4. taps' = taps \cup {b} \/ taps' = taps \cup {a}
  BY DEF Start
<1> HIDE DEF a, b
<1>5. CASE taps' = taps \cup {b}
  BY <1>1, <1>5
<1>6. CASE taps' = taps \cup {a}
  BY <1>1, <1>2, <1>3, <1>6
<1> QED BY <1>4, <1>5, <1>6

\* A handler begun is a new one.
LEMMA StartSane ==
  ASSUME Sane, NEW x \in Things, Start(x), pick' \in Things \cup {Nobody}, open' \in Things \cup {Nobody},
         UNCHANGED <<look, loads, issued, hits, faults>>
  PROVE  Sane'
<1> PICK n : /\ taps' = taps \cup {n} /\ n.id = tapped + 1 /\ n.want = x /\ n.at \in {"before", "sent"}
             /\ n = [id |-> n.id, want |-> n.want, names |-> n.names, key |-> n.key, at |-> n.at]
  BY StartIs
<1>2. tapped' = tapped + 1 /\ tapped \in Nat
  BY DEF Start, Sane
<1>3. \A t \in taps : TapShape(t)' /\ t.id <= tapped
  BY <1>2 DEF Sane, TapShape
<1>4. TapShape(n)'
  BY <1>2 DEF TapShape
<1>5. \A l \in loads : LoadShape(l)' /\ l.by <= tapped
  BY <1>2 DEF Sane, LoadShape
<1>6. \A t \in taps : t.id # n.id
  BY <1>2, <1>3 DEF TapShape, Sane
<1>7. \A l \in loads : l.by # n.id
  BY <1>2, <1>5 DEF LoadShape, Sane
<1> QED BY <1>2, <1>3, <1>4, <1>5, <1>6, <1>7 DEF Sane

\* Handlers and loads that end leave the others as they are.
LEMMA FewerSane ==
  ASSUME Sane, loads' \subseteq loads, taps' \subseteq taps, pick' \in {pick, Nobody}, open' \in Things \cup {Nobody},
         faults' \in Nat, UNCHANGED <<look, issued, tapped, hits>>
  PROVE  Sane'
  BY DEF Sane, LoadShape, TapShape

\* A load whose range is fixed.
LEMMA RangeFixed ==
  ASSUME NEW l,
         l = [ticket |-> l.ticket, kind |-> l.kind, by |-> l.by, at |-> l.at, range |-> l.range, rows |-> l.rows],
         NEW r, NEW n, n = [l EXCEPT !.at = "read", !.range = r]
  PROVE  /\ n = [ticket |-> n.ticket, kind |-> n.kind, by |-> n.by, at |-> n.at, range |-> n.range, rows |-> n.rows]
         /\ n.ticket = l.ticket /\ n.kind = l.kind /\ n.by = l.by /\ n.at = "read" /\ n.range = r /\ n.rows = l.rows
  OBVIOUS

\* The same of its rows.
LEMMA RowsRead ==
  ASSUME NEW l,
         l = [ticket |-> l.ticket, kind |-> l.kind, by |-> l.by, at |-> l.at, range |-> l.range, rows |-> l.rows],
         NEW r, NEW n, n = [l EXCEPT !.at = "show", !.rows = r]
  PROVE  /\ n = [ticket |-> n.ticket, kind |-> n.kind, by |-> n.by, at |-> n.at, range |-> n.range, rows |-> n.rows]
         /\ n.ticket = l.ticket /\ n.kind = l.kind /\ n.by = l.by /\ n.at = "show" /\ n.range = l.range /\ n.rows = r
  OBVIOUS

\* A load that goes on.
LEMMA LoadGoesOn ==
  ASSUME Sane, NEW l \in loads, NEW n, loads' = (loads \ {l}) \cup {n},
         n = [ticket |-> n.ticket, kind |-> n.kind, by |-> n.by, at |-> n.at, range |-> n.range, rows |-> n.rows],
         n.ticket = l.ticket, n.kind = l.kind, n.by = l.by, n.at \in {"read", "show"},
         UNCHANGED <<look, issued, tapped, hits, open, pick, taps, faults>>
  PROVE  Sane'
<1>1. LoadShape(l) /\ \A m \in loads : LoadShape(m)' /\ (m.ticket = n.ticket => m = l)
  BY DEF Sane, LoadShape
<1>2. LoadShape(n)'
  BY <1>1 DEF LoadShape
<1>3. \A t \in taps : TapShape(t)' /\ (t.id = n.by => t.at = "loading")
  BY DEF Sane, TapShape
<1>4. /\ look' \in Looks /\ issued' \in Nat /\ tapped' \in Nat /\ faults' \in Nat /\ hits' \in [Things -> Nat]
      /\ open' \in Things \cup {Nobody} /\ pick' \in Things \cup {Nobody}
  BY DEF Sane
<1>5. \A a, b \in loads' : a.ticket = b.ticket => a = b
  BY <1>1 DEF Sane
<1> QED BY <1>1, <1>2, <1>3, <1>4, <1>5 DEF Sane

\* A handler that goes on.
LEMMA TapGoesOn ==
  ASSUME Sane, NEW t \in taps, t.at # "loading", NEW n, taps' = (taps \ {t}) \cup {n},
         n = [id |-> n.id, want |-> n.want, names |-> n.names, key |-> n.key, at |-> n.at],
         n.id = t.id, n.want = t.want, n.at \in {"sent", "answered", "loading"}, hits' \in [Things -> Nat],
         UNCHANGED <<look, issued, tapped, open, loads, faults>>, pick' \in {pick, Nobody}
  PROVE  Sane'
<1>1. TapShape(t) /\ \A s \in taps : TapShape(s)' /\ (s.id = n.id => s = t)
  BY DEF Sane, TapShape
<1>2. TapShape(n)'
  BY <1>1 DEF TapShape
<1>3. \A l \in loads : LoadShape(l)' /\ l.by # n.id
  BY DEF Sane, LoadShape
<1>4. /\ look' \in Looks /\ issued' \in Nat /\ tapped' \in Nat /\ faults' \in Nat /\ hits' \in [Things -> Nat]
      /\ open' \in Things \cup {Nobody} /\ pick' \in Things \cup {Nobody}
  BY DEF Sane
<1>5. \A a, b \in taps' : a.id = b.id => a = b
  BY <1>1 DEF Sane
<1> QED BY <1>1, <1>2, <1>3, <1>4, <1>5 DEF Sane

\* A load begun is a new one.
LEMMA BeginIs ==
  ASSUME NEW kind, NEW by, Begin(kind, by)
  PROVE  \E n : /\ loads' = loads \cup {n} /\ issued' = issued + 1
                /\ n = [ticket |-> n.ticket, kind |-> n.kind, by |-> n.by, at |-> n.at, range |-> n.range, rows |-> n.rows]
                /\ n.ticket = issued + 1 /\ n.kind = kind /\ n.by = by
                /\ n.at = IF kind = "part" THEN "read" ELSE "range"
<1> DEFINE n == Load(kind, by)
<1>1. /\ n = [ticket |-> n.ticket, kind |-> n.kind, by |-> n.by, at |-> n.at, range |-> n.range, rows |-> n.rows]
      /\ n.ticket = issued + 1 /\ n.kind = kind /\ n.by = by
      /\ n.at = IF kind = "part" THEN "read" ELSE "range"
  BY DEF Load
<1>2. loads' = loads \cup {n} /\ issued' = issued + 1
  BY DEF Begin
<1> HIDE DEF n
<1> QED BY <1>1, <1>2

\* A load begun leaves the others as they are.
LEMMA BeginSane ==
  ASSUME Sane, NEW kind, NEW by \in Nat, by <= tapped, Begin(kind, by),
         \A t \in taps' : TapShape(t) /\ (t.id = by => t.at = "loading"),
         \A s, t \in taps' : s.id = t.id => s = t,
         \A l \in loads, t \in taps' : t.id = l.by => t.at = "loading",
         UNCHANGED <<look, tapped, hits, open, faults>>, pick' \in {pick, Nobody}
  PROVE  Sane'
<1> PICK n : /\ loads' = loads \cup {n} /\ issued' = issued + 1
             /\ n = [ticket |-> n.ticket, kind |-> n.kind, by |-> n.by, at |-> n.at, range |-> n.range, rows |-> n.rows]
             /\ n.ticket = issued + 1 /\ n.kind = kind /\ n.by = by
             /\ n.at = IF kind = "part" THEN "read" ELSE "range"
  BY BeginIs
<1>1. issued \in Nat /\ \A l \in loads : LoadShape(l)' /\ l.ticket # n.ticket
  BY DEF Sane, LoadShape
<1>2. LoadShape(n)'
  BY <1>1 DEF LoadShape, Sane
<1>3. \A t \in taps' : TapShape(t)'
  BY DEF TapShape
<1>4. /\ look' \in Looks /\ issued' \in Nat /\ tapped' \in Nat /\ faults' \in Nat /\ hits' \in [Things -> Nat]
      /\ open' \in Things \cup {Nobody} /\ pick' \in Things \cup {Nobody}
  BY <1>1 DEF Sane
<1>5. \A a, b \in loads' : a.ticket = b.ticket => a = b
  BY <1>1 DEF Sane
<1> QED BY <1>1, <1>2, <1>3, <1>4, <1>5 DEF Sane
------------------------------------------------------------------------------
(* What every page is like, at all times *)

\* The page that opens, its first load under way.
LEMMA SaneInit == Init => Sane
<1> SUFFICES ASSUME Init PROVE Sane
  OBVIOUS
<1> DEFINE first == [ticket |-> 1, kind |-> "first", by |-> Nobody, at |-> "range", range |-> 1, rows |-> Untouched]
<1>1. loads = {first} /\ taps = {} /\ issued = 1 /\ tapped = 0
  BY DEF Init
<1>2. LoadShape(first)
  BY <1>1 DEF LoadShape, Nobody
<1> HIDE DEF first
<1>3. \A l \in loads : LoadShape(l)
  BY <1>1, <1>2
<1>4. hits \in [Things -> Nat] /\ look \in Looks /\ faults = 0 /\ open = Nobody /\ pick = Nobody
  BY DEF Init, Untouched
<1> QED BY <1>1, <1>3, <1>4 DEF Sane

\* The steps of a load keep it so.
LEMMA SaneLoads ==
  ASSUME Sane, NEW l \in loads,
         FixRange(l) \/ ReadRows(l) \/ ShowRows(l) \/ DropLoad(l) \/ FailLoad(l)
  PROVE  Sane'
<1>0. LoadShape(l)
  BY DEF Sane
<1>1. CASE FixRange(l)
  <2>1. PICK r : loads' = (loads \ {l}) \cup {[l EXCEPT !.at = "read", !.range = r]}
    BY <1>1 DEF FixRange
  <2> DEFINE n == [l EXCEPT !.at = "read", !.range = r]
  <2>0. n = [l EXCEPT !.at = "read", !.range = r]
    OBVIOUS
  <2> HIDE DEF n
  <2>2. n = [ticket |-> n.ticket, kind |-> n.kind, by |-> n.by, at |-> n.at, range |-> n.range, rows |-> n.rows]
        /\ n.ticket = l.ticket /\ n.kind = l.kind /\ n.by = l.by /\ n.at \in {"read", "show"}
    BY <1>0, <2>0, RangeFixed DEF LoadShape
  <2>3. UNCHANGED <<look, issued, tapped, hits, open, pick, taps, faults>>
    BY <1>1 DEF FixRange, page
  <2> QED BY <2>0, <2>1, <2>2, <2>3, LoadGoesOn
<1>2. CASE ReadRows(l)
  <2> DEFINE n == [l EXCEPT !.at = "show", !.rows = hits]
  <2>0. n = [l EXCEPT !.at = "show", !.rows = hits]
    OBVIOUS
  <2> HIDE DEF n
  <2>2. n = [ticket |-> n.ticket, kind |-> n.kind, by |-> n.by, at |-> n.at, range |-> n.range, rows |-> n.rows]
        /\ n.ticket = l.ticket /\ n.kind = l.kind /\ n.by = l.by /\ n.at \in {"read", "show"}
    BY <1>0, <2>0, RowsRead DEF LoadShape
  <2>3. loads' = (loads \ {l}) \cup {n} /\ UNCHANGED <<look, issued, tapped, hits, open, pick, taps, faults>>
    BY <1>2, <2>0 DEF ReadRows, page
  <2> QED BY <2>2, <2>3, LoadGoesOn
<1>3. CASE ShowRows(l) \/ DropLoad(l) \/ FailLoad(l)
  <2>1. loads' \subseteq loads /\ taps' \subseteq taps /\ pick' \in {pick, Nobody} /\ open' = open
        /\ faults' \in {faults, faults + 1} /\ UNCHANGED <<look, issued, tapped, hits>>
    BY <1>3 DEF ShowRows, DropLoad, FailLoad, Finish, page
  <2>2. open \in Things \cup {Nobody} /\ faults \in Nat
    BY DEF Sane
  <2> QED BY <2>1, <2>2, FewerSane
<1> QED BY <1>1, <1>2, <1>3

\* The steps of a handler keep it so.
LEMMA SaneTaps ==
  ASSUME Sane, NEW t \in taps, Send(t) \/ Effect(t) \/ Refused(t) \/ Lose(t) \/ Reply(t)
  PROVE  Sane'
<1>0. TapShape(t) /\ open \in Things \cup {Nobody} /\ faults \in Nat /\ hits \in [Things -> Nat]
  BY DEF Sane
<1>1. CASE Send(t) /\ Meant(t) # Nobody
  <2> DEFINE n == Asked(t)
  <2>2. n = [id |-> n.id, want |-> n.want, names |-> n.names, key |-> n.key, at |-> n.at]
        /\ n.id = t.id /\ n.want = t.want /\ n.at = "sent"
    BY <1>0, AskedIs DEF TapShape
  <2>3. taps' = (taps \ {t}) \cup {n} /\ UNCHANGED <<look, issued, tapped, hits, open, pick, loads, faults>>
    BY <1>1 DEF Send, page
  <2>4. t.at # "loading"
    BY <1>1 DEF Send
  <2> HIDE DEF n
  <2> QED BY <1>0, <2>2, <2>3, <2>4, TapGoesOn
<1>2. CASE Effect(t)
  <2> DEFINE n == [t EXCEPT !.at = "answered"]
  <2>2. n = [id |-> n.id, want |-> n.want, names |-> n.names, key |-> n.key, at |-> n.at]
        /\ n.id = t.id /\ n.want = t.want /\ n.at = "answered"
    BY <1>0 DEF TapShape
  <2>3. taps' = (taps \ {t}) \cup {n} /\ UNCHANGED <<look, issued, tapped, open, pick, loads, faults>>
    BY <1>2 DEF Effect, page
  <2>4. t.at # "loading"
    BY <1>2 DEF Effect
  <2>5. hits' \in [Things -> Nat]
    <3>1. hits' = hits \/ hits' = [hits EXCEPT ![t.names] = @ + 1]
      BY <1>2 DEF Effect
    <3> QED BY <1>0, <3>1
  <2> HIDE DEF n
  <2> QED BY <2>2, <2>3, <2>4, <2>5, TapGoesOn
<1>3. CASE (Send(t) /\ Meant(t) = Nobody) \/ Refused(t) \/ Lose(t) \/ (Reply(t) /\ look.how.reload = "none")
  <2>1. loads' \subseteq loads /\ taps' \subseteq taps /\ pick' \in {pick, Nobody} /\ open' = open
        /\ faults' \in {faults, faults + 1} /\ UNCHANGED <<look, issued, tapped, hits>>
    BY <1>3 DEF Send, Refused, Lose, Reply, Fail, Finish, page
  <2> QED BY <1>0, <2>1, FewerSane
<1>4. CASE Reply(t) /\ look.how.reload # "none"
  <2> DEFINE n == [t EXCEPT !.at = "loading"]
  <2>2. n = [id |-> n.id, want |-> n.want, names |-> n.names, key |-> n.key, at |-> n.at]
        /\ n.id = t.id /\ n.want = t.want /\ n.at = "loading"
    BY <1>0 DEF TapShape
  <2>3. /\ taps' = (taps \ {t}) \cup {n} /\ UNCHANGED <<look, tapped, hits, open, faults>> /\ pick' \in {pick, Nobody}
        /\ Begin(look.how.reload, t.id) /\ t.at = "answered"
    BY <1>4 DEF Reply, page
  <2> HIDE DEF n
  <2>4. t.id \in Nat /\ t.id <= tapped
    BY <1>0 DEF TapShape
  <2>5. \A s \in taps : TapShape(s) /\ (s.id = t.id => s = t)
    BY DEF Sane
  <2>6. \A s \in taps' : TapShape(s) /\ (s.id = t.id => s.at = "loading")
    BY <1>0, <2>2, <2>3, <2>5 DEF TapShape
  <2>7. \A r, s \in taps' : r.id = s.id => r = s
    BY <2>2, <2>3, <2>5 DEF Sane
  <2>8. \A l \in loads, s \in taps' : s.id = l.by => s.at = "loading"
    BY <2>2, <2>3 DEF Sane
  <2> QED BY <2>3, <2>4, <2>6, <2>7, <2>8, BeginSane
<1> QED BY <1>1, <1>2, <1>3, <1>4 DEF Send

\* Every step keeps pages well formed.
LEMMA SaneStep == Sane /\ [Next]_vars => Sane'
<1> SUFFICES ASSUME Sane, [Next]_vars PROVE Sane'
  OBVIOUS
<1>0. /\ issued \in Nat /\ tapped \in Nat /\ faults \in Nat
      /\ open \in Things \cup {Nobody} /\ pick \in Things \cup {Nobody}
  BY DEF Sane
<1>1. ASSUME Refresh \/ \E x \in Things : Select(x) PROVE Sane'
  <2>1. Begin("all", Nobody) /\ UNCHANGED <<look, tapped, hits, open, faults, taps, pick>>
    BY <1>1 DEF Refresh, Select, page
  <2>2. Nobody \in Nat /\ Nobody <= tapped /\ \A t \in taps : TapShape(t) /\ t.id # Nobody
    BY <1>0 DEF Nobody, Sane, TapShape
  <2> QED BY <2>1, <2>2, BeginSane DEF Sane
<1>2. ASSUME Cancel \/ Timeout \/ (Confirm /\ pick = Nobody) \/ \E x \in Things : Open(x) PROVE Sane'
  <2>1. /\ UNCHANGED <<look, tapped, hits, faults, taps, loads, issued>>
        /\ pick' \in Things \cup {Nobody} /\ open' \in Things \cup {Nobody}
    BY <1>0, <1>2 DEF Cancel, Timeout, Confirm, Open, page
  <2> QED BY <2>1 DEF Sane, LoadShape, TapShape
<1>3. ASSUME NEW x \in Things, Tap(x) PROVE Sane'
  <2>1. Start(x) /\ UNCHANGED <<look, loads, issued, hits, faults, open, pick>>
    BY <1>3 DEF Tap, page
  <2> QED BY <1>0, <2>1, StartSane
<1>4. ASSUME Confirm, pick # Nobody PROVE Sane'
  <2>1. Start(open) /\ UNCHANGED <<look, loads, issued, hits, faults>> /\ open \in Things /\ open' = Nobody
        /\ pick' \in {pick, Nobody}
    BY <1>0, <1>4 DEF Confirm, page
  <2> QED BY <1>0, <2>1, StartSane
<1>5. CASE UNCHANGED vars
  BY <1>5 DEF vars, Sane, LoadShape, TapShape
<1> QED BY <1>1, <1>2, <1>3, <1>4, <1>5, SaneLoads, SaneTaps DEF Next

\* Loads and handlers are well formed.
THEOREM PagesAreSane == Spec => []Sane
  BY SaneInit, SaneStep, PTL DEF Spec
------------------------------------------------------------------------------
(* The tables *)

\* What the tables say of a handler.
HowShape(how) ==
  how = [key |-> how.key, reads |-> how.reads, lock |-> how.lock, clear |-> how.clear, reload |-> how.reload,
         waits |-> how.waits, day |-> how.day, once |-> how.once]

\* What the handlers of all consoles have in common: a button that goes inactive is no
\* dialog's, a key of the row is sent to a route that remembers it, and a console that
\* counts its loads loads whole.
LooksRight(h, ticket) ==
  /\ h.how.lock # "none" => h.how.clear = "none" /\ h.how.reads = "tap"
  /\ h.how.key = "row" => h.how.reads = "tap" /\ h.routes = {"provision"}
  /\ ticket => h.how.reload # "part"

\* The handlers of the tables are made from these.
LEMMA FormIs ==
  /\ HowShape(Form) /\ Form.key = "fresh" /\ Form.reads = "tap"
  /\ Form.lock = "submit" /\ Form.clear = "none" /\ Form.reload = "all"
  BY DEF HowShape, Form

\* The same with no button that goes inactive.
LEMMA ButtonIs ==
  /\ HowShape(Button) /\ Button.key = "fresh" /\ Button.reads = "tap"
  /\ Button.lock = "none" /\ Button.clear = "none" /\ Button.reload = "all"
  BY FormIs DEF HowShape, Button

\* The same with a button that is inactive until its handler ends.
LEMMA OwnIs ==
  /\ HowShape(Own) /\ Own.key = "fresh" /\ Own.reads = "tap"
  /\ Own.lock = "own" /\ Own.clear = "none" /\ Own.reload = "all"
  BY FormIs DEF HowShape, Own

\* The same with a button of the row.
LEMMA RowIs ==
  /\ HowShape(Row) /\ Row.key = "fresh" /\ Row.reads = "tap"
  /\ Row.lock = "row" /\ Row.clear = "none" /\ Row.reload = "all"
  BY FormIs DEF HowShape, Row

\* A dialog forgets its row at the end.
LEMMA DialogIs ==
  /\ HowShape(Dialog) /\ Dialog.key = "fresh" /\ Dialog.reads = "tap"
  /\ Dialog.lock = "none" /\ Dialog.clear = "end"
    /\ Dialog.reload = "all"
<1> PICK d : d = [Form EXCEPT !.lock = "none", !.clear = "end"]
  OBVIOUS
<1>1. HowShape(d) /\ d.key = "fresh" /\ d.reads = "tap" /\ d.lock = "none" /\ d.clear = "end" /\ d.reload = "all"
  BY FormIs DEF HowShape
<1> QED BY <1>1 DEF Dialog

\* A console does not count its loads unless it says so.
LEMMA BaseIs ==
  /\ Base = [ticket |-> Base.ticket, early |-> Base.early, clamp |-> Base.clamp, forgives |-> Base.forgives]
  /\ Base.ticket = FALSE
  BY DEF Base

\* The handlers of apps/ops-console, one by one.
LEMMA OpsConsoleRight == \A h \in OpsConsole.handlers : LooksRight(h, OpsConsole.base.ticket)
<1> USE DEF LooksRight, HowShape, Does
<1>1. LooksRight(DecideCheckin, FALSE)  BY ButtonIs DEF DecideCheckin
<1>2. LooksRight(RunDeliveryImport, FALSE)  BY OwnIs DEF RunDeliveryImport
<1>3. LooksRight(MapCourier, FALSE)  BY ButtonIs DEF MapCourier
<1>4. LooksRight(IncidentForm, FALSE)  BY FormIs DEF IncidentForm
<1>5. LooksRight(ControlDialog, FALSE)  BY DialogIs DEF ControlDialog
<1>6. LooksRight(FuelIssueForm, FALSE)  BY FormIs DEF FuelIssueForm
<1>7. LooksRight(ReceiptDialog, FALSE)  BY DialogIs DEF ReceiptDialog
<1>8. LooksRight(BatchForm, FALSE)  BY FormIs DEF BatchForm
<1>9. LooksRight(ResetRiderPin, FALSE)  BY RowIs DEF ResetRiderPin
<1>10. LooksRight(ReviewButtons, FALSE)  BY ButtonIs DEF ReviewButtons
<1>11. LooksRight(AssignButtons, FALSE)  BY ButtonIs DEF AssignButtons
<1>12. LooksRight(ExceptionButton, FALSE)  BY ButtonIs DEF ExceptionButton
<1>13. LooksRight(ConfirmButtons, FALSE)  BY ButtonIs DEF ConfirmButtons
<1>14. LooksRight(ConfirmNoDemand, FALSE)  BY ButtonIs DEF ConfirmNoDemand
<1>15. LooksRight(ManifestButton, FALSE)  BY ButtonIs DEF ManifestButton
<1>16. LooksRight(CloseBatchButton, FALSE)  BY ButtonIs DEF CloseBatchButton
<1>17. LooksRight(CloseoutButton, FALSE)  BY RowIs DEF CloseoutButton
<1>18. LooksRight(CockpitDialog, FALSE)  BY DialogIs DEF CockpitDialog
<1>19. LooksRight(UploadForms, FALSE)  BY FormIs DEF UploadForms
<1>20. OpsConsole.base.ticket = FALSE  BY BaseIs DEF OpsConsole, Console
<1>21. OpsConsole.handlers =
      {DecideCheckin, RunDeliveryImport, MapCourier, IncidentForm, ControlDialog, FuelIssueForm, ReceiptDialog,
       BatchForm, ResetRiderPin, ReviewButtons, AssignButtons, ExceptionButton, ConfirmButtons, ConfirmNoDemand,
       ManifestButton, CloseBatchButton, CloseoutButton, CockpitDialog, UploadForms}
  BY DEF OpsConsole, Console
<1> QED BY <1>1, <1>2, <1>3, <1>4, <1>5, <1>6, <1>7, <1>8, <1>9, <1>10, <1>11, <1>12, <1>13, <1>14, <1>15, <1>16, <1>17,
   <1>18, <1>19, <1>20, <1>21

\* Those of apps/ops-admin-console.
LEMMA OpsAdminConsoleRight == \A h \in OpsAdminConsole.handlers : LooksRight(h, OpsAdminConsole.base.ticket)
<1> USE DEF LooksRight, HowShape, Does
<1>1. LooksRight(RosterForms, FALSE)  BY FormIs DEF RosterForms
<1>2. LooksRight(PolicyForms, FALSE)  BY FormIs DEF PolicyForms
<1>3. LooksRight(RevenueForm, FALSE)  BY FormIs DEF RevenueForm
<1>4. LooksRight(DeletePrice, FALSE)  BY ButtonIs DEF DeletePrice
<1>5. LooksRight(CustomerButtons, FALSE)  BY ButtonIs DEF CustomerButtons
<1>6. LooksRight(PriceForm, FALSE)  BY FormIs DEF PriceForm
<1>7. LooksRight(OnboardingForms, FALSE)  BY FormIs DEF OnboardingForms
<1>8. LooksRight(PhaseButtons, FALSE)  BY ButtonIs DEF PhaseButtons
<1>9. LooksRight(AdminReportForm, FALSE)  BY FormIs DEF AdminReportForm
<1>10. LooksRight(CorrectionForm, FALSE)  BY FormIs DEF CorrectionForm
<1>11. LooksRight(PullButton, FALSE)  BY FormIs DEF PullButton
<1>12. LooksRight(SnapshotButton, FALSE)  BY ButtonIs DEF SnapshotButton
<1>13. LooksRight(ReplayButton, FALSE)  BY ButtonIs DEF ReplayButton
<1>14. LooksRight(SaveRiderButton, FALSE)  BY ButtonIs DEF SaveRiderButton
<1>15. LooksRight(PlatformForm, FALSE)  BY FormIs DEF PlatformForm
<1>16. LooksRight(DocumentForm, FALSE)  BY FormIs DEF DocumentForm
<1>17. LooksRight(DocumentButton, FALSE)  BY ButtonIs DEF DocumentButton
<1>18. LooksRight(ImportButtons, FALSE)  BY OwnIs DEF ImportButtons
<1>19. LooksRight(DiscoverButton, FALSE)  BY ButtonIs DEF DiscoverButton
<1>20. LooksRight(MapRiderButton, FALSE)  BY RowIs DEF MapRiderButton
<1>21. LooksRight(BackfillButtons, FALSE)  BY OwnIs DEF BackfillButtons
<1>22. LooksRight(AdminDialog, FALSE)  BY DialogIs DEF AdminDialog
<1>23. OpsAdminConsole.base.ticket = FALSE  BY BaseIs DEF OpsAdminConsole, Console
<1>24. OpsAdminConsole.handlers =
      {RosterForms, PolicyForms, RevenueForm, DeletePrice, CustomerButtons, PriceForm, OnboardingForms,
       PhaseButtons, AdminReportForm, CorrectionForm, PullButton, SnapshotButton, ReplayButton, SaveRiderButton,
       PlatformForm, DocumentForm, DocumentButton, ImportButtons, DiscoverButton, MapRiderButton,
       BackfillButtons, AdminDialog}
  BY DEF OpsAdminConsole, Console
<1> QED BY <1>1, <1>2, <1>3, <1>4, <1>5, <1>6, <1>7, <1>8, <1>9, <1>10, <1>11, <1>12, <1>13, <1>14, <1>15, <1>16, <1>17,
   <1>18, <1>19, <1>20, <1>21, <1>22, <1>23, <1>24

\* Those of apps/finance-console: its sandbox accounts are the one key of a row.
LEMMA FinanceConsoleRight == \A h \in FinanceConsole.handlers : LooksRight(h, FinanceConsole.base.ticket)
<1> USE DEF LooksRight, HowShape, Does
<1>1. LooksRight(AdjustmentForm, TRUE)  BY FormIs DEF AdjustmentForm
<1>2. LooksRight(PaymentForm, TRUE)  BY FormIs DEF PaymentForm
<1>3. LooksRight(PaymentCsv, TRUE)  BY ButtonIs DEF PaymentCsv
<1>4. LooksRight(PerformanceCsv, TRUE)  BY ButtonIs DEF PerformanceCsv
<1>5. LooksRight(SandboxAccount, TRUE)  BY ButtonIs DEF SandboxAccount
<1>6. LooksRight(SandboxDeposit, TRUE)  BY ButtonIs DEF SandboxDeposit
<1>7. LooksRight(ClosePeriod, TRUE)  BY ButtonIs DEF ClosePeriod
<1>8. FinanceConsole.base.ticket = TRUE  BY BaseIs DEF FinanceConsole, Console
<1>9. FinanceConsole.handlers =
      {AdjustmentForm, PaymentForm, PaymentCsv, PerformanceCsv, SandboxAccount, SandboxDeposit, ClosePeriod}
  BY DEF FinanceConsole, Console
<1> QED BY <1>1, <1>2, <1>3, <1>4, <1>5, <1>6, <1>7, <1>8, <1>9

\* Those of apps/manager-console.
LEMMA ManagerConsoleRight == \A h \in ManagerConsole.handlers : LooksRight(h, ManagerConsole.base.ticket)
<1> USE DEF LooksRight, HowShape, Does
<1>1. LooksRight(ManagerReportForm, FALSE)  BY FormIs DEF ManagerReportForm
<1>2. LooksRight(ManagerDialog, FALSE)  BY DialogIs DEF ManagerDialog
<1>3. LooksRight(ExpenseForm, FALSE)  BY FormIs DEF ExpenseForm
<1>4. ManagerConsole.base.ticket = FALSE  BY BaseIs DEF ManagerConsole, Console
<1>5. ManagerConsole.handlers =
      {ManagerReportForm, ManagerDialog, ExpenseForm}
  BY DEF ManagerConsole, Console
<1> QED BY <1>1, <1>2, <1>3, <1>4, <1>5

\* Those of apps/hr-admin-console.
LEMMA HrConsoleRight == \A h \in HrConsole.handlers : LooksRight(h, HrConsole.base.ticket)
<1> USE DEF LooksRight, HowShape, Does
<1>1. LooksRight(PointsForm, FALSE)  BY OwnIs DEF PointsForm
<1>2. LooksRight(CreateForms, FALSE)  BY OwnIs DEF CreateForms
<1>3. LooksRight(SaveButtons, FALSE)  BY RowIs DEF SaveButtons
<1>4. LooksRight(LifecycleDialog, FALSE)  BY DialogIs DEF LifecycleDialog
<1>5. LooksRight(PinDialog, FALSE)  BY DialogIs DEF PinDialog
<1>6. LooksRight(TokenButton, FALSE)  BY ButtonIs DEF TokenButton
<1>7. HrConsole.base.ticket = FALSE  BY BaseIs DEF HrConsole, Console
<1>8. HrConsole.handlers =
      {PointsForm, CreateForms, SaveButtons, LifecycleDialog, PinDialog, TokenButton}
  BY DEF HrConsole, Console
<1> QED BY <1>1, <1>2, <1>3, <1>4, <1>5, <1>6, <1>7, <1>8

\* Those of apps/operator-pwa.
LEMMA OperatorAppRight == \A h \in OperatorApp.handlers : LooksRight(h, OperatorApp.base.ticket)
<1> USE DEF LooksRight, HowShape, Does
<1>1. LooksRight(CheckinButton, FALSE)  BY RowIs DEF CheckinButton
<1>2. LooksRight(RouteButtons, FALSE)  BY ButtonIs DEF RouteButtons
<1>3. LooksRight(ArrivedButton, FALSE)  BY ButtonIs DEF ArrivedButton
<1>4. LooksRight(DeliveredDialog, FALSE)  BY DialogIs DEF DeliveredDialog
<1>5. LooksRight(FailedDialog, FALSE)  BY DialogIs DEF FailedDialog, DeliveredDialog
<1>6. LooksRight(SupportDialog, FALSE)  BY ButtonIs DEF SupportDialog
<1>7. LooksRight(ExplainDialog, FALSE)  BY DialogIs DEF ExplainDialog
<1>8. LooksRight(BreakdownForm, FALSE)  BY ButtonIs DEF BreakdownForm
<1>9. OperatorApp.base.ticket = FALSE  BY BaseIs DEF OperatorApp, Console
<1>10. OperatorApp.handlers =
      {CheckinButton, RouteButtons, ArrivedButton, DeliveredDialog, FailedDialog, SupportDialog, ExplainDialog,
       BreakdownForm}
  BY DEF OperatorApp, Console
<1> QED BY <1>1, <1>2, <1>3, <1>4, <1>5, <1>6, <1>7, <1>8, <1>9, <1>10

------------------------------------------------------------------------------
(* The routes by what they ask of the caller *)

\* The routes for owners and admins, ...
AdminNames == {
  "create_operator", "update_operator", "import_operators", "import_vehicles", "backfill_discover",
  "backfill_platform", "backfill_indrive", "pull_trackers", "tracker_record", "register_platform",
  "create_vehicle", "update_vehicle", "create_platform_account", "update_platform_account",
  "platform_accounts", "create_pace", "update_pace", "create_economics", "create_efficiency",
  "ingestion_runs", "ingest", "create_ramp", "update_ramp", "create_cohort", "set_onboarding", "add_members",
  "train_supervisor", "advance_supervisor", "graduate_supervisor", "create_unit", "update_unit",
  "delete_unit", "delete_report", "scheduled_jobs", "job_runs", "notifications", "enqueue_job",
  "complete_job_run", "audit", "set_fleet_policy", "set_leaderboard", "create_customer", "update_customer",
  "delete_customer", "create_price", "delete_price", "pull_deliveries", "set_points", "access_grants",
  "access_grant", "user_pin"}

\* ... for services, ...
ServiceNames == {
  "map_account", "cash_transaction"}

\* ... for supervisors, ...
SupervisorNames == {
  "reset_pin", "integration_status", "control_actions", "vehicle_positions", "control_battery", "closeouts",
  "close_out", "issue_fuel", "correct_fuel", "generate_report", "acknowledge_alert", "resolve_alert",
  "decide_checkin", "review_explanation", "escalate_alert", "acknowledge_incident", "edit_incident",
  "resolve_incident", "inspect", "progress_maintenance", "confirm_no_on_demand", "revenue_sources",
  "customers", "allocated_prices", "couriers", "aliases", "delivery_imports", "map_courier",
  "import_deliveries", "batches", "create_batch", "set_counts", "close_batch", "assign_rider", "add_stops",
  "confirm_assignment", "raise_exception", "resolve_exception", "exceptions", "delivery_summary", "points"}

\* ... for managers and finance, ...
OversightNames == {
  "cash_status", "cash_adjustments", "tracker_devices", "tracker_records", "payment_records",
  "performance_cash", "review_inspection", "expenses", "transfer_prices", "profit", "book_expense",
  "book_transfer", "escalations"}

\* ... and for finance. The others ask for a session.
FinanceNames == {
  "adjust_cash", "payment_record", "performance_record", "provision", "simulate", "settle", "approve",
  "close_period"}

\* Papers, whose rows are judged once more.
PaperNames == {"attach_document", "documents", "remove_document"}

\* The names above are all there are, and accounts are opened by their key.
NeedsRight(r) ==
  /\ r.need \in {"any", "admin", "service", "supervisor", "oversight", "finance"}
  /\ r.need = "admin" => r.name \in AdminNames
  /\ r.need = "service" => r.name \in ServiceNames
  /\ r.need = "supervisor" => r.name \in SupervisorNames
  /\ r.need = "oversight" => r.name \in OversightNames
  /\ r.need = "finance" => r.name \in FinanceNames
  /\ r.name = "provision" => r.keyed
  /\ r.rows = "commands" => r.name = "control_battery"
  /\ r.rows = "documents" => r.name \in PaperNames

\* The names of the routes that ask for more than a session.
LEMMA Needs == \A r \in Routes : NeedsRight(r)
<1> USE DEF NeedsRight, Reads, Writes, Route, AdminNames, ServiceNames, SupervisorNames, OversightNames, FinanceNames,
            PaperNames
<1>1. \A r \in OperatorRoutes : NeedsRight(r)
  BY DEF OperatorRoutes
<1>2. \A r \in ImportRoutes : NeedsRight(r)
  BY DEF ImportRoutes
<1>3. \A r \in CashRoutes : NeedsRight(r)
  BY DEF CashRoutes
<1>4. \A r \in PositionRoutes : NeedsRight(r)
  BY DEF PositionRoutes
<1>5. \A r \in MoneyRoutes : NeedsRight(r)
  BY DEF MoneyRoutes
<1>6. \A r \in AccountRoutes : NeedsRight(r)
  BY DEF AccountRoutes
<1>7. \A r \in PolicyRoutes : NeedsRight(r)
  BY DEF PolicyRoutes
<1>8. \A r \in FuelRoutes : NeedsRight(r)
  BY DEF FuelRoutes
<1>9. \A r \in RecordRoutes : NeedsRight(r)
  BY DEF RecordRoutes
<1>10. \A r \in OnboardingRoutes : NeedsRight(r)
  BY DEF OnboardingRoutes
<1>11. \A r \in TrainingRoutes : NeedsRight(r)
  BY DEF TrainingRoutes
<1>12. \A r \in ReportRoutes : NeedsRight(r)
  BY DEF ReportRoutes
<1>13. \A r \in HealthRoutes : NeedsRight(r)
  BY DEF HealthRoutes
<1>14. \A r \in AlertRoutes : NeedsRight(r)
  BY DEF AlertRoutes
<1>15. \A r \in AttendanceRoutes : NeedsRight(r)
  BY DEF AttendanceRoutes
<1>16. \A r \in PaperRoutes : NeedsRight(r)
  BY DEF PaperRoutes
<1>17. \A r \in DeviationRoutes : NeedsRight(r)
  BY DEF DeviationRoutes
<1>18. \A r \in IncidentRoutes : NeedsRight(r)
  BY DEF IncidentRoutes
<1>19. \A r \in InspectionRoutes : NeedsRight(r)
  BY DEF InspectionRoutes
<1>20. \A r \in UpkeepRoutes : NeedsRight(r)
  BY DEF UpkeepRoutes
<1>21. \A r \in ProfitRoutes : NeedsRight(r)
  BY DEF ProfitRoutes
<1>22. \A r \in BoardRoutes : NeedsRight(r)
  BY DEF BoardRoutes
<1>23. \A r \in CustomerRoutes : NeedsRight(r)
  BY DEF CustomerRoutes
<1>24. \A r \in CourierRoutes : NeedsRight(r)
  BY DEF CourierRoutes
<1>25. \A r \in BatchRoutes : NeedsRight(r)
  BY DEF BatchRoutes
<1>26. \A r \in StopRoutes : NeedsRight(r)
  BY DEF StopRoutes
<1>27. \A r \in ExceptionRoutes : NeedsRight(r)
  BY DEF ExceptionRoutes
<1>28. \A r \in PointsRoutes : NeedsRight(r)
  BY DEF PointsRoutes
<1>29. \A r \in FoundationRoutes : NeedsRight(r)
  BY DEF FoundationRoutes
<1>30. \A r \in PaymentRoutes : NeedsRight(r)
  BY DEF PaymentRoutes
<1> QED BY <1>1, <1>2, <1>3, <1>4, <1>5, <1>6, <1>7, <1>8, <1>9, <1>10, <1>11, <1>12, <1>13, <1>14, <1>15, <1>16, <1>17,
   <1>18, <1>19, <1>20, <1>21, <1>22, <1>23, <1>24, <1>25, <1>26, <1>27, <1>28, <1>29, <1>30 DEF Routes

------------------------------------------------------------------------------
(* Who is admitted where *)

\* Only papers and power commands are refused for their row.
LEMMA RowsAllowed ==
  ASSUME NEW actor, NEW r \in Routes,
         IsSystemAdmin(actor) \/ r.name \notin PaperNames,
         r.name = "control_battery" => DataScope(actor).all
  PROVE  ~MayRefuseRow(actor, r)
BY Needs DEF NeedsRight, MayRefuseRow

\* An owner, an admin or a service passes everywhere but where only a service does.
LEMMA AdminAdmitted ==
  ASSUME NEW actor, IsSystemAdmin(actor), NEW r \in Routes, r.name \notin ServiceNames
  PROVE  Admits(actor, r) /\ ~MayRefuseRow(actor, r)
<1>1. DataScope(actor).all
  BY DEF DataScope, Everything, Nothing
<1>2. Admits(actor, r)
  BY <1>1, Needs DEF NeedsRight, Admits, Meets, HasScope
<1> QED BY <1>1, <1>2, RowsAllowed

\* A manager by assignment passes all but the administration, and with Finance's assignment its writes.
LEMMA ManagerAdmitted ==
  ASSUME NEW actor, HasAssigned(actor, "manager"),
         NEW r \in Routes, r.name \notin AdminNames \cup ServiceNames,
         r.name = "control_battery" => DataScope(actor).all,
         r.name \in FinanceNames => HasAssigned(actor, "finance")
  PROVE  Admits(actor, r)
<1>1. HasScope(actor)
  BY DEF HasScope, HasAssigned
<1>2. Meets(actor, r.need)
  BY Needs DEF NeedsRight, Meets
<1> QED BY <1>1, <1>2, Needs DEF Admits, NeedsRight

\* A supervisor, by role or assignment, passes what asks for no more than that.
LEMMA SupervisorAdmitted ==
  ASSUME NEW actor, HasAssigned(actor, "supervisor") \/ "supervisor" \in actor.roles,
         NEW r \in Routes, r.name \notin AdminNames \cup ServiceNames \cup FinanceNames \cup OversightNames,
         r.name = "control_battery" => DataScope(actor).all
  PROVE  Admits(actor, r)
<1>1. HasScope(actor)
  BY DEF HasScope, HasAssigned
<1>2. Meets(actor, r.need)
  BY Needs DEF NeedsRight, Meets
<1> QED BY <1>1, <1>2, Needs DEF Admits, NeedsRight

\* Somebody assigned to finance passes oversight and finance.
LEMMA FinanceAdmitted ==
  ASSUME NEW actor, HasAssigned(actor, "finance"),
         NEW r \in Routes, r.name \notin AdminNames \cup ServiceNames \cup {"control_battery"},
         r.name \in SupervisorNames => Meets(actor, "supervisor")
  PROVE  Admits(actor, r)
<1>1. HasScope(actor)
  BY DEF HasScope, HasAssigned
<1>2. Meets(actor, r.need)
  BY Needs DEF NeedsRight, Meets
<1> QED BY <1>1, <1>2, Needs DEF Admits, NeedsRight

\* A rider passes what asks for a session only.
LEMMA OperatorAdmitted ==
  ASSUME NEW actor, "operator" \in actor.roles,
         NEW r \in Routes,
         r.name \notin AdminNames \cup ServiceNames \cup FinanceNames \cup OversightNames \cup SupervisorNames
  PROVE  Admits(actor, r)
<1>1. HasScope(actor)
  BY DEF HasScope
<1>2. Meets(actor, r.need)
  BY Needs DEF NeedsRight, Meets
<1>3. r.name # "control_battery"
  BY DEF SupervisorNames
<1> QED BY <1>1, <1>2, <1>3, Needs DEF Admits, NeedsRight

\* What apps/ops-console calls asks for a supervisor at most.
LEMMA OpsConsoleNames ==
  /\ OpsConsole.hard \cap (AdminNames \cup ServiceNames \cup FinanceNames \cup OversightNames) = {}
  /\ \A h \in OpsConsole.handlers :
       h.routes \cap (AdminNames \cup ServiceNames \cup FinanceNames \cup OversightNames) = {}
  BY DEF OpsConsole, Console, Does, AdminNames, ServiceNames, FinanceNames, OversightNames, DecideCheckin,
     RunDeliveryImport, MapCourier, IncidentForm, ControlDialog, FuelIssueForm, ReceiptDialog, BatchForm,
     ResetRiderPin, ReviewButtons, AssignButtons, ExceptionButton, ConfirmButtons, ConfirmNoDemand,
     ManifestButton, CloseBatchButton, CloseoutButton, CockpitDialog, UploadForms

\* Two of its dialogs act on rows that are judged once more.
LEMMA OpsConsoleRows ==
  /\ "control_battery" \notin OpsConsole.hard
  /\ \A h \in OpsConsole.handlers :
       /\ h = ReceiptDialog \/ h.routes \cap PaperNames = {}
       /\ h = ControlDialog \/ "control_battery" \notin h.routes
  BY DEF OpsConsole, Console, Does, PaperNames, DecideCheckin,
     RunDeliveryImport, MapCourier, IncidentForm, ControlDialog, FuelIssueForm, ReceiptDialog, BatchForm,
     ResetRiderPin, ReviewButtons, AssignButtons, ExceptionButton, ConfirmButtons, ConfirmNoDemand,
     ManifestButton, CloseBatchButton, CloseoutButton, CockpitDialog, UploadForms

\* What apps/ops-admin-console calls is open to admins.
LEMMA OpsAdminConsoleNames ==
  /\ OpsAdminConsole.hard \cap (ServiceNames) = {}
  /\ \A h \in OpsAdminConsole.handlers : h.routes \cap (ServiceNames) = {}
  BY DEF OpsAdminConsole, Console, Does, ServiceNames, RosterForms, PolicyForms, RevenueForm, DeletePrice,
     CustomerButtons, PriceForm, OnboardingForms, PhaseButtons, AdminReportForm, CorrectionForm, PullButton,
     SnapshotButton, ReplayButton, SaveRiderButton, PlatformForm, DocumentForm, DocumentButton, ImportButtons,
     DiscoverButton, MapRiderButton, BackfillButtons, AdminDialog

\* What apps/finance-console reads is open to managers; only what it writes asks for finance.
LEMMA FinanceConsoleNames ==
  /\ FinanceConsole.hard \cap (AdminNames \cup ServiceNames \cup FinanceNames \cup {"control_battery"}) = {}
  /\ \A h \in FinanceConsole.handlers :
       h.routes \cap (AdminNames \cup ServiceNames \cup SupervisorNames \cup PaperNames \cup {"control_battery"}) = {}
  BY DEF FinanceConsole, Console, Does, AdminNames, ServiceNames, FinanceNames, SupervisorNames, PaperNames, AdjustmentForm, PaymentForm,
     PaymentCsv, PerformanceCsv, SandboxAccount, SandboxDeposit, ClosePeriod

\* What apps/manager-console calls is open to managers.
LEMMA ManagerConsoleNames ==
  /\ ManagerConsole.hard \cap (AdminNames \cup ServiceNames \cup FinanceNames \cup {"control_battery"}) = {}
  /\ \A h \in ManagerConsole.handlers :
       h.routes \cap (AdminNames \cup ServiceNames \cup FinanceNames \cup PaperNames \cup {"control_battery"}) = {}
  BY DEF ManagerConsole, Console, Does, AdminNames, ServiceNames, FinanceNames, PaperNames, ManagerReportForm, ManagerDialog,
     ExpenseForm

\* What apps/hr-admin-console calls is open to admins.
LEMMA HrConsoleNames ==
  /\ HrConsole.hard \cap (ServiceNames) = {}
  /\ \A h \in HrConsole.handlers : h.routes \cap (ServiceNames) = {}
  BY DEF HrConsole, Console, Does, ServiceNames, PointsForm, CreateForms, SaveButtons, LifecycleDialog, PinDialog,
     TokenButton

\* What apps/operator-pwa calls asks for a session only.
LEMMA OperatorAppNames ==
  /\ OperatorApp.hard \cap (AdminNames \cup ServiceNames \cup FinanceNames \cup OversightNames \cup SupervisorNames) = {}
  /\ \A h \in OperatorApp.handlers :
       h.routes \cap (AdminNames \cup ServiceNames \cup FinanceNames \cup OversightNames \cup SupervisorNames
                        \cup PaperNames) = {}
  BY DEF OperatorApp, Console, Does, AdminNames, ServiceNames, FinanceNames, OversightNames, SupervisorNames, PaperNames,
     CheckinButton, RouteButtons, ArrivedButton, DeliveredDialog, FailedDialog, SupportDialog, ExplainDialog,
     BreakdownForm

\* What apps/analytics-console reads is open to managers and to finance.
LEMMA AnalyticsConsoleNames ==
  AnalyticsConsole.hard \cap (AdminNames \cup ServiceNames \cup SupervisorNames \cup FinanceNames) = {}
  BY DEF AnalyticsConsole, Console, Does, AdminNames, ServiceNames, SupervisorNames, FinanceNames


\* The reads without which a console does not open are open to those it is meant for;
\* the finance console's if they are supervisors or managers too.
LEMMA Opening ==
  ASSUME NEW name, NEW actor, MeantFor(name, actor), name = "finance" => Meets(actor, "supervisor"),
         NEW r \in RoutesNamed(ConsoleOf(name).hard)
  PROVE  Admits(actor, r)
<1>0. r \in Routes /\ r.name \in ConsoleOf(name).hard
  BY DEF RoutesNamed
<1>1. CASE name = "ops"
  <2>1. r.name \notin AdminNames \cup ServiceNames \cup FinanceNames \cup OversightNames
    BY <1>0, <1>1, OpsConsoleNames DEF ConsoleOf
  <2>2. r.name # "control_battery"
    BY <1>0, <1>1, OpsConsoleRows DEF ConsoleOf
  <2> QED BY <1>0, <1>1, <2>1, <2>2, AdminAdmitted, ManagerAdmitted, SupervisorAdmitted DEF MeantFor
<1>2. CASE name = "ops_admin"
  <2>1. r.name \notin ServiceNames
    BY <1>0, <1>2, OpsAdminConsoleNames DEF ConsoleOf
  <2> QED BY <1>0, <1>2, <2>1, AdminAdmitted DEF MeantFor
<1>3. CASE name = "finance"
  <2>1. r.name \notin AdminNames \cup ServiceNames \cup FinanceNames \cup {"control_battery"}
    BY <1>0, <1>3, FinanceConsoleNames DEF ConsoleOf
  <2> QED BY <1>0, <1>3, <2>1, AdminAdmitted, ManagerAdmitted, FinanceAdmitted DEF MeantFor
<1>4. CASE name = "manager"
  <2>1. r.name \notin AdminNames \cup ServiceNames \cup FinanceNames \cup {"control_battery"}
    BY <1>0, <1>4, ManagerConsoleNames DEF ConsoleOf
  <2> QED BY <1>0, <1>4, <2>1, AdminAdmitted, ManagerAdmitted DEF MeantFor
<1>5. CASE name = "hr"
  <2>1. r.name \notin ServiceNames
    BY <1>0, <1>5, HrConsoleNames DEF ConsoleOf
  <2> QED BY <1>0, <1>5, <2>1, AdminAdmitted DEF MeantFor
<1>6. CASE name = "operator"
  <2>1. r.name \notin AdminNames \cup ServiceNames \cup FinanceNames \cup OversightNames \cup SupervisorNames
    BY <1>0, <1>6, OperatorAppNames DEF ConsoleOf
  <2> QED BY <1>0, <1>6, <2>1, AdminAdmitted, OperatorAdmitted DEF MeantFor
<1>7. CASE name \notin {"ops", "ops_admin", "finance", "manager", "hr", "operator"}
  <2>1. r.name \notin AdminNames \cup ServiceNames \cup SupervisorNames \cup FinanceNames
    BY <1>0, <1>7, AnalyticsConsoleNames DEF ConsoleOf
  <2>2. "control_battery" \in SupervisorNames
    BY DEF SupervisorNames
  <2> QED BY <1>0, <1>7, <2>1, <2>2, AdminAdmitted, ManagerAdmitted, FinanceAdmitted DEF MeantFor
<1> QED BY <1>1, <1>2, <1>3, <1>4, <1>5, <1>6, <1>7

\* And so is what it offers them, where the console and the API do not disagree.
LEMMA Offering ==
  ASSUME NEW name, NEW actor, MeantFor(name, actor), NEW h \in ConsoleOf(name).handlers,
         h.routes # {}, name = "finance" => Offers(h, actor), ~Gap(name, h, actor), NEW r \in RoutesNamed(h.routes)
  PROVE  Admits(actor, r) /\ ~MayRefuseRow(actor, r)
<1>0. r \in Routes /\ r.name \in h.routes
  BY DEF RoutesNamed
<1>1. CASE name = "ops"
  <2>1. r.name \notin AdminNames \cup ServiceNames \cup FinanceNames \cup OversightNames
    BY <1>0, <1>1, OpsConsoleNames DEF ConsoleOf
  <2>2. CASE IsSystemAdmin(actor)
    BY <1>0, <2>1, <2>2, AdminAdmitted
  <2>3. CASE ~IsSystemAdmin(actor)
    <3>1. r.name \notin PaperNames /\ (r.name = "control_battery" => DataScope(actor).all)
      BY <1>0, <1>1, <2>3, OpsConsoleRows DEF ConsoleOf, Gap
    <3> QED BY <1>0, <1>1, <2>1, <2>3, <3>1, ManagerAdmitted, SupervisorAdmitted, RowsAllowed DEF MeantFor
  <2> QED BY <2>2, <2>3
<1>2. CASE name = "ops_admin"
  <2>1. r.name \notin ServiceNames
    BY <1>0, <1>2, OpsAdminConsoleNames DEF ConsoleOf
  <2> QED BY <1>0, <1>2, <2>1, AdminAdmitted DEF MeantFor
<1>3. CASE name = "finance"
  <2>1. r.name \notin AdminNames \cup ServiceNames \cup SupervisorNames \cup PaperNames \cup {"control_battery"}
    BY <1>0, <1>3, FinanceConsoleNames DEF ConsoleOf
  <2>2. h \in {AdjustmentForm, PaymentForm, PaymentCsv, PerformanceCsv, SandboxAccount, SandboxDeposit, ClosePeriod}
    BY <1>3 DEF ConsoleOf, FinanceConsole, Console
  <2>3. CanFinanceMutate(actor)
    BY <1>3, <2>2 DEF Offers, Gap
  <2> QED BY <1>0, <2>1, <2>3, AdminAdmitted, FinanceAdmitted, RowsAllowed DEF CanFinanceMutate
<1>4. CASE name = "manager"
  <2>1. r.name \notin AdminNames \cup ServiceNames \cup FinanceNames \cup PaperNames \cup {"control_battery"}
    BY <1>0, <1>4, ManagerConsoleNames DEF ConsoleOf
  <2> QED BY <1>0, <1>4, <2>1, AdminAdmitted, ManagerAdmitted, RowsAllowed DEF MeantFor
<1>5. CASE name = "hr"
  <2>1. r.name \notin ServiceNames
    BY <1>0, <1>5, HrConsoleNames DEF ConsoleOf
  <2> QED BY <1>0, <1>5, <2>1, AdminAdmitted DEF MeantFor
<1>6. CASE name = "operator"
  <2>1. r.name \notin AdminNames \cup ServiceNames \cup FinanceNames \cup OversightNames \cup SupervisorNames \cup PaperNames
    BY <1>0, <1>6, OperatorAppNames DEF ConsoleOf
  <2>2. "control_battery" \in SupervisorNames
    BY DEF SupervisorNames
  <2> QED BY <1>0, <1>6, <2>1, <2>2, AdminAdmitted, OperatorAdmitted, RowsAllowed DEF MeantFor
<1>7. CASE name \notin {"ops", "ops_admin", "finance", "manager", "hr", "operator"}
  <2>1. h.routes = {}
    BY <1>7 DEF ConsoleOf, AnalyticsConsole, Console, Does
  <2> QED BY <2>1
<1> QED BY <1>1, <1>2, <1>3, <1>4, <1>5, <1>6, <1>7

\* What is true of a console, a handler and a viewer, whichever they are.
LEMMA LooksAreRight ==
  ASSUME NEW k \in Looks
  PROVE  /\ k.how.lock # "none" => k.how.clear = "none" /\ k.how.reads = "tap"
         /\ k.how.key = "row" => k.how.reads = "tap" /\ k.keyed
         /\ k.base.ticket => k.how.reload # "part"
         /\ k.gap \/ (k.opens /\ (k.acts => ~k.denies))
<1> PICK name \in Watched :
      k \in {Look(name, handler, viewer) : handler \in ConsoleOf(name).handlers, viewer \in Viewers(name)}
  BY DEF Looks
<1> PICK h \in ConsoleOf(name).handlers, actor \in Viewers(name) : k = Look(name, h, actor)
  OBVIOUS
<1>1. MeantFor(name, actor)
  BY ConsolesAssumption
<1>2. LooksRight(h, ConsoleOf(name).base.ticket)
  <2>1. CASE name \in {"ops", "ops_admin", "finance", "manager", "hr", "operator"}
    BY <2>1, OpsConsoleRight, OpsAdminConsoleRight, FinanceConsoleRight, ManagerConsoleRight, HrConsoleRight,
       OperatorAppRight DEF ConsoleOf
  <2>2. CASE name \notin {"ops", "ops_admin", "finance", "manager", "hr", "operator"}
    <3>1. ConsoleOf(name) = AnalyticsConsole
      BY <2>2 DEF ConsoleOf
    <3>2. AnalyticsConsole.base.ticket = FALSE /\ AnalyticsConsole.handlers = {Does(Button, {})}
      BY BaseIs DEF AnalyticsConsole, Console
    <3>3. LooksRight(Does(Button, {}), FALSE)
      BY ButtonIs DEF LooksRight, Does
    <3> QED BY <3>1, <3>2, <3>3
  <2> QED BY <2>1, <2>2
<1>3. /\ k.how = h.how /\ k.base = ConsoleOf(name).base
      /\ k.keyed = \A r \in RoutesNamed(h.routes) : r.keyed
      /\ k.opens = \A r \in RoutesNamed(ConsoleOf(name).hard) : Admits(actor, r)
      /\ k.acts = (h.routes # {} /\ (name = "finance" => Offers(h, actor)))
      /\ k.denies = \E r \in RoutesNamed(h.routes) : ~Admits(actor, r) \/ MayRefuseRow(actor, r)
      /\ k.gap = Gap(name, h, actor)
  BY DEF Look
<1>4. k.how.key = "row" => k.keyed
  BY <1>2, <1>3, Needs DEF LooksRight, RoutesNamed, NeedsRight
<1>5. k.gap \/ k.opens
  BY <1>1, <1>3, Opening DEF Gap
<1>6. k.gap \/ (k.acts => ~k.denies)
  BY <1>1, <1>3, Offering
<1> QED BY <1>2, <1>3, <1>4, <1>5, <1>6 DEF LooksRight

------------------------------------------------------------------------------
(* Nobody is refused *)

\* What is on the way is on the way for somebody who may act.
Welcome == look.gap \/ ("refused" \notin marks /\ (taps # {} \/ open # Nobody => look.acts))

\* The marks a step may leave.
LEMMA MarksOf ==
  /\ \A l : Overtaken(l) \subseteq {"overtaken"}
  /\ \A ts : Unlocking(ts) \subseteq {"unlocked"}
  /\ \A ts : Freeing(ts) \subseteq {"unlocked"}
  BY DEF Overtaken, Unlocking, Freeing

\* No step of a load drops a dialog, and it is refused only if a read is.
LEMMA LoadMarks ==
  ASSUME NEW l \in loads, FixRange(l) \/ ReadRows(l) \/ ShowRows(l) \/ DropLoad(l) \/ FailLoad(l),
         NEW m \in marks' \ marks
  PROVE  m \in {"overtaken", "unlocked"} \/ (m = "refused" /\ ~look.opens)
<1>1. CASE FixRange(l)
  BY <1>1, MarksOf DEF FixRange
<1>2. CASE ReadRows(l) \/ DropLoad(l)
  BY <1>2 DEF ReadRows, DropLoad
<1>3. CASE ShowRows(l)
  <2>1. marks' \subseteq marks \cup Overtaken(l) \cup Unlocking(By(l))
    BY <1>3 DEF ShowRows
  <2> QED BY <2>1, MarksOf
<1>4. CASE FailLoad(l)
  <2>1. marks' = marks \cup Freeing(By(l)) \/ (~look.opens /\ marks' = marks \cup {"refused"} \cup Freeing(By(l)))
    BY <1>4 DEF FailLoad
  <2> QED BY <2>1, MarksOf
<1> QED BY <1>1, <1>2, <1>3, <1>4

\* No step of a handler does, and it is refused only if what it calls is.
LEMMA TapMarks ==
  ASSUME NEW t \in taps, Send(t) \/ Effect(t) \/ Refused(t) \/ Lose(t) \/ Reply(t), NEW m \in marks' \ marks
  PROVE  m = "unlocked" \/ (m = "refused" /\ look.denies)
<1>1. marks' \subseteq marks \cup Freeing({t}) \/ (look.denies /\ marks' = marks \cup {"refused"} \cup Freeing({t}))
  <2>1. CASE Send(t)
    BY <2>1 DEF Send
  <2>2. CASE Refused(t)
    BY <2>2 DEF Refused
  <2>3. CASE Effect(t) \/ Lose(t) \/ Reply(t)
    BY <2>3 DEF Effect, Lose, Reply
  <2> QED BY <2>1, <2>2, <2>3
<1> QED BY <1>1, MarksOf

\* No step changes who looks at which console and handler.
LEMMA LookKept == [Next]_vars => look' = look
  BY DEF Next, vars, Refresh, Cancel, Confirm, Timeout, Select, Tap, Open, FixRange, ReadRows, ShowRows, DropLoad,
         FailLoad, Send, Effect, Refused, Lose, Reply, Fail, page

\* No step refuses anybody.
LEMMA WelcomeStep == Sane /\ Welcome /\ [Next]_vars => Welcome'
<1> SUFFICES ASSUME Sane, Welcome, [Next]_vars, ~look.gap PROVE Welcome'
  BY LookKept DEF Welcome
<1>0. /\ look \in Looks /\ look.opens /\ (look.acts => ~look.denies)
      /\ "refused" \notin marks /\ (taps # {} \/ open # Nobody => look.acts)
  BY LooksAreRight DEF Sane, Welcome
<1>1. ASSUME Refresh \/ Cancel \/ Timeout \/ \E x \in Things : Select(x) \/ Open(x) PROVE Welcome'
  BY <1>0, <1>1, MarksOf DEF Refresh, Cancel, Timeout, Select, Open, page, Welcome
<1>2. ASSUME Confirm \/ \E x \in Things : Tap(x) PROVE Welcome'
  <2>1. look.acts /\ look' = look
    BY <1>0, <1>2 DEF Confirm, Tap, page
  <2>2. "refused" \notin marks'
    BY <1>0, <1>2 DEF Confirm, Tap
  <2> QED BY <2>1, <2>2 DEF Welcome
<1>3. ASSUME NEW l \in loads, FixRange(l) \/ ReadRows(l) \/ ShowRows(l) \/ DropLoad(l) \/ FailLoad(l) PROVE Welcome'
  <2>1. look' = look /\ taps' \subseteq taps /\ open' = open
    BY <1>3 DEF FixRange, ReadRows, ShowRows, DropLoad, FailLoad, Finish, page
  <2>2. "refused" \notin marks'
    BY <1>0, <1>3, LoadMarks
  <2> QED BY <1>0, <2>1, <2>2 DEF Welcome
<1>4. ASSUME NEW t \in taps, Send(t) \/ Effect(t) \/ Refused(t) \/ Lose(t) \/ Reply(t) PROVE Welcome'
  <2>0. look.acts
    BY <1>0
  <2>1. look' = look
    BY <1>4 DEF Send, Effect, Refused, Lose, Reply, Fail, page
  <2>2. "refused" \notin marks'
    BY <1>0, <1>4, <2>0, TapMarks
  <2> QED BY <2>0, <2>1, <2>2 DEF Welcome
<1>5. CASE UNCHANGED vars
  BY <1>0, <1>5 DEF vars, Welcome
<1> QED BY <1>1, <1>2, <1>3, <1>4, <1>5 DEF Next

\* A console opens for everybody it is meant for, with whatever roles and assignments,
\* and what it offers him the API does not refuse: but where Gap says so, which is all
\* the disagreement there is between the consoles and the routes.
THEOREM ConsolesWork == Spec => []ConsoleWorks
<1>1. Init => Welcome
  BY DEF Init, Welcome
<1>2. Welcome => ConsoleWorks
  BY DEF Welcome, ConsoleWorks
<1> QED BY <1>1, <1>2, PagesAreSane, WelcomeStep, PTL DEF Spec

------------------------------------------------------------------------------
(* No confirmed dialog is dropped *)

\* A dialog that forgets its row first, when it is confirmed, holds it until then.
RowHeld == look.how.clear = "first" => "dropped" \notin marks /\ (open # Nobody => pick # Nobody)

\* No step lets go of the row of an open dialog.
LEMMA RowHeldStep == Sane /\ RowHeld /\ [Next]_vars => RowHeld'
<1> SUFFICES ASSUME Sane, RowHeld, look.how.clear = "first", [Next]_vars PROVE RowHeld'
  BY DEF RowHeld, Next, vars, Refresh, Cancel, Confirm, Timeout, Select, Tap, Open, FixRange, ReadRows, ShowRows,
     DropLoad,
         FailLoad, Send, Effect, Refused, Lose, Reply, Fail, page
<1>0. "dropped" \notin marks /\ (open # Nobody => pick # Nobody)
  BY DEF RowHeld
<1>1. ASSUME Refresh \/ Cancel \/ Timeout \/ \E x \in Things : Select(x) \/ Tap(x) PROVE RowHeld'
  BY <1>0, <1>1, MarksOf DEF Refresh, Cancel, Timeout, Select, Tap, page, RowHeld
<1>2. ASSUME NEW x \in Things, Open(x) PROVE RowHeld'
  <2>1. x # Nobody
    BY ConsolesAssumption DEF Nobody
  <2> QED BY <1>0, <1>2, <2>1 DEF Open, page, RowHeld
<1>3. ASSUME Confirm PROVE RowHeld'
  BY <1>0, <1>3 DEF Confirm, page, RowHeld
<1>4. ASSUME NEW l \in loads, FixRange(l) \/ ReadRows(l) \/ ShowRows(l) \/ DropLoad(l) \/ FailLoad(l) PROVE RowHeld'
  <2>1. look' = look /\ pick' = pick /\ open' = open
    BY <1>4 DEF FixRange, ReadRows, ShowRows, DropLoad, FailLoad, Finish, page
  <2>2. "dropped" \notin marks'
    BY <1>0, <1>4, LoadMarks
  <2> QED BY <1>0, <2>1, <2>2 DEF RowHeld
<1>5. ASSUME NEW t \in taps, Send(t) \/ Effect(t) \/ Refused(t) \/ Lose(t) \/ Reply(t) PROVE RowHeld'
  <2>1. look' = look /\ pick' = pick /\ open' = open
    BY <1>5 DEF Send, Effect, Refused, Lose, Reply, Fail, Finish, page
  <2>2. "dropped" \notin marks'
    BY <1>0, <1>5, TapMarks
  <2> QED BY <1>0, <2>1, <2>2 DEF RowHeld
<1>6. CASE UNCHANGED vars
  BY <1>6 DEF vars, RowHeld
<1> QED BY <1>1, <1>2, <1>3, <1>4, <1>5, <1>6 DEF Next

\* A confirmed dialog acts, for any rows, loads and handlers under way.
THEOREM NothingIsDropped == Spec => []NothingDropped
<1>1. Init => RowHeld
  BY DEF Init, RowHeld
<1>2. RowHeld => NothingDropped
  BY DEF RowHeld, NothingDropped
<1> QED BY <1>1, <1>2, PagesAreSane, RowHeldStep, PTL DEF Spec

------------------------------------------------------------------------------
(* What is told is done *)

\* A handler acts on the row it was started for, whose key is its own; it is past the
\* call only if the API has done it.
Done(x) == x \in Things /\ hits[x] > 0
Acting(t) == t.names = t.want /\ t.key \in {Nobody, t.want} /\ (t.at \in {"answered", "loading"} => Done(t.want))
\* All handlers do what the user meant, and what he is told is done.
Faithful ==
  /\ \A t \in taps : Acting(t)
  /\ \A x \in answered \cup told : Done(x)
\* The row, and its key, are those of the moment of the tap.
MeantEarly == look.how.reads = "tap" /\ look.how.key # "late"

\* A handler that moves on, without doing anything.
LEMMA FaithfulKept ==
  ASSUME Sane, Faithful, taps' \subseteq taps, UNCHANGED <<look, hits, answered>>,
         \A x \in told' : x \in told \/ \E t \in taps : t.at \in {"answered", "loading"} /\ x = t.want
  PROVE  Faithful'
  BY DEF Faithful, Acting, Done

\* A handler that begins, or is sent.
LEMMA FaithfulNew ==
  ASSUME Sane, Faithful, NEW n, taps' \subseteq taps \cup {n}, n.names = n.want, n.key \in {Nobody, n.want},
         n.at \in {"before", "sent"} \/ Done(n.want), UNCHANGED <<look, hits, answered, told>>
  PROVE  Faithful'
  BY DEF Faithful, Acting, Done

\* A load that ends with its handler tells of what was done.
LEMMA FaithfulLoads ==
  ASSUME Sane, Faithful, NEW l \in loads, FixRange(l) \/ ReadRows(l) \/ ShowRows(l) \/ DropLoad(l) \/ FailLoad(l)
  PROVE  Faithful'
<1>1. By(l) \subseteq taps /\ \A t \in By(l) : t.at = "loading"
  BY DEF By, Sane
<1>2. taps' \subseteq taps /\ UNCHANGED <<look, hits, answered>>
  BY DEF FixRange, ReadRows, ShowRows, DropLoad, FailLoad, Finish, page
<1>3. told' \subseteq told \cup {t.want : t \in By(l)}
  BY DEF FixRange, ReadRows, ShowRows, DropLoad, FailLoad, Finish
<1> QED BY <1>1, <1>2, <1>3, FaithfulKept

\* Requests, answers and their loss.
LEMMA FaithfulTaps ==
  ASSUME Sane, MeantEarly, Faithful, NEW t \in taps, Send(t) \/ Effect(t) \/ Refused(t) \/ Lose(t) \/ Reply(t)
  PROVE  Faithful'
<1>0. TapShape(t) /\ Acting(t) /\ hits \in [Things -> Nat]
  BY DEF Sane, Faithful
<1>1. CASE Send(t) /\ Meant(t) # Nobody
  <2> DEFINE n == Asked(t)
  <2>2. n.want = t.want /\ n.names = Meant(t) /\ n.key = KeyRow(t.want) /\ n.at = "sent"
    BY <1>0, AskedIs DEF TapShape
  <2>3. taps' = (taps \ {t}) \cup {n} /\ UNCHANGED <<look, hits, answered, told>>
    BY <1>1 DEF Send, page
  <2> HIDE DEF n
  <2>4. n.names = n.want /\ n.key \in {Nobody, n.want}
    BY <2>2 DEF MeantEarly, Meant, KeyRow
  <2> QED BY <2>2, <2>3, <2>4, FaithfulNew
<1>2. CASE (Send(t) /\ Meant(t) = Nobody) \/ Refused(t) \/ Lose(t)
  <2>1. taps' \subseteq taps /\ UNCHANGED <<look, hits, answered>> /\ told' = told
    BY <1>2 DEF Send, Refused, Lose, Fail, Finish, page
  <2> QED BY <2>1, FaithfulKept
<1>3. CASE Effect(t)
  <2> DEFINE n == [t EXCEPT !.at = "answered"]
  <2>2. n.want = t.want /\ n.names = t.names /\ n.key = t.key /\ n.at = "answered"
    BY <1>0 DEF TapShape
  <2>3. taps' = (taps \ {t}) \cup {n} /\ UNCHANGED <<look, told>>
    BY <1>3 DEF Effect, page
  <2> HIDE DEF n
  <2>4. hits' = IF t.key \in answered THEN hits ELSE [hits EXCEPT ![t.want] = @ + 1]
    BY <1>0, <1>3 DEF Effect, Acting
  <2>5. t.want \in Things
    BY <1>0 DEF TapShape
  <2>6. \A x \in Things : hits'[x] \in Nat /\ hits'[x] >= hits[x]
    BY <1>0, <2>4, <2>5
  <2>7. hits'[t.want] > 0
    <3>1. CASE t.key \in answered
      <4>1. Done(t.key) /\ t.key # Nobody
        BY <3>1, ConsolesAssumption DEF Faithful, Done, Nobody
      <4>2. t.key = t.want
        BY <1>0, <4>1 DEF Acting
      <4> QED BY <2>4, <3>1, <4>1, <4>2 DEF Done
    <3>2. CASE t.key \notin answered
      BY <1>0, <2>4, <2>5, <3>2
    <3> QED BY <3>1, <3>2
  <2>8. answered' = answered \/ (answered' = answered \cup {t.want})
    <3>1. answered' = answered \/ (answered' = answered \cup {t.key} /\ t.key # Nobody)
      BY <1>3 DEF Effect
    <3> QED BY <1>0, <3>1 DEF Acting
  <2>9. \A x : Done(x) => Done(x)'
    BY <1>0, <2>6 DEF Done
  <2>10. Done(t.want)'
    BY <2>5, <2>7 DEF Done
  <2>11. \A s \in taps : Acting(s)'
    BY <2>9 DEF Faithful, Acting
  <2>12. Acting(n)'
    BY <1>0, <2>2, <2>10 DEF Acting
  <2> QED BY <2>3, <2>8, <2>9, <2>10, <2>11, <2>12 DEF Faithful
<1>4. CASE Reply(t)
  <2> DEFINE n == [t EXCEPT !.at = "loading"]
  <2>1. Done(t.want) /\ t.at = "answered"
    BY <1>0, <1>4 DEF Reply, Acting
  <2>2. n.want = t.want /\ n.names = t.names /\ n.key = t.key
    BY <1>0 DEF TapShape
  <2>3. CASE look.how.reload = "none"
    <3>1. taps' \subseteq taps /\ told' = told \cup {t.want} /\ UNCHANGED <<look, hits, answered>>
      BY <1>4, <2>3 DEF Reply, Finish, page
    <3> QED BY <2>1, <3>1, FaithfulKept
  <2>4. CASE look.how.reload # "none"
    <3>1. taps' = (taps \ {t}) \cup {n} /\ UNCHANGED <<look, hits, answered, told>>
      BY <1>4, <2>4 DEF Reply, page
    <3> HIDE DEF n
    <3> QED BY <1>0, <2>1, <2>2, <3>1, FaithfulNew DEF Acting
  <2> QED BY <2>3, <2>4
<1> QED BY <1>1, <1>2, <1>3, <1>4

\* A handler that begins means the row pressed.
LEMMA FaithfulStarts ==
  ASSUME Sane, MeantEarly, Faithful, NEW x, Start(x), UNCHANGED <<look, hits, answered, told>>
  PROVE  Faithful'
<1> PICK n : /\ taps' = taps \cup {n} /\ n.want = x /\ n.at \in {"before", "sent"}
             /\ \/ n.names = x /\ n.key = Nobody
                \/ n.names = (IF look.how.reads = "late" THEN pick ELSE x) /\ n.key = KeyRow(x)
  BY StartIs
<1>1. n.names = n.want /\ n.key \in {Nobody, n.want}
  BY DEF MeantEarly, KeyRow
<1> QED BY <1>1, FaithfulNew

\* No step tells of what was not done.
LEMMA FaithfulStep == Sane /\ (MeantEarly => Faithful) /\ [Next]_vars => (MeantEarly => Faithful)'
<1> SUFFICES ASSUME Sane, MeantEarly => Faithful, MeantEarly', [Next]_vars PROVE Faithful'
  OBVIOUS
<1>0. look' = look
  BY DEF Next, vars, Refresh, Cancel, Confirm, Timeout, Select, Tap, Open, FixRange, ReadRows, ShowRows, DropLoad,
         FailLoad, Send, Effect, Refused, Lose, Reply, Fail, page
<1>1. MeantEarly /\ Faithful
  BY <1>0 DEF MeantEarly
<1>2. ASSUME Refresh \/ Cancel \/ Timeout \/ (Confirm /\ pick = Nobody) \/ \E x \in Things : Select(x) \/ Open(x)
      PROVE Faithful'
  <2>1. UNCHANGED <<taps, hits, answered, told>>
    BY <1>2 DEF Refresh, Cancel, Timeout, Confirm, Select, Open
  <2> QED BY <1>1, <2>1 DEF Faithful, Acting, Done
<1>3. ASSUME (Confirm /\ pick # Nobody) \/ \E x \in Things : Tap(x) PROVE Faithful'
  <2>1. (\E x : Start(x)) /\ UNCHANGED <<hits, answered, told>>
    BY <1>3 DEF Confirm, Tap
  <2> QED BY <1>0, <1>1, <2>1, FaithfulStarts
<1>4. CASE UNCHANGED vars
  BY <1>1, <1>4 DEF vars, Faithful, Acting, Done
<1> QED BY <1>1, <1>2, <1>3, <1>4, FaithfulLoads, FaithfulTaps DEF Next

\* What the user was told is done is done to the row he meant, for any number of rows,
\* handlers, loads and lost answers.
THEOREM ToldTrue == Spec => []ToldIsDone
<1>1. Init => Faithful
  BY DEF Init, Faithful
<1>2. Sane /\ (MeantEarly => Faithful) => ToldIsDone
  BY DEF MeantEarly, Faithful, Done, ToldIsDone
<1> QED BY <1>1, <1>2, PagesAreSane, FaithfulStep, PTL DEF Spec

------------------------------------------------------------------------------
(* What has a key of its row is done once *)

\* The key a request carries is of its row, and the API remembers every one it acted on.
Remembered ==
  /\ \A t \in taps : t.names = t.want /\ (t.at # "before" => t.key = t.want)
  /\ \A x \in Things : hits[x] = 0 \/ (hits[x] = 1 /\ x \in answered)
\* So where the key is of the row.
OncePerRow == look.how.key = "row" => Remembered

\* A handler that ends, moves on without a call, or begins.
LEMMA RememberedKept ==
  ASSUME Remembered, NEW n, taps' \subseteq taps \cup {n},
         n \in taps \/ (n.names = n.want /\ (n.at # "before" => n.key = n.want)),
         UNCHANGED <<hits, answered>>
  PROVE  Remembered'
  BY DEF Remembered

\* The API acts for a key it has not seen, and answers one it has.
LEMMA RememberedEffect ==
  ASSUME Sane, look.how.key = "row", Remembered, NEW t \in taps, Effect(t)
  PROVE  Remembered'
<1> DEFINE n == [t EXCEPT !.at = "answered"]
<1>1. TapShape(t) /\ hits \in [Things -> Nat] /\ look.keyed
  BY LooksAreRight DEF Sane
<1>2. n.want = t.want /\ n.names = t.names /\ n.key = t.key
  BY <1>1 DEF TapShape
<1>3. taps' = (taps \ {t}) \cup {n}
  BY DEF Effect
<1> HIDE DEF n
<1>4. t.want \in Things /\ t.want # Nobody /\ t.names = t.want /\ t.key = t.want
  BY <1>1, ConsolesAssumption DEF TapShape, Remembered, Effect, Nobody
<1>5. answered' = answered \cup {t.want}
  BY <1>1, <1>4 DEF Effect
<1>6. hits' = IF t.want \in answered THEN hits ELSE [hits EXCEPT ![t.want] = @ + 1]
  BY <1>4 DEF Effect
<1>7. \A x \in Things : hits'[x] = 0 \/ (hits'[x] = 1 /\ x \in answered')
  <2>1. CASE t.want \in answered
    BY <1>5, <1>6, <2>1 DEF Remembered
  <2>2. CASE t.want \notin answered
    <3>1. hits[t.want] = 0
      BY <1>4, <2>2 DEF Remembered
    <3>2. hits' = [hits EXCEPT ![t.want] = 1]
      BY <1>4, <1>6, <2>2, <3>1
    <3> QED BY <1>1, <1>4, <1>5, <3>2 DEF Remembered
  <2> QED BY <2>1, <2>2
<1> QED BY <1>2, <1>3, <1>4, <1>7 DEF Remembered

\* A handler that begins.
LEMMA RememberedStarts ==
  ASSUME Sane, look.how.key = "row", Remembered, NEW x, Start(x), UNCHANGED <<hits, answered>>
  PROVE  Remembered'
<1> PICK n : /\ taps' = taps \cup {n} /\ n.want = x
             /\ \/ n.at = "before" /\ n.names = x
                \/ n.names = (IF look.how.reads = "late" THEN pick ELSE x) /\ n.key = KeyRow(x)
  BY StartIs
<1>1. look.how.reads = "tap"
  BY LooksAreRight DEF Sane
<1>2. n.names = n.want /\ (n.at # "before" => n.key = n.want)
  BY <1>1 DEF KeyRow
<1> QED BY <1>2, RememberedKept

\* A handler that ends or goes on without the API acting.
LEMMA RememberedTaps ==
  ASSUME Sane, look.how.key = "row", Remembered, NEW t \in taps, Send(t) \/ Refused(t) \/ Lose(t) \/ Reply(t)
  PROVE  Remembered'
<1>0. TapShape(t) /\ look.how.reads = "tap"
  BY LooksAreRight DEF Sane
<1>1. CASE Send(t) /\ Meant(t) # Nobody
  <2> DEFINE n == Asked(t)
  <2>1. n.want = t.want /\ n.names = Meant(t) /\ n.key = KeyRow(t.want)
    BY <1>0, AskedIs DEF TapShape
  <2>2. taps' = (taps \ {t}) \cup {n} /\ UNCHANGED <<hits, answered>>
    BY <1>1 DEF Send
  <2> HIDE DEF n
  <2>3. n.names = n.want /\ n.key = n.want
    BY <1>0, <2>1 DEF Meant, KeyRow
  <2> QED BY <2>2, <2>3, RememberedKept
<1>2. CASE (Send(t) /\ Meant(t) = Nobody) \/ Refused(t) \/ Lose(t) \/ (Reply(t) /\ look.how.reload = "none")
  <2>1. taps' \subseteq taps /\ UNCHANGED <<hits, answered>>
    BY <1>2 DEF Send, Refused, Lose, Reply, Fail, Finish
  <2> QED BY <2>1, RememberedKept
<1>3. CASE Reply(t) /\ look.how.reload # "none"
  <2> DEFINE n == [t EXCEPT !.at = "loading"]
  <2>1. n.want = t.want /\ n.names = t.names /\ n.key = t.key
    BY <1>0 DEF TapShape
  <2>2. taps' = (taps \ {t}) \cup {n} /\ UNCHANGED <<hits, answered>> /\ t.at = "answered"
    BY <1>3 DEF Reply
  <2> HIDE DEF n
  <2>3. n.names = n.want /\ n.key = n.want
    BY <2>1, <2>2 DEF Remembered
  <2> QED BY <2>2, <2>3, RememberedKept
<1> QED BY <1>1, <1>2, <1>3 DEF Send

\* No step acts twice for the key of a row.
LEMMA OncePerRowStep == Sane /\ OncePerRow /\ [Next]_vars => OncePerRow'
<1> SUFFICES ASSUME Sane, OncePerRow, [Next]_vars, look'.how.key = "row" PROVE Remembered'
  BY DEF OncePerRow
<1>0. look.how.key = "row" /\ Remembered
  BY LookKept DEF OncePerRow
<1>1. ASSUME Refresh \/ Cancel \/ Timeout \/ (Confirm /\ pick = Nobody) \/ \E x \in Things : Select(x) \/ Open(x)
      PROVE Remembered'
  <2>1. UNCHANGED <<taps, hits, answered>>
    BY <1>1 DEF Refresh, Cancel, Timeout, Confirm, Select, Open
  <2> QED BY <1>0, <2>1 DEF Remembered
<1>2. ASSUME (Confirm /\ pick # Nobody) \/ \E x \in Things : Tap(x) PROVE Remembered'
  <2>1. (\E x : Start(x)) /\ UNCHANGED <<hits, answered>>
    BY <1>2 DEF Confirm, Tap
  <2> QED BY <1>0, <2>1, RememberedStarts
<1>3. ASSUME NEW l \in loads, FixRange(l) \/ ReadRows(l) \/ ShowRows(l) \/ DropLoad(l) \/ FailLoad(l)
      PROVE  Remembered'
  <2>1. taps' \subseteq taps /\ UNCHANGED <<hits, answered>>
    BY <1>3 DEF FixRange, ReadRows, ShowRows, DropLoad, FailLoad, Finish
  <2> QED BY <1>0, <2>1 DEF Remembered
<1>4. CASE UNCHANGED vars
  BY <1>0, <1>4 DEF vars, Remembered
<1> QED BY <1>0, <1>1, <1>2, <1>3, <1>4, RememberedEffect, RememberedTaps DEF Next

------------------------------------------------------------------------------
(* What goes inactive when it is sent is done once *)

\* A button is inactive from the tap until its handler ends: no row has two handlers,
\* and what was done has its handler still, or the user has been told.
Guarded ==
  /\ open = Nobody
  /\ \A t \in taps : Locking(t.want) \subseteq locked /\ t.names = t.want
  /\ \A s, t \in taps : s.want = t.want \/ look.how.lock # "row" => s = t
  /\ \A t \in taps : t.at \in {"before", "sent"} => hits[t.want] = 0
  /\ \A x \in Things : \/ hits[x] = 0
                       \/ hits[x] = 1 /\ (x \in told \/ \E t \in taps : t.want = x /\ t.at \in {"answered", "loading"})
\* No call without an answer, no button made active early.
NoneFree == look.how.lock # "none" /\ faults = 0 /\ "unlocked" \notin marks
OneByOne == NoneFree => Guarded

\* The button pressed is one of those that go inactive.
LEMMA OwnButton ==
  ASSUME look.how.lock # "none", NEW x \in Things
  PROVE  x \in Locking(x) /\ Locking(x) \subseteq Things /\ (look.how.lock # "row" => Locking(x) = Things)
  BY DEF Locking

\* Handlers that end and say so; the buttons of the others stay inactive.
LEMMA GuardedEnd ==
  ASSUME Sane, look.how.lock # "none", Guarded, NEW ts \in SUBSET taps, taps' = taps \ ts,
         UNCHANGED <<look, open, hits>>, locked' = AfterEnd(ts) \/ taps' = {}, told \subseteq told',
         \A t \in ts : t.at \in {"before", "sent"} \/ t.want \in told'
  PROVE  Guarded'
<1>1. \A t \in taps : t.want \in Things /\ t.want \in Locking(t.want)
  BY OwnButton DEF Sane, TapShape
<1>2. \A t \in taps' : Locking(t.want) \subseteq locked'
  <2> SUFFICES ASSUME NEW t \in taps' PROVE Locking(t.want) \subseteq locked'
    OBVIOUS
  <2>1. locked' = AfterEnd(ts) /\ t \in taps /\ t \notin ts /\ Locking(t.want) \subseteq locked
    BY DEF Guarded
  <2>2. CASE look.how.lock = "row"
    <3>1. Locking(t.want) = {t.want} /\ t.want \notin {s.want : s \in ts}
      BY <2>1, <2>2 DEF Guarded, Locking
    <3>2. locked' = locked \/ locked' = locked \ {s.want : s \in ts}
      BY <2>1, <2>2 DEF AfterEnd
    <3> QED BY <2>1, <3>1, <3>2
  <2>3. CASE look.how.lock # "row"
    <3>1. ts = {}
      BY <2>1, <2>3 DEF Guarded
    <3> QED BY <2>1, <3>1 DEF AfterEnd
  <2> QED BY <2>2, <2>3
<1>3. \A t \in taps' : (Locking(t.want))' = Locking(t.want)
  BY DEF Locking
<1>4. \A x \in Things : \/ hits'[x] = 0
                        \/ hits'[x] = 1 /\ (x \in told' \/ \E t \in taps' : t.want = x /\ t.at \in {"answered", "loading"})
  <2> SUFFICES ASSUME NEW x \in Things
               PROVE \/ hits'[x] = 0
                     \/ hits'[x] = 1 /\ (x \in told' \/ \E t \in taps' : t.want = x /\ t.at \in {"answered", "loading"})
    OBVIOUS
  <2>1. CASE hits[x] = 0 \/ x \in told
    BY <2>1 DEF Guarded
  <2>2. CASE hits[x] # 0 /\ x \notin told
    <3>1. PICK t \in taps : hits[x] = 1 /\ t.want = x /\ t.at \in {"answered", "loading"}
      BY <2>2 DEF Guarded
    <3>2. t \in ts => x \in told'
      BY <3>1
    <3> QED BY <3>1, <3>2
  <2> QED BY <2>1, <2>2
<1> QED BY <1>2, <1>3, <1>4 DEF Guarded

\* A handler that moves on.
LEMMA GuardedMoves ==
  ASSUME Sane, look.how.lock # "none", Guarded, NEW t \in taps, NEW n, taps' = (taps \ {t}) \cup {n},
         n.want = t.want, n.names = t.want, n.at \in {"before", "sent"} => hits'[t.want] = 0,
         t.at \in {"answered", "loading"} => n.at \in {"answered", "loading"},
         \A x \in Things \ {t.want} : hits'[x] = hits[x],
         \/ hits'[t.want] = hits[t.want]
         \/ hits'[t.want] = 1 /\ n.at = "answered",
         UNCHANGED <<look, open, locked, told>>
  PROVE  Guarded'
<1>1. \A s \in taps : s.want \in Things /\ t.want \in Things
  BY DEF Sane, TapShape
<1>2. \A s \in taps : (Locking(s.want))' = Locking(s.want) /\ (Locking(n.want))' = Locking(t.want)
  BY DEF Locking
<1>3. \A s \in taps' : (Locking(s.want))' \subseteq locked' /\ s.names = s.want
  BY <1>2 DEF Guarded
<1>4. \A r, s \in taps' : r.want = s.want \/ look.how.lock # "row" => r = s
  BY DEF Guarded
<1>5. \A s \in taps' : s.at \in {"before", "sent"} => hits'[s.want] = 0
  BY <1>1 DEF Guarded
<1>6. \A x \in Things : \/ hits'[x] = 0
                        \/ hits'[x] = 1 /\ (x \in told' \/ \E s \in taps' : s.want = x /\ s.at \in {"answered", "loading"})
  <2> SUFFICES ASSUME NEW x \in Things
               PROVE \/ hits'[x] = 0
                     \/ hits'[x] = 1 /\ (x \in told' \/ \E s \in taps' : s.want = x /\ s.at \in {"answered", "loading"})
    OBVIOUS
  <2>1. CASE hits'[x] = hits[x] /\ hits[x] = 0
    BY <2>1
  <2>2. CASE hits'[x] = hits[x] /\ hits[x] # 0 /\ x \in told
    BY <2>2 DEF Guarded
  <2>3. CASE hits'[x] = hits[x] /\ hits[x] # 0 /\ x \notin told
    <3>1. PICK s \in taps : hits[x] = 1 /\ s.want = x /\ s.at \in {"answered", "loading"}
      BY <2>3 DEF Guarded
    <3> QED BY <2>3, <3>1
  <2>4. CASE hits'[x] # hits[x]
    BY <2>4
  <2> QED BY <2>1, <2>2, <2>3, <2>4
<1> QED BY <1>3, <1>4, <1>5, <1>6 DEF Guarded

\* A button pressed is active, and nothing has been done for its row.
LEMMA GuardedStarts ==
  ASSUME Sane, look.how.lock # "none", Guarded, NEW x \in Things, x \notin locked, x \notin told, Start(x),
         UNCHANGED <<look, open, hits, told>>
  PROVE  Guarded'
<1> PICK n : /\ taps' = taps \cup {n} /\ n.want = x /\ n.at \in {"before", "sent"}
             /\ \/ n.names = x
                \/ n.names = (IF look.how.reads = "late" THEN pick ELSE x)
  BY StartIs
<1>0. look.how.reads = "tap"
  BY LooksAreRight DEF Sane
<1>1. \A s \in taps : s.want \in Things /\ s.want \in Locking(s.want) /\ Locking(s.want) \subseteq locked
  BY OwnButton DEF Sane, TapShape, Guarded
<1>2. \A s \in taps : s.want # x /\ look.how.lock = "row"
  <2>1. look.how.lock # "row" => \A s \in taps : Locking(s.want) = Things
    BY <1>1, OwnButton
  <2> QED BY <1>1, <2>1
<1>3. locked' = locked \cup Locking(x) /\ \A s \in taps' : (Locking(s.want))' = Locking(s.want)
  BY DEF Start, Locking
<1>4. \A s \in taps' : (Locking(s.want))' \subseteq locked' /\ s.names = s.want
  BY <1>0, <1>3 DEF Guarded
<1>5. \A r, s \in taps' : r.want = s.want \/ look.how.lock # "row" => r = s
  BY <1>2 DEF Guarded
<1>6. hits[x] = 0
  BY <1>2 DEF Guarded
<1> QED BY <1>4, <1>5, <1>6 DEF Guarded

\* A console that does not open shows nothing to press.
Shut == look.opens \/ (shown.range = Nobody /\ taps = {} /\ open = Nobody /\ \A l \in loads : l.at # "show")

LEMMA ShutStep == Sane /\ Shut /\ [Next]_vars => Shut'
<1> SUFFICES ASSUME Sane, Shut, [Next]_vars, ~look.opens PROVE Shut'
  BY LookKept DEF Shut
<1>0. shown.range = Nobody /\ taps = {} /\ open = Nobody /\ (\A l \in loads : l.at # "show") /\ look' = look
  BY LookKept DEF Shut
<1>1. CASE Refresh \/ \E x \in Things : Select(x)
  <2>1. Load("all", Nobody).at = "range"
    BY DEF Load
  <2>2. loads' = loads \cup {Load("all", Nobody)} /\ UNCHANGED <<shown, taps, open>>
    BY <1>1 DEF Refresh, Select, Begin
  <2> QED BY <1>0, <2>1, <2>2 DEF Shut
<1>2. CASE Cancel \/ Confirm \/ Timeout \/ \E x \in Things : Tap(x) \/ Open(x)
  <2>1. UNCHANGED <<shown, taps, open, loads>>
    BY <1>0, <1>2 DEF Cancel, Confirm, Timeout, Tap, Open
  <2> QED BY <1>0, <2>1 DEF Shut
<1>3. ASSUME NEW l \in loads, FixRange(l) \/ ReadRows(l) \/ ShowRows(l) \/ DropLoad(l) \/ FailLoad(l) PROVE Shut'
  <2>1. UNCHANGED <<shown, taps, open>>
    BY <1>0, <1>3 DEF FixRange, ReadRows, ShowRows, DropLoad, FailLoad, Finish, page
  <2>2. \A m \in loads' : m \in loads \/ m.at = "read"
    <3>1. CASE FixRange(l)
      <4>1. PICK r : loads' = (loads \ {l}) \cup {[l EXCEPT !.at = "read", !.range = r]}
        BY <3>1 DEF FixRange
      <4>2. [l EXCEPT !.at = "read", !.range = r].at = "read"
        BY DEF Sane, LoadShape
      <4> QED BY <4>1, <4>2
    <3>2. CASE ~FixRange(l)
      BY <1>0, <1>3, <3>2 DEF ReadRows, ShowRows, DropLoad, FailLoad
    <3> QED BY <3>1, <3>2
  <2> QED BY <1>0, <2>1, <2>2 DEF Shut
<1>4. CASE UNCHANGED vars
  BY <1>0, <1>4 DEF vars, Shut
<1> QED BY <1>0, <1>1, <1>2, <1>3, <1>4 DEF Next

\* A render, and the 15 s, make a button active only when no handler is under way.
LEMMA GuardedLoads ==
  ASSUME Sane, Shut, NoneFree, NoneFree', Guarded, NEW l \in loads,
         FixRange(l) \/ ReadRows(l) \/ ShowRows(l) \/ DropLoad(l) \/ FailLoad(l)
  PROVE  Guarded'
<1>0. look.how.lock # "none" /\ (look.opens \/ taps = {}) /\ By(l) \subseteq taps /\ (\A t \in By(l) : t.at = "loading")
  BY DEF Sane, NoneFree, By, Shut
<1>1. CASE FixRange(l) \/ ReadRows(l)
  <2>1. UNCHANGED <<look, open, taps, locked, hits, told>>
    BY <1>1 DEF FixRange, ReadRows, page
  <2> QED BY <2>1 DEF Guarded, Locking
<1>2. CASE ShowRows(l) \/ DropLoad(l)
  <2>1. /\ taps' = taps \ By(l) /\ told' = told \cup {t.want : t \in By(l)}
        /\ UNCHANGED <<look, open, hits>> /\ locked' \in {{}, AfterEnd(By(l))}
    BY <1>2 DEF ShowRows, DropLoad, Finish, page
  <2>2. locked' = AfterEnd(By(l)) \/ taps' = {}
    <3>1. CASE ShowRows(l) /\ Rendered
      <4>1. Unlocking(By(l)) \subseteq marks'
        BY <3>1 DEF ShowRows
      <4>2. locked = {} \/ taps = By(l)
        BY <4>1 DEF Unlocking, NoneFree
      <4>3. locked = {} => taps = {}
        BY <1>0, OwnButton DEF Guarded, Sane, TapShape
      <4> QED BY <2>1, <4>2, <4>3
    <3>2. CASE DropLoad(l) \/ ~Rendered
      BY <1>2, <3>2 DEF ShowRows, DropLoad
    <3> QED BY <1>2, <3>1, <3>2
  <2>3. told \subseteq told' /\ \A t \in By(l) : t.want \in told'
    BY <2>1
  <2> QED BY <1>0, <2>1, <2>2, <2>3, GuardedEnd
<1>3. CASE FailLoad(l)
  <2>1. ~look.opens
    BY <1>3 DEF FailLoad, NoneFree
  <2>2. taps' = {} /\ told' \in {told, told \cup {}} /\ UNCHANGED <<look, open, hits>>
    BY <1>0, <1>3, <2>1 DEF FailLoad, Finish, page
  <2> QED BY <1>0, <2>1, <2>2 DEF Guarded
<1> QED BY <1>1, <1>2, <1>3

\* A handler keeps its button until it ends.
LEMMA GuardedTaps ==
  ASSUME Sane, NoneFree, NoneFree', Guarded, NEW t \in taps,
         Send(t) \/ Effect(t) \/ Refused(t) \/ Lose(t) \/ Reply(t)
  PROVE  Guarded'
<1>0. look.how.lock # "none" /\ look.how.reads = "tap" /\ TapShape(t) /\ t.want # Nobody /\ hits \in [Things -> Nat]
  BY LooksAreRight, ConsolesAssumption DEF Sane, NoneFree, TapShape, Nobody
<1>1. CASE Send(t)
  <2> DEFINE n == Asked(t)
  <2>0. Meant(t) = t.want
    BY <1>0 DEF Meant
  <2>1. n.want = t.want /\ n.names = t.want /\ n.at = "sent"
    BY <1>0, <2>0, AskedIs DEF TapShape
  <2>2. taps' = (taps \ {t}) \cup {n} /\ UNCHANGED <<look, open, locked, told, hits>> /\ t.at = "before"
    BY <1>0, <1>1, <2>0 DEF Send, page
  <2> HIDE DEF n
  <2>3. hits'[t.want] = 0
    BY <2>2 DEF Guarded
  <2> QED BY <1>0, <2>1, <2>2, <2>3, GuardedMoves
<1>2. CASE Effect(t)
  <2> DEFINE n == [t EXCEPT !.at = "answered"]
  <2>1. n.want = t.want /\ n.names = t.names /\ n.at = "answered" /\ t.names = t.want
    BY <1>0 DEF TapShape, Guarded
  <2>2. taps' = (taps \ {t}) \cup {n} /\ UNCHANGED <<look, open, locked, told>> /\ t.at = "sent"
    BY <1>2 DEF Effect, page
  <2> HIDE DEF n
  <2>3. hits[t.want] = 0 /\ t.want \in Things
    BY <1>0, <2>2 DEF Guarded, TapShape
  <2>4. hits' = hits \/ hits' = [hits EXCEPT ![t.want] = @ + 1]
    BY <1>2, <2>1 DEF Effect
  <2>5. /\ \A x \in Things \ {t.want} : hits'[x] = hits[x]
        /\ hits'[t.want] = hits[t.want] \/ hits'[t.want] = 1
    BY <1>0, <2>3, <2>4
  <2> QED BY <1>0, <2>1, <2>2, <2>5, GuardedMoves
<1>3. CASE Refused(t) \/ (Reply(t) /\ look.how.reload = "none")
  <2>1. /\ taps' = taps \ {t} /\ told \subseteq told' /\ UNCHANGED <<look, open, hits>>
        /\ t.at = "sent" \/ t.want \in told'
    BY <1>3 DEF Refused, Reply, Fail, Finish, page
  <2>2. locked' = AfterEnd({t}) \/ look.how.lock = "submit"
    BY <1>3 DEF Refused, Reply, Fail
  <2>3. look.how.lock = "submit" => taps' = {}
    BY <2>1 DEF Guarded
  <2> QED BY <1>0, <2>1, <2>2, <2>3, GuardedEnd
<1>4. CASE Lose(t)
  <2>1. faults' = faults + 1 /\ faults' = 0 /\ faults = 0
    BY <1>4 DEF Lose, NoneFree
  <2> QED BY <2>1
<1>5. CASE Reply(t) /\ look.how.reload # "none"
  <2> DEFINE n == [t EXCEPT !.at = "loading"]
  <2>1. n.want = t.want /\ n.names = t.names /\ n.at = "loading" /\ t.names = t.want
    BY <1>0 DEF TapShape, Guarded
  <2>2. taps' = (taps \ {t}) \cup {n} /\ UNCHANGED <<look, open, locked, told, hits>>
    BY <1>5 DEF Reply, page
  <2> HIDE DEF n
  <2> QED BY <1>0, <2>1, <2>2, GuardedMoves
<1> QED BY <1>1, <1>2, <1>3, <1>4, <1>5

\* A mark and a fault stay.
LEMMA StillFree == Sane /\ [Next]_vars /\ NoneFree' => NoneFree
<1> SUFFICES ASSUME Sane, [Next]_vars, NoneFree' PROVE faults = 0 /\ "unlocked" \notin marks
  BY LookKept DEF NoneFree
<1>1. faults' \in {faults, faults + 1} /\ marks \subseteq marks'
  BY DEF Next, vars, Refresh, Cancel, Confirm, Timeout, Select, Tap, Open, FixRange, ReadRows, ShowRows, DropLoad,
         FailLoad, Send, Effect, Refused, Lose, Reply, Fail, page
<1> QED BY <1>1 DEF NoneFree, Sane

\* No step starts a second handler for a row.
LEMMA OneByOneStep == Sane /\ Shut /\ OneByOne /\ [Next]_vars => OneByOne'
<1> SUFFICES ASSUME Sane, Shut, OneByOne, [Next]_vars, NoneFree' PROVE Guarded'
  BY DEF OneByOne
<1>0. NoneFree /\ Guarded /\ look' = look /\ look.how.lock # "none" /\ look.how.clear = "none" /\ open = Nobody
  BY LookKept, StillFree, LooksAreRight DEF OneByOne, NoneFree, Guarded, Sane
<1>1. CASE Refresh \/ \E x \in Things : Select(x)
  <2>1. UNCHANGED <<open, taps, locked, hits, told>>
    BY <1>1 DEF Refresh, Select
  <2> QED BY <1>0, <2>1 DEF Guarded, Locking
<1>2. CASE Cancel \/ Confirm \/ \E x \in Things : Open(x)
  BY <1>0, <1>2 DEF Cancel, Confirm, Open
<1>3. CASE Timeout
  <2>1. locked # {} /\ locked' = {} /\ Unlocking({}) \subseteq marks' /\ UNCHANGED <<open, taps, hits, told>>
    BY <1>3 DEF Timeout
  <2>2. taps = {}
    BY <2>1 DEF Unlocking, NoneFree
  <2> QED BY <1>0, <2>1, <2>2 DEF Guarded
<1>4. ASSUME NEW x \in Things, Tap(x) PROVE Guarded'
  <2>1. x \notin locked /\ x \notin told /\ Start(x) /\ UNCHANGED <<open, hits, told>>
    BY <1>4 DEF Tap
  <2> QED BY <1>0, <2>1, GuardedStarts
<1>5. CASE UNCHANGED vars
  BY <1>0, <1>5 DEF vars, Guarded, Locking
<1> QED BY <1>0, <1>1, <1>2, <1>3, <1>4, <1>5, GuardedLoads, GuardedTaps DEF Next

\* No row is acted on twice, for any rows, loads and handlers under way: never when the
\* key is its own, and when its button is inactive not before a call gets no answer or
\* the button is made active early.
THEOREM SavedOnceEach == Spec => []SavedOnce
<1>1. Init => OncePerRow /\ OneByOne /\ Shut
  BY ConsolesAssumption DEF Init, OncePerRow, Remembered, OneByOne, Guarded, Untouched, NoneFree, Shut
<1>2. Sane /\ OncePerRow /\ OneByOne => SavedOnce
  <2> SUFFICES ASSUME Sane, OncePerRow, OneByOne, NEW x \in Things, hits[x] > 1
               PROVE  look.how.key # "row" /\ (look.how.lock # "none" => faults > 0 \/ "unlocked" \in marks)
    BY DEF SavedOnce
  <2>1. look.how.key # "row"
    BY DEF OncePerRow, Remembered
  <2>2. ~NoneFree /\ faults \in Nat
    BY DEF OneByOne, Guarded, Sane
  <2> QED BY <2>1, <2>2 DEF NoneFree
<1> QED BY <1>1, <1>2, PagesAreSane, OncePerRowStep, ShutStep, OneByOneStep, PTL DEF Spec

------------------------------------------------------------------------------
(* When all has come to rest the screen agrees *)

\* Rows shown are what the API has done, or a handler has an answer and loads again.
Shows(rows) == look.how.reload \in {"all", "kept"} => rows = hits \/ \E t \in taps : t.at = "answered"

\* While nothing has failed and no load has overtaken another: a load is still under way
\* that an earlier one will overtake, the latest load will bring what is to be shown, or
\* it is on the screen already and nothing but lists beside it are loading.
Coming(l) ==
  /\ l.at # "range" => l.range = boxes /\ (look.base.early => day = boxes)
  /\ l.at = "show" => Shows(l.rows)
Agreed == shown.range = boxes /\ day = boxes /\ Shows(shown.rows)
UpToDate ==
  \/ ~look.base.ticket /\ \E l \in loads : l.ticket < issued
  \/ \E l \in loads : l.ticket = issued /\ l.kind # "part" /\ Coming(l)
  \/ (\A l \in loads : l.ticket = issued => l.kind = "part") /\ Agreed
Calm == faults = 0 /\ "overtaken" \notin marks /\ "refused" \notin marks
WillAgree == Calm => UpToDate

\* Handlers that move on, with nothing done by the API but what one is answered.
LEMMA UpToDateStill ==
  ASSUME UpToDate, UNCHANGED <<look, loads, issued, boxes, day, shown>>,
         \/ \E t \in taps' : t.at = "answered"
         \/ hits' = hits /\ ((\E t \in taps : t.at = "answered") => look.how.reload \notin {"all", "kept"})
  PROVE  UpToDate'
<1>1. \A rows : Shows(rows) => Shows(rows)'
  BY DEF Shows
<1>2. \A l \in loads : Coming(l) => Coming(l)'
  BY <1>1 DEF Coming
<1>3. Agreed => Agreed'
  BY <1>1 DEF Agreed
<1> QED BY <1>2, <1>3 DEF UpToDate

\* A load begun is the latest.
LEMMA UpToDateBegins ==
  ASSUME Sane, UpToDate, NEW kind, NEW by, Begin(kind, by), look' = look,
         \/ kind # "part"
         \/ UNCHANGED <<boxes, day, shown>> /\ ~look.base.ticket /\ look.how.reload \notin {"all", "kept"}
  PROVE  UpToDate'
<1> PICK n : /\ loads' = loads \cup {n} /\ issued' = issued + 1 /\ n.ticket = issued + 1 /\ n.kind = kind
             /\ n.at = IF kind = "part" THEN "read" ELSE "range"
  BY BeginIs
<1>1. issued \in Nat /\ \A l \in loads : l.ticket \in Nat /\ l.ticket < issued'
  BY DEF Sane, LoadShape
<1>2. CASE kind # "part"
  <2>1. Coming(n)'
    BY <1>2 DEF Coming
  <2> QED BY <1>2, <2>1 DEF UpToDate
<1>3. CASE kind = "part" /\ loads # {}
  BY <1>1, <1>3 DEF UpToDate
<1>4. CASE kind = "part" /\ loads = {}
  <2>1. Agreed
    BY <1>4 DEF UpToDate
  <2>2. Agreed'
    BY <1>4, <2>1 DEF Agreed, Shows
  <2> QED BY <1>4, <2>2 DEF UpToDate
<1> QED BY <1>2, <1>3, <1>4

\* Only the latest load fixes a range or shows rows, while none has been overtaken.
LEMMA LatestActs ==
  ASSUME Sane, Calm', NEW l \in loads, Current(l), Overtaken(l) \subseteq marks'
  PROVE  l.ticket = issued
BY DEF Sane, LoadShape, Calm, Current, Overtaken

\* The latest load takes the range of the boxes.
LEMMA UpToDateRange ==
  ASSUME Sane, Calm', NEW l \in loads, FixRange(l)
  PROVE  UpToDate'
<1>0. LoadShape(l) /\ l.at = "range" /\ Current(l) /\ Overtaken(l) \subseteq marks'
  BY DEF Sane, FixRange
<1>1. l.ticket = issued /\ l.kind # "part"
  BY <1>0, LatestActs DEF LoadShape
<1>2. PICK r : /\ boxes' = r /\ day' = (IF look.base.early THEN r ELSE day)
               /\ loads' = (loads \ {l}) \cup {[l EXCEPT !.at = "read", !.range = r]}
  BY DEF FixRange
<1> DEFINE n == [l EXCEPT !.at = "read", !.range = r]
<1>3. n = [l EXCEPT !.at = "read", !.range = r] /\ n \in loads'
  BY <1>2
<1> HIDE DEF n
<1>4. n.ticket = l.ticket /\ n.kind = l.kind /\ n.at = "read" /\ n.range = r
  BY <1>0, <1>3, RangeFixed DEF LoadShape
<1>5. issued' = issued /\ look' = look
  BY DEF FixRange, page
<1>6. Coming(n)'
  BY <1>2, <1>4, <1>5 DEF Coming
<1> QED BY <1>1, <1>3, <1>4, <1>5, <1>6 DEF UpToDate

\* And the rows as they are, until a handler is answered.
LEMMA UpToDateRead ==
  ASSUME Sane, UpToDate, NEW l \in loads, ReadRows(l)
  PROVE  UpToDate'
<1>0. LoadShape(l) /\ l.at = "read"
  BY DEF Sane, ReadRows
<1>1. PICK n : n = [l EXCEPT !.at = "show", !.rows = hits] /\ loads' = (loads \ {l}) \cup {n}
  BY DEF ReadRows
<1>2. UNCHANGED <<look, issued, boxes, day, shown, hits, taps>>
  BY DEF ReadRows, page
<1>3. n.ticket = l.ticket /\ n.kind = l.kind /\ n.at = "show" /\ n.range = l.range /\ n.rows = hits
  BY <1>0, <1>1, RowsRead DEF LoadShape
<1>4. Coming(l) => Coming(n)'
  BY <1>0, <1>2, <1>3 DEF Coming, Shows
<1>5. \A m \in loads : Coming(m) => Coming(m)'
  BY <1>2 DEF Coming, Shows
<1>6. Agreed => Agreed'
  BY <1>2 DEF Agreed, Shows
<1> QED BY <1>1, <1>2, <1>3, <1>4, <1>5, <1>6 DEF UpToDate

\* Shown, they agree.
LEMMA UpToDateShow ==
  ASSUME Sane, UpToDate, Calm', NEW l \in loads, ShowRows(l)
  PROVE  UpToDate'
<1>0. /\ l.at = "show" /\ Current(l) /\ Overtaken(l) \subseteq marks' /\ loads' = loads \ {l} /\ taps' = taps \ By(l)
      /\ UNCHANGED <<look, issued, boxes, hits>>
  BY DEF ShowRows, Finish, page
<1>1. l.ticket = issued /\ issued \in Nat /\ \A m \in loads' : m.ticket # issued
  BY <1>0, LatestActs DEF Sane
<1>2. \A rows : Shows(rows) => Shows(rows)'
  <2>1. \A t \in By(l) : t.at = "loading"
    BY DEF By, Sane
  <2>2. (\E t \in taps : t.at = "answered") => \E t \in taps' : t.at = "answered"
    BY <1>0, <2>1
  <2> QED BY <1>0, <2>2 DEF Shows
<1>3. CASE ~look.base.ticket /\ \E m \in loads : m.ticket < issued
  BY <1>0, <1>1, <1>3 DEF UpToDate
<1>4. CASE l.kind # "part" /\ Coming(l)
  <2>1. shown' = [range |-> l.range, rows |-> l.rows] /\ day' = IF look.base.early THEN day ELSE l.range
    BY <1>4 DEF ShowRows
  <2>2. Agreed'
    BY <1>0, <1>2, <1>4, <2>1 DEF Agreed, Coming
  <2> QED BY <1>0, <1>1, <2>2 DEF UpToDate
<1>5. CASE l.kind = "part" /\ Agreed
  <2>1. UNCHANGED <<shown, day>>
    BY <1>5 DEF ShowRows
  <2>2. Agreed'
    BY <1>0, <1>2, <1>5, <2>1 DEF Agreed
  <2> QED BY <1>0, <1>1, <2>2 DEF UpToDate
<1> QED BY <1>1, <1>3, <1>4, <1>5 DEF UpToDate, Sane

\* A load that was overtaken returns: the latest is still there.
LEMMA UpToDateDrop ==
  ASSUME Sane, UpToDate, NEW l \in loads, DropLoad(l)
  PROVE  UpToDate'
<1>0. /\ look.base.ticket /\ l.ticket # issued /\ loads' = loads \ {l} /\ taps' = taps \ By(l)
      /\ UNCHANGED <<look, issued, boxes, day, shown, hits>>
  BY DEF DropLoad, Finish, Current, page
<1>2. \A rows : Shows(rows) => Shows(rows)'
  <2>1. \A t \in By(l) : t.at = "loading"
    BY DEF By, Sane
  <2>2. (\E t \in taps : t.at = "answered") => \E t \in taps' : t.at = "answered"
    BY <1>0, <2>1
  <2> QED BY <1>0, <2>2 DEF Shows
<1>3. \A m \in loads : Coming(m) => Coming(m)'
  BY <1>0, <1>2 DEF Coming
<1>4. Agreed => Agreed'
  BY <1>0, <1>2 DEF Agreed
<1> QED BY <1>0, <1>3, <1>4 DEF UpToDate

\* What a handler changes is read again by the load it begins.
LEMMA UpToDateTaps ==
  ASSUME Sane, UpToDate, Calm, Calm', NEW t \in taps,
         Send(t) \/ Effect(t) \/ Refused(t) \/ Lose(t) \/ Reply(t)
  PROVE  UpToDate'
<1>0. TapShape(t) /\ look \in Looks
  BY DEF Sane
<1>1. CASE Send(t)
  <2>1. UNCHANGED <<look, loads, issued, boxes, day, shown, hits>> /\ t.at = "before" /\ taps \ {t} \subseteq taps'
    BY <1>1 DEF Send, Fail, Finish, page
  <2>2. (\E s \in taps : s.at = "answered") => \E s \in taps' : s.at = "answered"
    BY <2>1
  <2> QED BY <2>1, <2>2, UpToDateStill
<1>2. CASE Effect(t)
  <2>1. UNCHANGED <<look, loads, issued, boxes, day, shown>> /\ [t EXCEPT !.at = "answered"] \in taps'
    BY <1>2 DEF Effect, page
  <2>2. [t EXCEPT !.at = "answered"].at = "answered"
    BY <1>0 DEF TapShape
  <2> QED BY <2>1, <2>2, UpToDateStill
<1>3. CASE Refused(t) \/ Lose(t)
  <2>1. "refused" \in marks' \/ (faults' = faults + 1 /\ faults = 0)
    BY <1>3 DEF Refused, Lose, Calm
  <2> QED BY <2>1 DEF Calm
<1>4. CASE Reply(t) /\ look.how.reload = "none"
  <2>1. UNCHANGED <<look, loads, issued, boxes, day, shown, hits>>
    BY <1>4 DEF Reply, page
  <2> QED BY <1>4, <2>1, UpToDateStill
<1>5. CASE Reply(t) /\ look.how.reload # "none"
  <2>1. /\ Begin(look.how.reload, t.id) /\ UNCHANGED <<look, day, shown>>
        /\ boxes' = IF look.how.reload = "kept" THEN t.names ELSE boxes
    BY <1>5 DEF Reply, page
  <2>2. look.how.reload = "part" => ~look.base.ticket
    BY <1>0, LooksAreRight
  <2> QED BY <2>1, <2>2, UpToDateBegins
<1> QED BY <1>1, <1>2, <1>3, <1>4, <1>5

\* Neither marks nor faults go away.
LEMMA StillCalm == Sane /\ [Next]_vars /\ Calm' => Calm
<1> SUFFICES ASSUME Sane, [Next]_vars, Calm' PROVE Calm
  OBVIOUS
<1>1. faults' \in {faults, faults + 1} /\ marks \subseteq marks'
  BY DEF Next, vars, Refresh, Cancel, Confirm, Timeout, Select, Tap, Open, FixRange, ReadRows, ShowRows, DropLoad,
         FailLoad, Send, Effect, Refused, Lose, Reply, Fail, page
<1> QED BY <1>1 DEF Calm, Sane

\* Every step keeps what will be shown up to date.
LEMMA WillAgreeStep == Sane /\ WillAgree /\ [Next]_vars => WillAgree'
<1> SUFFICES ASSUME Sane, WillAgree, [Next]_vars, Calm' PROVE UpToDate'
  BY DEF WillAgree
<1>0. Calm /\ UpToDate /\ look' = look
  BY StillCalm, LookKept DEF WillAgree
<1>1. CASE Refresh \/ \E x \in Things : Select(x)
  <2>1. Begin("all", Nobody)
    BY <1>1 DEF Refresh, Select
  <2> QED BY <1>0, <2>1, UpToDateBegins
<1>2. CASE Cancel \/ Confirm \/ Timeout \/ \E x \in Things : Tap(x) \/ Open(x)
  <2>1. UNCHANGED <<loads, issued, boxes, day, shown, hits>>
    BY <1>2 DEF Cancel, Confirm, Timeout, Tap, Open
  <2>2. taps \subseteq taps'
    BY <1>2 DEF Cancel, Confirm, Timeout, Tap, Open, Start
  <2>3. (\E t \in taps : t.at = "answered") => \E t \in taps' : t.at = "answered"
    BY <2>2
  <2> QED BY <1>0, <2>1, <2>3, UpToDateStill
<1>3. ASSUME NEW l \in loads, FixRange(l) \/ ReadRows(l) \/ ShowRows(l) \/ DropLoad(l) PROVE UpToDate'
  BY <1>0, <1>3, UpToDateRange, UpToDateRead, UpToDateShow, UpToDateDrop
<1>4. ASSUME NEW l \in loads, FailLoad(l) PROVE UpToDate'
  <2>1. "refused" \in marks' \/ (faults' = faults + 1 /\ faults = 0)
    BY <1>0, <1>4 DEF FailLoad, Calm
  <2> QED BY <2>1 DEF Calm
<1>5. CASE UNCHANGED vars
  <2>1. UNCHANGED <<look, loads, issued, boxes, day, shown, hits, taps>>
    BY <1>5 DEF vars
  <2> QED BY <1>0, <2>1, UpToDateStill
<1> QED BY <1>0, <1>1, <1>2, <1>3, <1>4, <1>5, UpToDateTaps DEF Next

\* At rest the screen shows the range selected and what the API has done, for any rows,
\* loads and handlers that were under way, if nothing failed and no load overtook another.
THEOREM ScreenWillAgree == Spec => []ScreenAgrees
<1>1. Init => WillAgree
  <2> SUFFICES ASSUME Init PROVE UpToDate
    BY DEF WillAgree
  <2>1. PICK l \in loads : l.ticket = 1 /\ l.kind = "first" /\ l.at = "range"
    BY DEF Init
  <2>2. issued = 1
    BY DEF Init
  <2> QED BY <2>1, <2>2 DEF UpToDate, Coming
<1>2. WillAgree => ScreenAgrees
  <2> SUFFICES ASSUME WillAgree, AtRest, faults = 0, marks \cap {"overtaken", "refused"} = {}
               PROVE  /\ shown.range = boxes /\ day = boxes
                      /\ look.how.reload \in {"all", "kept"} => shown.rows = hits
    BY DEF ScreenAgrees
  <2>1. Agreed /\ taps = {}
    BY DEF WillAgree, Calm, UpToDate, AtRest
  <2> QED BY <2>1 DEF Agreed, Shows
<1> QED BY <1>1, <1>2, PagesAreSane, WillAgreeStep, PTL DEF Spec

=============================================================================
