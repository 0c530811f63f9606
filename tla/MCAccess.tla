------------------------------ MODULE MCAccess ------------------------------
EXTENDS Access, TLC

CONSTANTS ann, ben, a1, a2, s1, s2, r1, r2, c1, c2, c3, api, worker

PersonOfDef == r1 :> ann @@ r2 :> ben
SiteOfDef == r1 :> s1 @@ r2 :> s2
ProcessOfDef == c1 :> api @@ c2 :> worker
FirstLeadsDef == {a1 :> ann @@ a2 :> ben}
WorkedDef == r1 :> {a1, a2} @@ r2 :> {a2}
FirstPostsDef == {r1 :> a1 @@ r2 :> a2}

Person(roles, grants) == [type |-> "human", person |-> ann, roles |-> roles, grants |-> grants]
Assignments ==
  {Grant("manager", "company", NoOne), Grant("manager", "amoeba", a1), Grant("finance", "site", s2),
   Grant("supervisor", "team", ann), Grant("supervisor", "amoeba", a2), Grant("operator", "site", s1)}
ActorsDef ==
  {Service, Person({"admin"}, {}), Person({"operator", "supervisor"}, {Grant("supervisor", "amoeba", a2)})}
  \cup {Person(roles, {}) : roles \in SUBSET {"supervisor", "operator"}}
  \cup {Person({"operator"}, {g}) : g \in Assignments}
  \cup {Person({}, {Grant("manager", "amoeba", a1), g}) : g \in Assignments}
=============================================================================
