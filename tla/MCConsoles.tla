----------------------------- MODULE MCConsoles -----------------------------
EXTENDS Consoles

CONSTANTS ann, a1

Person(roles, grants) ==
  [status |-> "active", type |-> "human", person |-> ann, roles |-> roles, grants |-> grants]
OfAmoeba(role) == Person({}, {Grant(role, "amoeba", a1)})
Admin == Person({"admin"}, {})

OfTeam(role) == Person({}, {Grant(role, "team", ann)})

\* Who the acceptance tests and the role guides hand each console to.
AudienceDef == [name \in Watched |->
  CASE name = "ops"       -> {Admin, OfAmoeba("manager"), OfAmoeba("supervisor"), OfTeam("supervisor"),
                              Person({"supervisor"}, {})}
    [] name = "operator"  -> {Person({"operator"}, {}), Person({"operator", "supervisor"}, {})}
    [] name = "manager"   -> {Admin, OfAmoeba("manager")}
    [] name = "finance"   -> {Admin, OfAmoeba("manager"), OfAmoeba("finance"),
                              Person({}, {Grant("finance", "company", NoOne), Grant("manager", "company", NoOne)})}
    [] name = "analytics" -> {Admin, OfAmoeba("manager"), OfAmoeba("finance")}
    [] OTHER -> {Admin}]

WithDataDef == {{1, 2}, {2}}
=============================================================================
