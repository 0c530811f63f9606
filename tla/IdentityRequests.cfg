SPECIFICATION Spec
CONSTANTS
 Persons={"p1","p2"}
 Users={"u1","u2","u3"}
 Grants={"g1"}
 Amoebas={"a1","a2","a3"}
 Sites={"s1"}
 Tokens={"t1","t2"}
 Nobody="nobody"
 Contacts={"c1","c2"}
 Founder="p1"
 FounderUser="u1"
 DemoAmoebas={"a1","a2"}
 DemoSites <- MCNoSites
 Keys={k1, k2, k3}
 Requests={q1, q2}
 Handlers <- MCHandlers
 Threshold=2
 MaxRaces=1
 MaxRestarts=1
INVARIANTS OneActiveLogin DoneOncePerKey HistoryTellsAll WrongPinsAreCounted SiteServesItsAmoeba
CHECK_DEADLOCK FALSE
SYMMETRY Symmetry
