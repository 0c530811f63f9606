CONSTANTS
  ann = ann  ben = ben  a1 = a1  a2 = a2  s1 = s1  s2 = s2  r1 = r1  r2 = r2
  c1 = c1  c2 = c2  c3 = c3  api = api  worker = worker  NoOne = NoOne
  People = {ann, ben}  Amoebas = {a1, a2}  Sites = {s1, s2}  Riders = {r1, r2}
  PersonOf <- PersonOfDef
  SiteOf <- SiteOfDef
  ProcessOf <- ProcessOfDef
  Worked <- WorkedDef
  FirstLeads <- FirstLeadsDef
  FirstPosts <- FirstPostsDef
  Callers = {c1, c2}
  Actors <- ActorsDef
  MaxChanges = 2
SPECIFICATION AccessSpec
INVARIANTS WithinReach MirrorNamesALead
PROPERTY HandoversArrive
