----------------------------- MODULE MCRecords -----------------------------
EXTENDS Records, TLC

\* Handlers that meet on a row are looked at together.
FocusesDef ==
  {{"incident", "acknowledge", "details", "resolve"}, {"inspect", "review"}, {"repair", "progress"},
   {"checkin", "decide"}, {"train", "advance", "graduate"}, {"ramp"}, {"document", "undocument"},
   {"power"}, {"capture", "backfill"}, {"ingest"}, {"adjust", "closeout"},
   {"payment_record", "performance_record", "no_on_demand", "account"},
   {"generate", "ungenerate"}, {"pace", "efficiency", "cohort"}, {"weights"},
   {"fleet_terms", "pace_terms", "platform_terms", "ramp_terms"}, {"fuel", "fuel_cost"},
   {"transfer", "registration", "expense", "economics", "platform"}}

CostsDef == {1, 2}
DaysDef == 1..3
FiguresDef == {1, 2}
SharesDef == 0..2
Twins == Permutations(Requests)
=============================================================================
