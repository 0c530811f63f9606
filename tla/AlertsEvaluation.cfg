SPECIFICATION FairSpec
CONSTANTS
  Notices <- MCNotices
  Episodes = {x1}
  Overdue = {x1}
  NoEpisode = noone
  Watchers = {w1, w2}
  Officers = {o1, o2}
  NoNotice = none
  Dispatchers = {d1}
  MaxAttempts = 1
  MaxFaults = 0
  MaxDeaths = 1
INVARIANTS
  UnannouncedByDeathsOnly
PROPERTIES
  DecisionStands
  AlertsAreTold
CHECK_DEADLOCK FALSE
