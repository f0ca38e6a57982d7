SPECIFICATION Spec
CONSTANTS
  Templates <- MCOne
  Schedules = {"daily", "odd"}
  DatesOf <- MCDatesOf
  StartsOn <- MCStartsOn
  Lead <- MCLead
  WindowDays = 2
  TickCap = 1
  Schedulers = {g1}
  RunNow = {g2}
  Users = {u1}
  Requests = {"postings", "odd", "pause"}
  MaxOccurrencesPerWindow = 50
  MaxDay = 1
  MaxRevision = 2
  MaxAudit = 2
  MaxFaults = 1
CHECK_DEADLOCK FALSE
INVARIANTS RulesAreKept OccurrencesAreSound NothingPassedOver
PROPERTIES DraftsFollowTemplate NoLostUpdate
