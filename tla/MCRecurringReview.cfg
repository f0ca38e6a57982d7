SPECIFICATION FairSpec
CONSTANTS
  Templates <- MCTwo
  Schedules = {"odd"}
  DatesOf <- MCDatesOf
  StartsOn <- MCStartsOn
  Lead <- MCLead
  WindowDays = 1
  TickCap = 1
  Schedulers = {g1}
  RunNow = {}
  Users = {u1, u2}
  Requests = {"skip", "retry"}
  MaxOccurrencesPerWindow = 50
  MaxDay = 0
  MaxRevision = 1
  MaxAudit = 2
  MaxFaults = 0
CHECK_DEADLOCK FALSE
PROPERTIES DecidedDatesAreFinal DueIsRecorded
