CONSTANTS
  None = None
  Prompts <- OnePrompt
  UserOf <- User
  ScheduleOf <- Schedule
  NotifyAt <- AtZero
  DepartAt <- AtOne
  Workers = {w1}
  CronRuns = {cron1, cron2}
  Requests = {r1}
  FetchLimit = 1
  MaxAttempts = 1
  Timetables <- Departures
  Horizon = 2
  MaxFaults = 1
SPECIFICATION Spec
INVARIANTS TypeOK OpenUntilOver PushedOnce
PROPERTIES PromiseSpec
SYMMETRY Symmetric
