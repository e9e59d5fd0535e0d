CONSTANTS
  None = None
  Prompts <- TwoStudents
  UserOf <- User
  ScheduleOf <- Schedule
  NotifyAt <- AtZero
  DepartAt <- AtZero
  Workers = {w1}
  CronRuns = {cron1}
  Requests = {}
  FetchLimit = 1
  MaxAttempts = 1
  Timetables <- Shifts
  Horizon = 1
  MaxFaults = 0
SPECIFICATION FairSpec
PROPERTIES EveryStudentNotified
