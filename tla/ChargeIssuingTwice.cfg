CONSTANTS
  None = None
  Students = {s1}
  Templates = {t1}
  Months = {1, 2}
  MonthStart <- Starts
  MonthEnd <- Ends
  DueDays = {1, 2}
  IssueDates = {1, 2}
  Reported = {"OVERDUE", "CANCELLED"}
  Requests = {r1, r2}
  MaxIssues = 2
  Horizon = 2
SPECIFICATION Spec
INVARIANTS OneActiveCharge
