CONSTANTS
  None = None
  Charges = {c1, c2}
  Companies = {"acme"}
  CompanyOf <- AllOfAcme
  Events = {e1, e2}
  Workers = {w1}
  CronRuns = {cron1}
  BatchSize = 1
  MaxAttempts = 2
  MaxFaults = 2
  Deliveries <- CrossedAndUndated
  InitialTables <- TwoRows
SPECIFICATION Spec
INVARIANTS TypeOK AppliedOnce
