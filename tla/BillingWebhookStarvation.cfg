CONSTANTS
  None = None
  Charges = {c1, c2}
  Companies = {"acme"}
  CompanyOf <- AllOfAcme
  Events = {e1, e2}
  Workers = {w1}
  CronRuns = {cron1}
  BatchSize = 1
  MaxAttempts = 1
  MaxFaults = 0
  Deliveries <- Crossing
  InitialTables <- TwoRows
SPECIFICATION FairSpec
PROPERTIES EventuallyProcessed
