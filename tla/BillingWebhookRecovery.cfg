CONSTANTS
  None = None
  Charges = {c1}
  Companies = {"acme"}
  CompanyOf <- AllOfAcme
  Events = {e1}
  Workers = {w1}
  CronRuns = {cron1}
  BatchSize = 2
  MaxAttempts = 2
  MaxFaults = 2
  Deliveries <- FirstAndUndated
  InitialTables <- OneRow
SPECIFICATION FairSpec
PROPERTIES EventuallyProcessed
