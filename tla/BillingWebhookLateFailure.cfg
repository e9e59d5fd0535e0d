CONSTANTS
  None = None
  Charges = {c1}
  Companies = {"acme"}
  CompanyOf <- AllOfAcme
  Events = {e1}
  Workers = {w1}
  CronRuns = {cron1}
  BatchSize = 1
  MaxAttempts = 2
  MaxFaults = 1
  Deliveries <- FirstAndUndated
  InitialTables <- IssuedRow
SPECIFICATION Spec
INVARIANTS ProcessedIsNotFailed
SYMMETRY Symmetric
