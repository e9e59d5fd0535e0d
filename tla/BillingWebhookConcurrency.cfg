CONSTANTS
  None = None
  Charges = {c1}
  Companies = {"acme"}
  CompanyOf <- AllOfAcme
  Events = {e1, e2}
  Workers = {w1, w2}
  CronRuns = {cron1}
  BatchSize = 1
  MaxAttempts = 1
  MaxFaults = 0
  Deliveries <- OneCharge
  InitialTables <- OneRow
SPECIFICATION Spec
INVARIANTS ChargeShowsOneEvent TransactionsIsolated
PROPERTIES StampMonotone LedgerSpec
SYMMETRY Symmetric
