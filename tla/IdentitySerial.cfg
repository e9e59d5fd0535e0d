CONSTANTS
  None = None
  Deleted = Deleted
  Devices = {m1, m2}
  Codes = {n1, n2}
  Companies = {"acme", "beta"}
  Buses = {"bus1", "bus2"}
  BusCompany <- BusOf
  Admins = {a1}
  TTL = 1
  Horizon = 2
  Students = {m1, m2}
  Gates = {"gate1", "gate2"}
  Taps = {"tap1", "tap2"}
  DeviceOf <- GateOf
  CompanyOf <- CompanyAt
  Tags = {n1, n2}
  MaxEvents = 3
  Phones = {"phone"}
  Challenges = {m1, m2}
  Onboardings = {n1, n2}
  Tenants = {x1, x2}
  Cnpjs = {c1, c2}
  Domains = {"acme", "beta", "unipass"}
  PlatformDomain = "unipass"
  Users = {m1, m2}
  AccountIds = {m1, m2}
  Enrolled = {s1}
  Edits = {n1, n2}
  Sessions = {k1}
  Tokens = {t1, t2}
  ExpoTokens = {t1}
  Installations = {i1}
  Rows = {n1, n2}
  Registrations = {q1, q2}
  Dispatches = {p1}
  Owners = {ana}
  Roles = {"PLATFORM_ADMIN", "ADMIN", "DRIVER", "USER"}
  TabCalls = {n1, n2}
SPECIFICATION IdentitySpec
INVARIANTS
  IdentityTypeOK BusOfOwner CredentialsKept Alternates VerificationSpent StudentAccounts
  DeactivatedIsOut TokenOfRegistrant ClosedStaysClosed
PROPERTIES OfferedIsAllowed
SYMMETRY IdsSymmetric
CHECK_DEADLOCK FALSE
