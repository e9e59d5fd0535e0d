CONSTANTS
  None = None
  Readers = {1}
  PageCalls = {c1, c2}
  Threshold = 1
  Gap = 2
  MaxTrail = 2
  Instants = 3
  Schedules = {s1, s2}
  Slots = {go}
  DayMinutes = 3
  Departures = {0, 1}
  Notices = {0, 1, 2}
  DaySets = {{0}, {1}, {0, 1}}
  Requests = {r1}
  Students = {ana}
  Groups = {g1, g2}
  Routes = {north, south}
  Edits = {e1}
  Riders = {bia, caio}
  Buses = {b1}
  DayLength = 2
  Zone = 1
  Fixed = 1
  Local = 0
  Horizon = 2
  MaxEvents = 2
  Plans = {essential, growth, scale}
  PlanCalls = {pc1, pc2}
  Owners = {pc1, pc2}
  SettingsCalls = {sc1, sc2, sc3}
  Contents = {blank, own, platform}
  Blank = blank
  Platform = {platform}
  Loads = {"first", "save", "submit"}
  Items = {1, 2}
  Initially = {{1, 2}}
  PageSize = 1
  MaxOps = 1
  MaxAsked = 2
  Openings = 3
SPECIFICATION ManagementSpec
INVARIANTS
  ManagementTypeOK TrailIsOneDrive NoticeExact NoSharedSlot
  DeactivatedStays PendingKept ReviewedByPlatform ReportsAgree ShowsWhatIsSaved ShowsItsQuery
  OneOpening SavedIsListed
PROPERTIES NoNewcomers
SYMMETRY RidersSymmetric
CHECK_DEADLOCK FALSE
