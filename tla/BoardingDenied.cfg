CONSTANTS
  None = None
  Students = {s1}
  Gates = {"gate1", "gate2"}
  Tags = {t1}
  CompanyOf <- OneCompany
  Taps = {"tap1"}
  DeviceOf <- OwnDevice
  MaxEvents = 3
SPECIFICATION BoardingSpec
PROPERTIES AboardMayLeave
