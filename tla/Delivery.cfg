SPECIFICATION Spec
CONSTANTS
  Items = {i1, i2}
  i1 = i1
  i2 = i2
  Lanes <- ScopedAndOther
  ApprovalEnabled = TRUE
  SecureDm = TRUE
  PerSender = 1
  Environments <- TransportReports
  MaxTroubles = 1
CHECK_DEADLOCK FALSE
INVARIANTS TypeOK DeliveredIsHanded RepeatsNeedFaults
PROPERTIES NoSilentRelay Released
