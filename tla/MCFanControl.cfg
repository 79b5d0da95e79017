SPECIFICATION MCSpec
CONSTANTS
  Fans = {f1}
  Control = TRUE
  Duties = {low, full}
  Low = low
  Full = full
  Firmware = Firmware
  None = None
  WriteFaults = TRUE
  ReadFaults = TRUE
INVARIANTS HandsOff NothingHeldAfterLoop
PROPERTIES LostSensorDrivesFull SettingTakesEffect
CHECK_DEADLOCK FALSE
