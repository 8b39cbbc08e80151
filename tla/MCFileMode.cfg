SPECIFICATION ModeSpec
CONSTANTS
  Modes <- MCModes
  U32 = 1048576
  Settings <- MCSettings
  Umask = {1, 4, 6}
  NotSet = NotSet
  NotANumber = NotANumber
INVARIANTS PermsReported CreatedAsSet
CHECK_DEADLOCK FALSE
