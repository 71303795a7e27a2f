SPECIFICATION FairSpec
CONSTANTS
  Users = {admin}
  NULL = NULL
  Wrong = Wrong
  Fields = {brightness, device_name}
  Bytes = {brightness}
  ByteSize = 2
  Null = Null
  Default <- MCDefault
  Typed = {2}
  Tabs = {t1}
  Blank = Blank
  MaxRequests = 2
INVARIANTS TypeOK OneSaveAtATime
PROPERTIES SavesOnlyEdits OnlyLogoutLogsOut NoDeadButton
CHECK_DEADLOCK FALSE
