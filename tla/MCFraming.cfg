SPECIFICATION Spec
CONSTANTS
  Names <- MCNames
  relativeFilePath <- MCRelative
  Lengths = {0, 7, 8, 9}
  U32 = 8
  StatLen = 3
  MaxCalls = 2
INVARIANTS OnlyWideTextsLoseStep AsAsked ErrorsReported
PROPERTIES ConversationsEnd ImplementsRemoteCall
CHECK_DEADLOCK FALSE
