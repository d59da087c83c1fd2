SPECIFICATION Spec
CONSTANTS
  MaxVector = 0
  QanRespStrings = 6
  Settings <- MCSettings
  Lengths <- MCLengths
  MaxDataCalls = 1
  MaxDigits = 1
INVARIANT DocumentedIsTaken
