SPECIFICATION Spec
CONSTANTS
  MaxVector = 2
  QanRespStrings = 6
  Settings <- MCSettings
  Lengths <- MCLengths
  MaxDataCalls = 9
  MaxDigits = 40
INVARIANTS
  NoFault
  NoLeak
  AnsweredOnce
  AnsweredAtOwnCallback
  ReadsInsidePayload
  DocumentedIsTakenButFour
  SignalFaithful
  DataCallsFaithful
  CellsFaithful
  LengthsClamped
