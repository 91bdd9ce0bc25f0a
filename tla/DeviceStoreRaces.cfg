SPECIFICATION Spec
CONSTANTS
  d1 = d1
  d2 = d2
  h1 = h1
  h2 = h2
  lamp = lamp
  plug = plug
  r1 = r1
  b1 = b1
  NoText = NoText
  Texts <- MCTexts
  NoID = NoID
  Sweeper = Sweeper
  NoThread = NoThread
  Devices <- OneDevice
  Handlers <- MCHandlers
  Messages <- KeepAlives
  Calls <- PingMark
  RaceOutcomes <- AnyRace
  MayExit = FALSE
  OfflineAfter = 0
  SweepDelay = 1
  LastCall = 1
  MaxTime = 1
SYMMETRY ThreadSymmetry
INVARIANTS TypeOK LockDiscipline
