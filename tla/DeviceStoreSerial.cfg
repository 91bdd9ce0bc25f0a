SPECIFICATION AuditSpec
CONSTANTS
  d1 = d1
  d2 = d2
  h1 = h1
  h2 = h2
  lamp = lamp
  plug = plug
  r1 = r1
  b1 = b1
  NoText = NoText
  Texts <- MCTexts
  NoID = NoID
  Sweeper = Sweeper
  NoThread = NoThread
  Devices <- OneDevice
  Handlers <- MCHandlers
  Messages <- Builds
  Calls <- PingMark
  RaceOutcomes <- NoRace
  MayExit = TRUE
  OfflineAfter = 0
  SweepDelay = 1
  LastCall = 1
  MaxTime = 2
SYMMETRY ThreadSymmetry
INVARIANTS NoticeAgrees AnsweredPingKept
PROPERTY IdentityKept
