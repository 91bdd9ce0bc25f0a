SPECIFICATION TimedSpec
CONSTANTS
  d1 = d1
  d2 = d2
  h1 = h1
  h2 = h2
  lamp = lamp
  plug = plug
  r1 = r1
  b1 = b1
  NoText = NoText
  Texts <- MCTexts
  NoID = NoID
  Sweeper = Sweeper
  NoThread = NoThread
  Devices <- MCDevices
  Handlers <- OneHandler
  Messages <- KeepAlives
  Calls <- OnlyPing
  RaceOutcomes <- NoRace
  MayExit = FALSE
  OfflineAfter = 3
  SweepDelay = 4
  LastCall = 5
  MaxTime = 15
  NotifyMax = 1
INVARIANT DetectionBound
PROPERTY TimePasses
