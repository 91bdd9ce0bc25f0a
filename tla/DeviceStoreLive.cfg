SPECIFICATION FairSpec
CONSTANTS
  d1 = d1
  d2 = d2
  h1 = h1
  h2 = h2
  lamp = lamp
  plug = plug
  r1 = r1
  b1 = b1
  NoText = NoText
  Texts <- MCTexts
  NoID = NoID
  Sweeper = Sweeper
  NoThread = NoThread
  Devices <- OneDevice
  Handlers <- MCHandlers
  Messages <- KeepAlives
  Calls <- PingCalls
  RaceOutcomes <- NoRace
  MayExit = TRUE
  OfflineAfter = 0
  SweepDelay = 1
  LastCall = 1
  MaxTime = 2
INVARIANTS OfflineIsStale PendingIsStale SeenInThePast
PROPERTIES ImplementsPresence SilentGoesOffline CallsReturn
