SPECIFICATION FairSpec
CONSTANTS
  r1 = r1
  r2 = r2
  Requests <- MCRequests
  Inputs <- MCInputs
  Configs <- MCConfigs
INVARIANTS TypeOK ReadyToServe RefusalChangesNothing PanicChangesNothing CountsEveryRequest IdleStaysUp
PROPERTIES StopsOnSignal RequestsEnd
