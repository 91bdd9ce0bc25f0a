SPECIFICATION ClientsFairSpec
CONSTANTS
  www = www
  mail = mail
  txt = txt
  home = home
  lab = lab
  typo = typo
  ip1 = ip1
  ip2 = ip2
  t1 = t1
  t2 = t2
  OldIP = OldIP
  Callers <- MCCallers
  IPs <- MCIPs
  Configs <- MCConfigs
  Asked <- MCAsked
  Records <- MCRecords
  MaxCalls = 2
INVARIANTS TypeOK OthersUntouched
PROPERTIES ImplementsDnsUpdate CallsReturn
CHECK_DEADLOCK FALSE
