SPECIFICATION Spec
CONSTANTS
  c1 = c1
  c2 = c2
  id1 = id1
  id2 = id2
  text = text
  junk = junk
  loud = loud
  keyless = keyless
  NoRID = NoRID
  NoData = NoData
  Garbage = Garbage
  GoodData <- MCGood
  BadLevels <- MCLoud
  BadKeys <- MCKeys
  Conns <- OneConn
  Talkers <- OneConn
  Wire <- AllWire
  FDLimit = 2
  MaxSent = 3
INVARIANT OnlyNotifyIsSentOn
CHECK_DEADLOCK FALSE
