SPECIFICATION Spec
CONSTANTS
  c1 = c1
  c2 = c2
  id1 = id1
  id2 = id2
  text = text
  junk = junk
  loud = loud
  keyless = keyless
  NoRID = NoRID
  NoData = NoData
  Garbage = Garbage
  GoodData <- MCGood
  BadLevels <- MCLoud
  BadKeys <- MCKeys
  Conns <- TwoConns
  Talkers <- TwoConns
  Wire <- OneEach
  FDLimit = 2
  MaxSent = 1
INVARIANT HandlersAnswer
CHECK_DEADLOCK FALSE
