SPECIFICATION FairSpec
CONSTANTS
  c1 = c1
  c2 = c2
  id1 = id1
  id2 = id2
  text = text
  junk = junk
  loud = loud
  keyless = keyless
  NoRID = NoRID
  NoData = NoData
  Garbage = Garbage
  GoodData <- MCGood
  BadLevels <- MCLoud
  BadKeys <- MCKeys
  Conns <- TwoConns
  Talkers <- OneConn
  Wire <- AllWire
  FDLimit = 1
  MaxSent = 2
INVARIANTS TypeOK AnswersMatchRequests ChatIsAskedFor ServesUntilFull
PROPERTIES EveryMessageAnswered ShutsDown
CHECK_DEADLOCK FALSE
