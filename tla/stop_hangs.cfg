SPECIFICATION FairSpec
CONSTANTS
  w1 = w1 w2 = w2 s1 = s1 s2 = s2 s3 = s3 s4 = s4 s5 = s5
  Workers <- OneWorker
  Sockets <- FourSockets
  Size = 2
  Master = Master Free = Free None = None
  Unlucky <- NoWorker
PROPERTY StopReturns
CHECK_DEADLOCK FALSE
