SPECIFICATION FairSpec
CONSTANTS
  HandshakeFrames = 1
  DialFrames = 1
  RetryDelay = 2
  RetryMax = 3
  MaxAttempt = 2
  MaxQueue = 2
  MaxFaults = 3
  MaxEvents = 4
  Nil = Nil
INVARIANTS RefusalIsFinal PausedByTheMenu
PROPERTIES LinkRecovers
