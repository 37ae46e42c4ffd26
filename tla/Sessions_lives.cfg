SPECIFICATION FairSpec
CONSTANTS
  Uuids = {u1}
  MaxSessionId = 3
  MaxPlayerId = 2
  MaxBodyId = 3
  MaxSessions = 2
  MaxMessages = 2
  HandshakeTicks = 1
  HoldTicks = 0
  Nil = Nil
INVARIANTS TypeOK InboxIsOwn OneController
PROPERTIES OnlyRevivesRevive LeavesWithItsSession SessionsSettle
