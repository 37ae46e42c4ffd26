SPECIFICATION Spec
CONSTANTS
  Players = 2
  Creative = {2}
  Width = 4
  Reach = 2
  CreativeRate = 2
  HandTicks = 3
  ToolTicks = 2
  HotbarSlots = 2
  PlayerSlots = 3
  StackMax = 2
  MaxActs = 2
  Nil = Nil
INVARIANTS TypeOK
PROPERTIES MatterIsKept DigIsEarned
