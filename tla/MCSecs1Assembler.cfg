\* A peer with five messages, and a wild one.
CONSTANTS
  m1 = m1
  m2 = m2
  m3 = m3
  m4 = m4
  Msg = {m1, m2, m3, m4}
  BodyLen <- MCBodyLen
  BlockMax = 2
  NumMax = 3
  Order <- MCOrder
  Equip = TRUE
  MaxFrames = 6
  MaxWild = 2
SPECIFICATION Spec
INVARIANTS
  DeliveredOnce
  PartialIsPrefix
CHECK_DEADLOCK FALSE
