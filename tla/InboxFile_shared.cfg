SPECIFICATION Spec
CONSTANTS
  i1 = i1
  i2 = i2
  u1 = u1
  u2 = u2
  Items = {i1, i2}
  Users = {u1, u2}
  None = None
  Part = Part
  MaxFaults = 2
SYMMETRY Symmetry
INVARIANTS ReadableUntilTorn
PROPERTIES NothingComesBack UnreadSurvives ImplementsInbox
CHECK_DEADLOCK FALSE
