SPECIFICATION Spec
CONSTANTS
  Urls = {none, u1}
  NoUrl = none
  Owns = {blank, o1}
  Blank = blank
  Damaged = Damaged
  Commands = {c}
  Reader = reader
  MaxCalls = 2
  MaxEdits = 1
  MaxStarts = 2
CHECK_DEADLOCK FALSE
INVARIANTS Agreement OwnFieldsKept
PROPERTY EditTakesEffect
