SPECIFICATION Spec
SYMMETRY Symmetry
CONSTANTS
  Calls = {c1, c2, c3}
  Identities = {bot, shop}
  Nobody = Nobody
  MaxAccounts = 1
  MaxBoots = 3
CHECK_DEADLOCK FALSE
INVARIANTS Consistent AccessByConsent
PROPERTY ReplacedStaysDead
