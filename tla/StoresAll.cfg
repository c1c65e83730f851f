SPECIFICATION Spec
CONSTANTS
  Ids = {i1, i2}
  Keys = {k1, k2}
  Tenants = {acme, platform}
  Platform = platform
  MaxVal = 1
  None = none
INVARIANTS
  KeysUnique
  IndexExact
PROPERTY
  ImplementsContract
