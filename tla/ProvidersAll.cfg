SPECIFICATION Spec
CONSTANTS
  Services <- MCServices
  RoleOf <- MCRoleOf
  Specs <- MCSpecs
  Docs = {"doc1", "doc2"}
  MaxMishaps = 2
  None = none
INVARIANTS
  ProvisionIsWhole
  DeprovisionIsClean
  StartsInOrder
PROPERTY
  RepeatingHelps
