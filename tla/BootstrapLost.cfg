SPECIFICATION Spec
CONSTANTS
  acme = acme
  platform = platform
  d1 = d1
  d2 = d2
  dns = dns
  logs = logs
  b1 = b1
  b2 = b2
  mesh = mesh
  ops = ops
  Datacenters = {d1}
  Owner <- MCOwner
  Platform = platform
  Names = {dns, logs}
  Bodies = {b1, b2}
  Hooks = {mesh, ops}
  Contribution <- MCContribution
  Ids = {1, 2, 3}
  MaxEdits = 0
  MaxMishaps = 1
  MayCrash = FALSE
  None = none
PROPERTY
  NextTickRecovers
