SPECIFICATION Spec
CONSTANTS
  Lanes = {"main", "worker"}
  StaticToken = TRUE
  MaxClients = 3
  MaxOutages = 2
  MaxExpiries = 1
  MaxRestarts = 1
  Services = {database, readonly}
  MaxLeases = 3
  MaxRotations = 3
  MaxFailures = 1
  Replicas = {p1, p2}
  Directory = {d}
  Newcomers = {n}
  MaxRegistrations = 3
  MaxSyncs = 2
  MaxVaultFaults = 1
SYMMETRY Interchangeable
INVARIANTS
  TypeOK  NoStrayCredential
  NewcomersAreApproved StoresAgreeWithoutContention
PROPERTY ActiveStaysActive
CHECK_DEADLOCK FALSE
