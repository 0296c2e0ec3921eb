SPECIFICATION Spec
CONSTANTS
  Sessions = {s1, s2}
  Environments <- MCEnvironments
  Uncaught = Uncaught
  None = None
INVARIANTS
  TypeOK
  NoFakeLeak
  ExitCodes
  SetupDelivers
  DoctorHonest
