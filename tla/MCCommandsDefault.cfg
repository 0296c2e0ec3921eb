SPECIFICATION Spec
CONSTANTS
  Sessions = {s1}
  Environments <- MCEnvironments
  Uncaught = Uncaught
  None = None
PROPERTIES
  InstalledIsDefault
