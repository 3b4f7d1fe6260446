SPECIFICATION Spec
CONSTANTS
  NoDomain = NoDomain
  ConfLines <- MCConfLines
  MaxLines = 2
  Environments <- MCEnvironments
  CommandLines <- MCCommandLines
  Dumps <- MCDumps
INVARIANTS TypeOK NoTell BuildNeverBreaks Repeatable DeployAgrees
