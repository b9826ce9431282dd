SPECIFICATION Spec
CONSTANTS
  m1 = m1
  m2 = m2
  Original = m1
  Successor = m2
  NoModule = NoModule
  Sizes = {5, 8}
  Windows = {0, 1}
  Offered <- MCOffered
  Parts <- MCParts
  KillsMax = 4
  MaxRecords = 2
  MaxRestarts = 2
  WindowTicks = 2
  MaxNow = 4
  MaxWaits = 1
  MaxAbandoned = 2
  MaxEpoch = 6
INVARIANTS
  AccountBalances
  LivingFramesAreHeld
  SpawnsAreNeverRefused
  StormIsBounded
  OneFatePerFrame
PROPERTIES
  RestartsFollowPolicy
  TimeoutIsReplaced
CHECK_DEADLOCK FALSE
