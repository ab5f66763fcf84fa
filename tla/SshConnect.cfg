SPECIFICATION ConnectSpec
CONSTANTS
  Credentials <- Chains
  MaxRetries = 3
INVARIANT ReachesTheSwitch
PROPERTY JumpSessionsGo
