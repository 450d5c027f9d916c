SPECIFICATION FairSpec
INVARIANTS
  TypeOK
  ExitLeavesNoProcess
PROPERTIES
  StartRefusedAfterSubnetManager
  OneEndsAll
  SignalEndsWrapper
  StartupCompletes
