SPECIFICATION Spec
CONSTANTS
  Module <- ExampleModule
  NoModule = NoModule
  StartMod <- ExampleStart
  EndMod <- ExampleEnd
  Links <- ExampleLinks
  Fork <- ExampleFork
  Join <- ExampleJoin
  ForkOf <- ExampleForkOf
  MaxFork = 2
  SyncState <- ExampleSync
  AsyncState <- ExampleAsync
  ExitState <- ExampleExit
  Top = Top
  Region <- ExampleRegion
  Rank <- ExampleRank
INVARIANTS
  TypeOK
  RunOnce
  EndsQuiet
  JoinState
PROPERTY
  EveryRequestEnds
