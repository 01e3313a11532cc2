CONSTANTS
  Ports = {A, B}
  Owners = {1, 2}
  Programs <- MCPrograms
  NoProgram = NoProgram
SPECIFICATION FairSpec
INVARIANTS TypeOK StagingExcludesExecution StopMeansStopped DrivenIsReachable
PROPERTIES FreshStart SourceStable Terminates PortsReleased
