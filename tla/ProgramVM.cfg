\* The interpreter over every short program: safety, and the end of every run.
CONSTANTS
  PortCount = 2
  ProgramLimit = 7
  TimeLimit = 3
  TickBudget = 2
  Candidates <- MCCandidates
SPECIFICATION FairSpec
INVARIANTS TypeOK NoProtocolFault BrakedAtRest OneBlocker
PROPERTY Terminates
