SPECIFICATION FairSpec
CONSTANTS
  QueueLen = 2
  MaxSession = 2
  MaxWakeups = 3
INVARIANTS TypeOK PinsExclusive RailHeld MotorDrivable NoOrphanDrive FramesOfSession
PROPERTIES SessionsAreNew OwnedIsServed TeardownCompletes
