\* The drive base, the line tracer, the ports and the drivers of the board: safety of each machine.
SPECIFICATION Spec
CONSTANTS
    Parts = {"ring", "status", "drive", "motion", "gyro", "wheel", "assist", "bias", "cal", "yaw", "path", "endless", "line", "lap", "capture", "engine", "sync", "claims", "latest", "binding", "scan", "receive", "dead", "transmit", "charger", "imu", "flash", "flash_read", "button", "buttons", "slot", "curve"}
    Nil = Nil
    absent = absent
    u1 = u1
    u2 = u2
    left = left
    right = right
    h1 = h1
    h2 = h2
    m1 = m1
    m2 = m2
    b1 = b1
    b2 = b2
    e1 = e1
    e2 = e2
    g1 = g1
    g2 = g2
    q1 = q1
    q2 = q2
    f1 = f1
    f2 = f2
    r1 = r1
    r2 = r2
    r3 = r3
    short = short
    long = long
    other = other
INVARIANTS
    StoppedIsStill
    MotionIsTrue
    ReadersSeeTheTruth
    OneAtATime
PROPERTIES
    SlotPromise
    StepsAreLegal
CHECK_DEADLOCK FALSE
