\* The Bluetooth host seam and application: safety of each machine.
SPECIFICATION Spec
CONSTANTS
    Parts = {"queue", "hci", "uart", "uart_tx", "settings", "daemon", "link", "stream", "junk", "table", "lines", "words", "values", "tx", "drain", "sched", "motor", "notify", "bundle", "paced", "cache", "writes", "sound", "notes", "beep", "bond"}
    Nil = Nil
    w1 = w1
    w2 = w2
    c1 = c1
    c2 = c2
    s1 = s1
    s2 = s2
    x1 = x1
    x2 = x2
    a1 = a1
    a2 = a2
    o1 = o1
    o2 = o2
    classicLink = classicLink
    bleLink = bleLink
    t1 = t1
    t2 = t2
    d1 = d1
    d2 = d2
    d3 = d3
    imu = imu
    sound = sound
    notifier = notifier
    k1 = k1
    k2 = k2
    y1 = y1
    y2 = y2
    f1 = f1
    f2 = f2
    p1 = p1
INVARIANTS
    StopIsKept
    NothingLostOrMixed
    BooksAreTrue
PROPERTIES
    StepsAreTheirs
CHECK_DEADLOCK FALSE
