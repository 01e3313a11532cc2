\* Liveness of the Bluetooth machines, each under its own fairness.
SPECIFICATION FairSpec
CONSTANTS
    Parts = {"queue_live", "delay_live", "uart_live", "hci_live", "daemon_live", "drain_live", "sched_live", "motor_live", "bundle_live", "beep_live", "uart_tx", "notify"}
    Nil = Nil
    w1 = w1
    w2 = w2
    c1 = c1
    c2 = c2
    s1 = s1
    s2 = s2
    x1 = x1
    x2 = x2
    a1 = a1
    a2 = a2
    o1 = o1
    o2 = o2
    classicLink = classicLink
    bleLink = bleLink
    t1 = t1
    t2 = t2
    d1 = d1
    d2 = d2
    d3 = d3
    imu = imu
    sound = sound
    notifier = notifier
    k1 = k1
    k2 = k2
    y1 = y1
    y2 = y2
    f1 = f1
    f2 = f2
    p1 = p1
PROPERTIES
    AllEnds
CHECK_DEADLOCK FALSE
