\* A stretched curve: the residual gate looks at a time before its start.
SPECIFICATION Spec
CONSTANTS
    Parts = {"curve"}
    Nil = Nil
    absent = absent
    u1 = u1
    u2 = u2
    left = left
    right = right
    h1 = h1
    h2 = h2
    m1 = m1
    m2 = m2
    b1 = b1
    b2 = b2
    e1 = e1
    e2 = e2
    g1 = g1
    g2 = g2
    q1 = q1
    q2 = q2
    f1 = f1
    f2 = f2
    r1 = r1
    r2 = r2
    r3 = r3
    short = short
    long = long
    other = other
INVARIANTS
    GateIsTrue
CHECK_DEADLOCK FALSE
