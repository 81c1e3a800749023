SPECIFICATION TokenSpec
CONSTANTS
    k1 = k1
    k2 = k2
    r1 = r1
    r2 = r2
    r3 = r3
    Cancellers <- TwoCancellers
    Registrants <- ThreeRegistrants
CHECK_DEADLOCK FALSE
INVARIANTS FiredAtMostOnce NoneStranded
