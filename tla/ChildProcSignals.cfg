SPECIFICATION Spec
CONSTANTS
    NULL = NULL
    p1 = p1
    p2 = p2
    p3 = p3
    n1 = n1
    n2 = n2
    n3 = n3
    c1 = c1
    Procs = {p1, p2, p3}
    Pids = {n1, n2, n3}
    Conns = {c1}
SYMMETRY Symmetry
INVARIANTS
    ListedRunning
CHECK_DEADLOCK FALSE
