SPECIFICATION Spec
CONSTANTS
    Procs = {p1, p2}
    Main = p1
    Ext = {x1}
    Tasks = {t1, t2, t3}
    None = None
    GlobalEvery = 2
    MaxSuspends = 1
    Wrap = 16
INVARIANT ReturnsHome
SYMMETRY Symmetry
CHECK_DEADLOCK FALSE
