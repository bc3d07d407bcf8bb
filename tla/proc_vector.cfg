SPECIFICATION Spec
CONSTANTS
    Procs = {p1, p2, p3}
    Main = p1
    Ext = {x1}
    Tasks = {t1}
    None = None
    GlobalEvery = 4
    MaxSuspends = 1
    Wrap = 16
INVARIANT VictimsFound
SYMMETRY Symmetry
CHECK_DEADLOCK FALSE
