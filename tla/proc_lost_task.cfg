SPECIFICATION Spec
CONSTANTS
    Procs = {p1, p2}
    Main = p1
    Ext = {}
    Tasks = {t1, t2}
    None = None
    GlobalEvery = 4
    MaxSuspends = 0
    Wrap = 16
INVARIANT NoTaskVanishes
SYMMETRY Symmetry
CHECK_DEADLOCK FALSE
