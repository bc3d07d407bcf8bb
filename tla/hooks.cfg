SPECIFICATION HookSpec
CONSTANTS
    Numbers = {f1, f2, f3}
    Files = {h1, h2}
    Polls = 3
    Habits = {"early"}
    Closed = Closed
INVARIANTS CallsAsAsked ConnectNotEarly
SYMMETRY Symmetry
CHECK_DEADLOCK FALSE
