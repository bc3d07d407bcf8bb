\* Tasks that share two descriptors, or that open, close and reuse their own.
SPECIFICATION Spec
CONSTANTS
    Tasks = {t1, t2, t3}
    Modes = {"shared", "private"}
    Fds = {f1, f2}
    MaxContexts = 3
    None = None
INVARIANTS SleepersListed EventFindsEntry WokenCallSucceeds DeletedContextIdle
SYMMETRY Symmetry
CHECK_DEADLOCK FALSE
