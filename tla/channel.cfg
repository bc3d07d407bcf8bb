\* The default capacity and a buffers of one and two.
SPECIFICATION Spec
CONSTANTS
    Tasks = {t1, t2, t3}
    BufLens = {0, 1, 2}
    MaxSends = 2
INVARIANTS ListsMatch Backpressure NoReaderForgotten
PROPERTY ImplementsBuffered
CHECK_DEADLOCK FALSE
