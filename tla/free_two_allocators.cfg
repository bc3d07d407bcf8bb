SPECIFICATION Spec
CONSTANTS
    Threads = {h1, h2}
    Allocators = {h1, h2}
    Blocks = {b1, b2, b3}
    Null = Null
INVARIANT NotGivenTwice
SYMMETRY Symmetry
CHECK_DEADLOCK FALSE
