SPECIFICATION Spec
CONSTANTS
    Threads = {h1, h2, h3}
    Allocators = {h1}
    Blocks = {b1, b2, b3, b4}
    Null = Null
INVARIANTS OnePlace NoSharedLink
SYMMETRY Symmetry
CHECK_DEADLOCK FALSE
