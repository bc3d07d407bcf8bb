\* Two chunks of two numbers each; three of the four numbers are in use.
SPECIFICATION Spec
CONSTANTS
    Threads = {h1, h2, h3}
    Fds = {0, 1, 2}
    Vals = {v1, v2}
    Size = 2
    MaxChunks = 2
    Null = Null
    Garbage = Garbage
CONSTRAINT UntilRaced
SYMMETRY Symmetry
INVARIANTS GetsWhatWasThere ContextsKept
