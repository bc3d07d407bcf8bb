\* Two sockets opened at the same time, with numbers of one chunk.
SPECIFICATION Spec
CONSTANTS
    Threads = {h1, h2}
    Fds = {0, 1}
    Vals = {v1}
    Size = 2
    MaxChunks = 2
    Null = Null
    Garbage = Garbage
INVARIANT MapIsAtomic
