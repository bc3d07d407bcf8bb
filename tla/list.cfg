\* Two lists and three elements that move between them.
SPECIFICATION Spec
CONSTANTS
    Lists = {l1, l2}
    Elems = {e1, e2, e3}
INVARIANT Linked
PROPERTY ImplementsSequences
SYMMETRY Symmetry
