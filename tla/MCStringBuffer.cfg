SPECIFICATION Spec
CONSTANTS
    Strings = {s1, s2}
    Buffers = {b1, b2, b3}
    NULL = NULL
    Chars = {0, 1, 2}
    Junk = Junk
    MaxLength = 3
INVARIANTS
    Owned
    Terminated
    ComparesByValue
PROPERTY
    ImplementsValues
SYMMETRY MCSymmetry
