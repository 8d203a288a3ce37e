CONSTANTS
    Threads = {t1, t2}
    Ptrs = {p1}
    NULL = NULL
    OS = "windows"
    MaxEpoch = 0
    UnicodeInputs = {65, 55296, 1114112}
    AsciiInputs = {31, 33, 65}
    KeyInputs = {"A", "Space", "Break"}
    CCharInputs <- MCCCharInputs
SYMMETRY Symmetry
SPECIFICATION Spec
INVARIANT ErrorContract
