CONSTANTS
    Threads = {t1, t2}
    Ptrs = {p1}
    NULL = NULL
    OS = "macos"
    MaxEpoch = 0
    UnicodeInputs = {55295, 55296, 57343, 57344, 1114111, 1114112}
    AsciiInputs = {31, 32, 126, 127}
    KeyInputs = {"A", "Space", "Break"}
    CCharInputs <- MCCCharInputs
SYMMETRY Symmetry
SPECIFICATION Spec
INVARIANT TypeOK
INVARIANT ErrorContract
INVARIANT ClipboardRoundTrip
INVARIANT BufferOwnership
INVARIANT NoLeakedBuffer
PROPERTY LogAfterInit
PROPERTY InvalidInputTouchesNoDevice
PROPERTY NoPoisoning
PROPERTY SessionRefinement
