CONSTANTS
    Targets = {"windows", "macos", "linux"}
    AsciiInputs <- MCAsciiInputs
SPECIFICATION Spec
INVARIANT AsciiPathTypesRequestedChar
