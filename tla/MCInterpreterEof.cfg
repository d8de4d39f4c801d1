SPECIFICATION Spec
CONSTANTS
    Alphabet = {"[", "]", "'", " ", "0", ".", "-", "a", "~", "hi", "n"}
    MaxLen = 2
    MaxFocused = 3
    SIZE_MAX = 1000
    Build = "debug"
    Name <- MCName
    Inputs <- MCInputs
INVARIANT PrintsComputed
