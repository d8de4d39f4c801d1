SPECIFICATION Spec
CONSTANTS
    Alphabet = {"[", "]", "'", " ", "0", ".", "-", "a", "~", "hi"}
    MaxLen = 4
    MaxFocused = 6
    Builds = {"debug", "release"}
    Sources <- MCSources
INVARIANTS TypeOK TokensTile SliceIsSpan TokensAreLexemes BracketsMatch VerdictCorrect
