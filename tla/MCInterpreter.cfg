SPECIFICATION FairSpec
CONSTANTS
    Alphabet = {"[", "]", "'", " ", "0", ".", "-", "a", "~", "hi", "n"}
    MaxLen = 4
    MaxFocused = 5
    SIZE_MAX = 1000
    Build = "debug"
    Name <- MCName
    Inputs <- MCInputs
INVARIANTS PromptClean ErrorsInOneLine AnswerCorrect EchoesLastItem
PROPERTIES ImplementsSession EndsWithInput
