SPECIFICATION Spec
CONSTANTS
    Programs <- MCPrograms
    Arity <- MCArity
    Body <- MCBody
    Apply <- MCApply
    RootBindings <- MCBindings
    Word = {"identity", "second", "zero", "set", "x", "f", "g", "outer", "foo"}
    Data = {"d", "e"}
    Builtin = {"identity", "second", "zero", "set"}
    Function = {"f", "g", "outer"}
    FreeRoot = FALSE
    SeqSize = 4
    MaxForms = 5
    MaxShipped = 6
INVARIANTS PendingCallsOpen ArgumentsInBounds MemoryOwned OutcomeCorrect ArgumentsCorrect
