SPECIFICATION Spec
CONSTANTS
    DefaultSize = 2
    Junk = Junk
    Chars = {1, 2}
    Literals <- MCLiterals
    MaxLength = 4
    MaxMoves = 3
    MAX_STRCHAIN_SIZE = 3
    Builds = {"debug", "release"}
    Values = {"v", "w"}
INVARIANTS ViewKeepsText MessageComplete ComparesInOrder
PROPERTIES ImplementsAppendOnly ImplementsDictionary
