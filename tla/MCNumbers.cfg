SPECIFICATION Spec
CONSTANTS
    LLONG_MAX = 127
    HasBuiltins = FALSE
    MaxLen = 4
    Digits = {0, 1, 2, 3, 7, 8, 9}
    Literals <- MCLiterals
INVARIANTS TypeOK ValueIsLiteral
PROPERTY ImplementsBuiltin
