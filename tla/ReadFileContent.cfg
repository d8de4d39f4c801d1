SPECIFICATION Spec
CONSTANTS
    KILO = 3
    Sizes = {0, 1, 2, 3, 4, 5, 6, 7, 8}
INVARIANT ContentIsFile
