SPECIFICATION ReportSpec
CONSTANTS
    MaxLen = 6
    SIZE_MAX = 15
    Errors <- MCErrors
INVARIANTS ReportTypeOK LinePrinted FirstLineCaret
