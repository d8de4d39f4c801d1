SPECIFICATION Spec
CONSTANTS
    ByteBits = 2
    SigDigits = 2
    Suites <- MCSuites
INVARIANTS VerdictsCorrect ReportsFaithful SummaryMatchesLines
PROPERTY ImplementsScoreboard
