\* Two transfers, a list and a ring of two.
SPECIFICATION FairSpec
CONSTANTS
    MaxTransfers = 2
    Capacity = 2
INVARIANTS
    AnswersKept
    ReportedAfterAnswer
PROPERTY
    AnswersReported
