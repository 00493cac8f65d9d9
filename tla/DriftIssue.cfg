CONSTANTS
    Matrix <- MCMatrix
    Slots = {1, 2}
    PageSize = 3
    MaxOthers = 1
    Killed = {137}
SPECIFICATION FairSpec
INVARIANT AtMostOneIssue
PROPERTY LastingDriftReported
CHECK_DEADLOCK FALSE
