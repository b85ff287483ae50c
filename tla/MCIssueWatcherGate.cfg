SPECIFICATION FairSpec
CONSTANTS
    own = own
    other = other
    none = none
    NoIssue = none
    Issue = {other}
    OwnerAuthored = {}
    PageSize = 3
    MaxEdits = 2
    MaxComments = 1
    MaxRuns = 1
    MaxErrors = 1
    MaxCrashes = 1
INVARIANTS OwnerDecides GateInv
PROPERTY IssueIsServed
CHECK_DEADLOCK FALSE
