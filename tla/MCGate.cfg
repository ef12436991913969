SPECIFICATION Spec
CONSTANTS
    r1 = r1
    r2 = r2
    Request <- TwoRequests
    Sent <- MCSent
    Views <- SeededViews
    NewHost <- Ghost
    MaxChanges = 1
INVARIANTS
    TypeOK
    AnswerIsOnRecord
    OneRowAtMost
    DecisionFollowsTable
