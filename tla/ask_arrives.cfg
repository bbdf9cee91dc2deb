CONSTANTS
    exec = exec
    other = other
    tab1 = tab1
    tab2 = tab2
    Convs <- OneConv
    Asks <- TwoAsks
    Execs <- TheExec
    Tabs <- TwoTabs
    MaxTurns = 2
    Ops <- Anything
SPECIFICATION FairSpec
INVARIANTS WaiterReachable AnswersNeverBlock ApprovalOnRecord
PROPERTY AcceptedAnswerArrives
CHECK_DEADLOCK FALSE
