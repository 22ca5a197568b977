SPECIFICATION FairMailboxSpec
CONSTANTS
    e1 = e1
    e2 = e2
    s1 = s1
    n1 = n1
    Nothing = Nothing
    Inbox = Inbox
    Work = Work
    Email <- TwoEmails
    Node <- OneNode
    Session <- OneSession
    At <- AtOne
    EarlyUse = FALSE
    MaxUid <- Refiling
    MaxUids = 3
INVARIANTS RemovesMeant
PROPERTIES UidsAscend IdleFollows
CHECK_DEADLOCK FALSE
