SPECIFICATION MailboxSpec
CONSTANTS
    e1 = e1
    e2 = e2
    s1 = s1
    n1 = n1
    Nothing = Nothing
    Inbox = Inbox
    Work = Work
    Email <- TwoEmails
    Node <- OneNode
    Session <- OneSession
    At <- AtOne
    EarlyUse = TRUE
    MaxUid <- NoFiling
    MaxUids = 0
PROPERTIES UidsAscend
CHECK_DEADLOCK FALSE
