\* Three launches with any -m argument against a sidebar of two entries.
CONSTANTS
    l1 = l1
    l2 = l2
    l3 = l3
    Launches = {l1, l2, l3}
    Names <- MCNames
    NoModule = none
    Listed <- MCListed
    Removable <- MCRemovable
    NoOwner = nobody
SPECIFICATION FairSpec
INVARIANTS TypeOK MailboxAnswered
PROPERTIES AnsweredIsShown RunningWindowAnswers LaunchSettles
CHECK_DEADLOCK FALSE
