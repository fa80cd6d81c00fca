\* Fonts: two families, up to three faces, so that a family is met twice, in
\* any order with another one and with an unusable entry.
\* Controls: six openings, moves of the user and changes by others: a page
\* opened, left and opened again among them, with room for two of each.
\* A control that has used up its moves rests.
\* Default applications: any set of four desktop files, three changes by
\* installers and other programs, any number of choices.
SPECIFICATION PagesFairSpec
CONSTANTS
    Families = {1, 2}
    MaxFaces = 3
    MaxMoves = 6
    Apps <- MCApps
    NoFile = nofile
    MaxChanges = 3
INVARIANTS
    TypesOK
    ViewIsModel
    ListsComplete
    ShownIsValue
    DecisionStands
    ShownIsDefault
PROPERTIES
    FontsAppear
    Settles
CHECK_DEADLOCK FALSE
