SPECIFICATION FairSpec
CONSTANTS
    Nil = Nil
    Node <- MCNode
    EmptyView <- MCEmptyView
    LocalAddresses <- MCLocalAddresses
    InitialRoutes <- MCInitialRoutes
    MaxVersion = 3
    MaxRestarts = 1
    Views <- MCViews
INVARIANTS
    TypeOK
    UpToDateRoutes
PROPERTY
    ConvergesWithoutConflict
