SPECIFICATION FairSpec
CONSTANTS
    Nil = Nil
    Node <- MCNode
    EmptyView <- MCEmptyView
    LocalAddresses <- MCLocalAddresses
    InitialRoutes <- FreshRoutes
    MaxVersion = 3
    MaxRestarts = 1
    Views <- LateViews
INVARIANT
    NoRouteToSelf
