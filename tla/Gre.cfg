SPECIFICATION FairSpec
CONSTANTS
    Nil = Nil
    Node <- MCNode
    EmptyView <- MCEmptyView
    Views <- MovingViews
    InitialKernels <- MCInitialKernels
    MaxVersion = 3
    MaxRestarts = 1
INVARIANTS
    TypeOK
    RoutesUseTunnels
    UpToDateTunnels
PROPERTY
    Converges
