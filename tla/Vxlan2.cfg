SPECIFICATION FairSpec
CONSTANTS
    Nil = Nil
    Node <- MCNode
    Views <- MixedViews
    EmptyView <- MCEmptyView
    InitialKernels <- MCInitialKernels
    MaxVersion = 3
    MaxRestarts = 1
INVARIANTS
    TypeOK
    RoutesResolve
    UpToDateForwards
    LinkIsConfigured
PROPERTY
    Converges
