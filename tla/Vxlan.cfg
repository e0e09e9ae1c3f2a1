SPECIFICATION FairSpec
CONSTANTS
    Nil = Nil
    Node <- MCNode
    Views <- LegacyViews
    EmptyView <- MCEmptyView
    InitialKernels <- MCInitialKernels
    Overlay <- MCOverlay
    PodIPs <- MCPodIPs
    ForeignMessages <- MCForeignMessages
    MaxQueue = 2
    MaxVersion = 2
    MaxRestarts = 1
INVARIANTS
    TypeOK
    UpToDateForwards
    AnswersOverlayOnly
    LinkIsConfigured
PROPERTIES
    Converges
    MissesAnswered
