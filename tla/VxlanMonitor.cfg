SPECIFICATION FairSpec
CONSTANTS
    Nil = Nil
    Node <- MCNode
    Views <- LegacyViews
    EmptyView <- MCEmptyView
    InitialKernels <- MCInitialKernels
    Overlay <- MCOverlay
    PodIPs <- MCPodIPs
    ForeignMessages <- MCForeignMessages
    MaxQueue = 1
    MaxVersion = 1
    MaxRestarts = 0
INVARIANT
    UpToDateListens
