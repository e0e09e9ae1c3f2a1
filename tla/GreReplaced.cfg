SPECIFICATION Spec
CONSTANTS
    Nil = Nil
    Node <- MCNode
    EmptyView <- MCEmptyView
    Views <- ReplacedViews
    InitialKernels <- FreshKernels
    MaxVersion = 2
    MaxRestarts = 0
INVARIANT
    UpToDateForwards
