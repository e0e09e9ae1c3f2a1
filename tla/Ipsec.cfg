SPECIFICATION FairSpec
CONSTANTS
    Nil = Nil
    Node <- MCNode
    Views <- IpsecViews
    EmptyView <- MCEmptyView
    Strategies <- MCStrategies
    MaxVersion = 3
    MaxRestarts = 1
INVARIANTS
    TypeOK
    UpToDateStates
    UpToDatePolicies
PROPERTIES
    PoliciesBacked
    Converges
