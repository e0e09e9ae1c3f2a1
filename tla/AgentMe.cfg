SPECIFICATION Spec
CONSTANTS
    Nil = Nil
    Node <- MCNode
    CidrText <- MCCidrText
    CIDR <- MCCIDR
    ParseCIDR <- MCParseCIDR
    AddrText <- MCAddrText
    IP <- MCIP
    ParseIP <- MCParseIP
    Identity <- MCIdentity
    MyIdentity <- MCMyIdentity
    InitialObjects <- MCInitialObjects
    Objects <- MCObjects
    Deletable <- MCNode
    MaxWrites = 2
    RequireSelf = TRUE
    HasCNI = TRUE
    MaxRestarts = 0
INVARIANT
    MeIsCurrent
