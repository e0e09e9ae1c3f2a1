SPECIFICATION FairSpec
CONSTANTS
    Nil = Nil
    Node <- MCNode
    CidrText <- MCCidrText
    CIDR <- MCCIDR
    ParseCIDR <- MCParseCIDR
    AddrText <- MCAddrText
    IP <- MCIP
    ParseIP <- MCParseIP
    Identity <- MCIdentity
    MyIdentity <- MCMyIdentity
    InitialObjects <- FewInitialObjects
    Objects <- FewObjects
    Deletable <- MCPeers
    MaxWrites = 2
    RequireSelf = TRUE
    HasCNI = TRUE
    MaxRestarts = 1
INVARIANTS
    ReadyMeansConfigured
    CniSubnetNeverEmpty
PROPERTIES
    RoutesConverge
    NodeBecomesReady
