------------------------------ MODULE MCAgent ------------------------------
(***************************************************************************)
(* Small instances of Agent: the local node "self" and one other node.     *)
(***************************************************************************)
EXTENDS Agent

MCNode == {"self", "peer"}
MCPeers == {"peer"}
MCCidrText == {"", "c1", "c2"}
MCCIDR == {"net1", "net2"}
MCParseCIDR == [t \in MCCidrText |-> CASE t = "c1" -> "net1"
                                       [] t = "c2" -> "net2"
                                       [] OTHER -> Nil]
MCAddrText == 1 .. 3
MCIP == {"ip1", "ip2"}
MCParseIP == [t \in MCAddrText |-> CASE t = 1 -> "ip1" [] t = 2 -> "ip2" [] OTHER -> Nil]
MCIdentity == {"this machine", "another"}
MCMyIdentity == "this machine"

Obj(cidr, ips, unavailable, id) ==
    [PodCIDR |-> cidr, InternalIPs |-> ips, NetworkUnavailable |-> unavailable,
     Identity |-> id]

\* The local node: registered before it reports its IDs; identified but without
\* a PodCIDR; complete; with a second address; with an address that does not parse.
SelfNew   == Obj("", {1}, "True", "another")
SelfBare  == Obj("", {1}, "True", "this machine")
SelfFull  == Obj("c1", {1}, "True", "this machine")
SelfUp    == Obj("c1", {1, 2}, "none", "this machine")

\* Another node: complete; with another address; with no usable address.
PeerFull  == Obj("c2", {1}, "False", "another")
PeerMoved == Obj("c2", {2, 3}, "False", "another")
PeerBad   == Obj("c2", {3}, "Unknown", "another")

MCObjects ==
    [n \in MCNode |-> IF n = "self" THEN {SelfBare, SelfFull, SelfUp}
                                    ELSE {PeerFull, PeerMoved, PeerBad}]
MCInitialObjects ==
    {[n \in MCNode |-> IF n = "self" THEN s ELSE p] :
        s \in {SelfNew, SelfFull}, p \in {Nil, PeerFull}}

\* For liveness: the local node gets its PodCIDR, the other node comes, moves
\* and goes.
FewObjects == [n \in MCNode |-> IF n = "self" THEN {SelfFull} ELSE {PeerFull}]
FewInitialObjects ==
    {[n \in MCNode |-> IF n = "self" THEN SelfNew ELSE Nil],
     [n \in MCNode |-> IF n = "self" THEN SelfBare ELSE PeerMoved]}

=============================================================================
