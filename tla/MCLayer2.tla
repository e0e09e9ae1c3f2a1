------------------------------ MODULE MCLayer2 ------------------------------
(***************************************************************************)
(* Small instances of Layer2.                                              *)
(***************************************************************************)
EXTENDS Layer2, MCCluster

MCLocalAddresses == {Addr(0)}

\* A fresh node, and one where the agent has run.
FreshRoutes == {{}}
MCInitialRoutes == FreshRoutes \cup {{RouteOf(Info(Net(1), Addr(1)))}}

\* A node is replaced by one with another address that gets its PodCIDR.
ReplacedViews ==
    {Full(Cluster(Self, Info(Net(1), Addr(1)), Nil)),
     Full(Cluster(Self, Nil, Info(Net(1), Addr(2))))}

\* The local node is identified late.
LateViews == {Unknown, Full(Cluster(Self, Info(Net(1), Addr(1)), Nil))}

=============================================================================
