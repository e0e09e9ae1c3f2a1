------------------------------- MODULE MCGre -------------------------------
(***************************************************************************)
(* Small instances of Gre.                                                 *)
(***************************************************************************)
EXTENDS Gre, MCCluster

\* A fresh node, one where an agent knew two other nodes, and one with a route
\* of others.
ServedView == Full(Cluster(Self, Info(Net(1), Addr(1)), Info(Net(2), Addr(2))))
Fresh == [links |-> {}, routes |-> {}]
Served == [links |-> {[t EXCEPT !.up = TRUE] : t \in Tunnels(ServedView)},
           routes |-> Routes(ServedView)]
Foreign == [links |-> {}, routes |-> {[dst |-> Net(1), dev |-> <<"eth0">>]}]
MCInitialKernels == {Fresh, Served, Foreign}

\* Nodes come and go, and one gets an IPv6 PodCIDR.  The PodCIDRs 1 and 3
\* stay with their addresses, 2 passes to another one.
RemoteA == {Nil, Info(Net(1), Addr(1)), Info(Net(3), Addr(2)),
            Info(Net6, Addr(1))}
RemoteB == {Nil, Info(Net(2), Addr(2)), Info(Net(2), Addr(3))}
MovingViews ==
    {Unknown, Early} \cup
    {Full(c) : c \in {d \in {Cluster(Self, a, b) : a \in RemoteA, b \in RemoteB} :
                      Distinct(d)}}

\* A node is replaced by one with another address that gets its PodCIDR.
FreshKernels == {Fresh}
ReplacedViews ==
    {Full(Cluster(Self, Info(Net(1), Addr(1)), Nil)),
     Full(Cluster(Self, Nil, Info(Net(1), Addr(2))))}

=============================================================================
