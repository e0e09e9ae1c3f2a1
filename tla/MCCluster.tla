----------------------------- MODULE MCCluster -----------------------------
(***************************************************************************)
(* Views for small instances of the providers: the local node and two      *)
(* others, which take over each other's PodCIDRs and addresses.            *)
(***************************************************************************)
EXTENDS Provider

MCNode == {"self", "a", "b"}

Net(i) == [ip |-> <<10, 0, i, 0>>, len |-> 24]
Net6 == [ip |-> <<253, 0, 0, 0, 0, 0, 0, 0, 0, 0, 0, 0, 0, 0, 0, 0>>, len |-> 64]
Addr(i) == <<192, 168, 0, i>>
Info(cidr, addr) == [PodCIDR |-> cidr, Address |-> addr]
Self == Info(Net(0), Addr(0))

Cluster(self, a, b) ==
    [n \in MCNode |-> CASE n = "self" -> self [] n = "a" -> a [] n = "b" -> b]

\* Two nodes never hold one PodCIDR, or one address, at a time.
Distinct(f) ==
    \A m, n \in DOMAIN f : m # n /\ f[m] # Nil /\ f[n] # Nil =>
        /\ f[m].PodCIDR # f[n].PodCIDR
        /\ f[m].Address # f[n].Address

\* The list of nodes was empty.
MCEmptyView ==
    [Name |-> Nil, PodCIDR |-> Nil, Address |-> Nil, nodes |-> [n \in MCNode |-> Nil]]

\* The local node is in the map, but not identified.
Unknown ==
    [Name |-> Nil, PodCIDR |-> Nil, Address |-> Nil,
     nodes |-> Cluster(Self, Info(Net(1), Addr(1)), Nil)]

\* The local node is identified, but has no PodCIDR yet.
Early ==
    [Name |-> "self", PodCIDR |-> Nil, Address |-> Addr(0),
     nodes |-> Cluster(Info(Nil, Addr(0)), Info(Net(1), Addr(1)), Nil)]

Full(cluster) ==
    [Name |-> "self", PodCIDR |-> Net(0), Address |-> Addr(0), nodes |-> cluster]

Remote == {Nil, Info(Net(1), Addr(1)), Info(Net(1), Addr(2)), Info(Net(2), Addr(1))}

MCViews ==
    {Unknown, Early} \cup
    {Full(c) : c \in {d \in {Cluster(Self, a, b) :
                                a \in Remote \cup {Info(Nil, Addr(1))}, b \in Remote} :
                      Distinct(d)}}

\* Also a node with an IPv6 PodCIDR.
MixedViews == MCViews \cup {Full(Cluster(Self, Info(Net6, Addr(1)), Nil))}

=============================================================================
