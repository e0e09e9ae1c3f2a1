------------------------------ MODULE MCVxlan -------------------------------
(***************************************************************************)
(* A small instance of Vxlan: packets to a pod, of a PodCIDR that moves    *)
(* between nodes and addresses.                                            *)
(***************************************************************************)
EXTENDS Vxlan, MCCluster

MCOverlay == [ip |-> <<10, 0, 0, 0>>, len |-> 8]

Pod == <<10, 0, 1, 200>>
MCPodIPs == {Pod}

\* A request of another link, one for an IPv6 address.
MCForeignMessages ==
    {[Message("GETNEIGH", "INCOMPLETE", Addr(9), <<>>) EXCEPT !.LinkIndex = "eth0"],
     Message("GETNEIGH", "INCOMPLETE", Net6.ip, <<>>)}

\* A node without a link, and one where provider vxlan ran with another MTU, while
\* the node was registered with another PodCIDR.
Kernel(l, a, f, r) == [link |-> l, arp |-> a, fdb |-> f, routes |-> r]
Fresh == Kernel(Nil, {}, {}, {})
Vxlan2Ran ==
    Kernel([mac |-> mapToMAC(<<10, 0, 9, 0>>), mtu |-> "other",
            addrs |-> {[ip |-> <<10, 0, 9, 0>>, len |-> 32]}, up |-> TRUE, solicit |-> FALSE],
           {[IP |-> <<10, 0, 1, 0>>, HardwareAddr |-> mapToMAC(<<10, 0, 1, 0>>)]},
           {FdbOf(Info(Net(1), Addr(2)))},
           {[dst |-> Net(1), gw |-> <<10, 0, 1, 0>>, proto |-> "boot"]})
MCInitialKernels == {Fresh, Vxlan2Ran}

\* The pod's PodCIDR, which the kernel may know at another address; an address that
\* changes hands; a PodCIDR that is the upper half of a /24, and one of IPv6.
Half == [ip |-> <<10, 0, 1, 128>>, len |-> 25]
LegacyViews ==
    {Full(c) : c \in {Cluster(Self, Info(Net(1), Addr(1)), Nil),
                      Cluster(Self, Info(Net(2), Addr(2)), Info(Half, Addr(1))),
                      Cluster(Self, Info(Net6, Addr(1)), Nil)}}

=============================================================================
