------------------------------ MODULE MCVxlan2 ------------------------------
(***************************************************************************)
(* Small instances of Vxlan2.                                              *)
(***************************************************************************)
EXTENDS Vxlan2, MCCluster

Overlay == [ip |-> <<10, 0, 0, 0>>, len |-> 8]

\* A node without a link, one where vxlan-legacy ran before, and one whose link
\* dates from another PodCIDR.
Kernel(l, a, f, r) == [link |-> l, arp |-> a, fdb |-> f, routes |-> r]
Fresh == Kernel(Nil, {}, {}, {})
Legacy ==
    Kernel([mac |-> mapToMAC(<<10, 0, 0, 0>>), mtu |-> MTU,
            addrs |-> {[ip |-> <<10, 0, 0, 0>>, len |-> 8]}, up |-> TRUE],
           {}, {FdbOf(Info(Net(1), Addr(1)))}, {[dst |-> Overlay, gw |-> Nil]})
Reborn ==
    Kernel([mac |-> mapToMAC(<<10, 0, 1, 0>>), mtu |-> "other",
            addrs |-> {HostAddr(<<10, 0, 1, 0>>)}, up |-> FALSE],
           {ArpOf(Info(Net(2), Addr(2)))}, {FdbOf(Info(Net(2), Addr(2)))},
           {RouteOf(Info(Net(2), Addr(2)))})
MCInitialKernels == {Fresh, Legacy, Reborn}

=============================================================================
