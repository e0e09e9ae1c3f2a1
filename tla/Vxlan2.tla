------------------------------- MODULE Vxlan2 -------------------------------
(***************************************************************************)
(* The provider "vxlan" (pkg/routing/vxlan2) and the part of the kernel it *)
(* configures: one vxlan link for all nodes and, for each remote node, a   *)
(* route to its PodCIDR, an ARP entry for the gateway of that route and a  *)
(* forwarding entry (FDB) from the gateway's MAC to the node's address.    *)
(*                                                                         *)
(* Every netlink call is a step and may fail, which ends EnsureCIDRs with  *)
(* the calls made so far in effect.  A failing call to list something is a *)
(* failure before the first change.  Nobody else changes the link.         *)
(***************************************************************************)
EXTENDS Provider, Netutil

CONSTANTS
    InitialKernels  \* what the agent may find: [link, arp, fdb, routes]

VARIABLES
    plink,   \* whether VxlanRoutingProvider.link is set
    todo,    \* entries of the running loop of kernel calls
    link,    \* kernel: the link [mac, mtu, addrs, up], or Nil
    arp,     \* kernel: ARP entries of the link
    fdb,     \* kernel: FDB entries of the link
    routes   \* kernel: routes of the link, [dst, gw]

kernelVars == <<link, arp, fdb, routes>>
vars == <<mapVars, provVars, plink, todo, kernelVars>>

Init ==
    /\ ProviderInit
    /\ plink = FALSE
    /\ todo = {}
    /\ \E k \in InitialKernels :
          link = k.link /\ arp = k.arp /\ fdb = k.fdb /\ routes = k.routes

-----------------------------------------------------------------------------
(***************************************************************************)
(* The expected configuration for a view.                                  *)
(***************************************************************************)

\* 00:53 and the four bytes; the process exits on any other address.
mapToMAC(ip) == <<0, 83>> \o ip
IsIPv4(ip) == Len(ip) = 4

HostAddr(ip) == [ip |-> ip, len |-> 32]

ArpOf(node) == [Family |-> "inet", IP |-> node.PodCIDR.ip,
                HardwareAddr |-> mapToMAC(node.PodCIDR.ip)]
FdbOf(node) == [Family |-> "bridge", IP |-> node.Address,
                HardwareAddr |-> mapToMAC(node.PodCIDR.ip)]
RouteOf(node) == [dst |-> node.PodCIDR, gw |-> node.PodCIDR.ip]

\* Mutant: the forwarding entries are forgotten.
NeighsWithoutFdb(v) == {ArpOf(v.nodes[n]) : n \in Remotes(v)}

Neighs(v) == UNION {{ArpOf(v.nodes[n]), FdbOf(v.nodes[n])} : n \in Remotes(v)}
Routes(v) == {RouteOf(v.nodes[n]) : n \in Remotes(v)}

Usable(v) == v.PodCIDR # Nil /\ v.Address # Nil

\* Nodes share neither an address nor a PodCIDR (the neighbour table has one entry
\* per IP and would lose one of theirs), and no node has an address that is the
\* gateway for another.
ASSUME DistinctNeighs ==
    \A v \in Views \cup {EmptyView} : \A e, f \in Neighs(v) :
        e.IP = f.IP \/ (e.Family = f.Family /\ e.HardwareAddr = f.HardwareAddr) => e = f

\* The API server does not let a PodCIDR change.
ASSUME PodCIDRAssumption ==
    \A v, w \in Views \cup {EmptyView} :
        v.PodCIDR # Nil /\ w.PodCIDR # Nil => v.PodCIDR = w.PodCIDR

IsLink(l) ==
    l = [mac |-> l.mac, mtu |-> l.mtu, addrs |-> l.addrs, up |-> l.up] /\ l.up \in BOOLEAN

\* The kernel has one ARP entry per address and one FDB entry per MAC; routes with
\* a gateway come from an earlier run, which made their entries first.
ASSUME InitialKernelsAssumption ==
    \A k \in InitialKernels :
        /\ k.link # Nil => IsLink(k.link)
        /\ \A a, b \in k.arp : a.Family = "inet" /\ (a.IP = b.IP => a = b)
        /\ \A f, g \in k.fdb : f.Family = "bridge" /\ (f.HardwareAddr = g.HardwareAddr => f = g)
        /\ \A r \in k.routes : DOMAIN r = {"dst", "gw"}
        /\ \A r \in k.routes : r.gw # Nil =>
              \E a \in k.arp, f \in k.fdb : /\ a.IP = r.gw /\ a.HardwareAddr = mapToMAC(r.gw)
                                         /\ f.HardwareAddr = mapToMAC(r.gw)

-----------------------------------------------------------------------------
(***************************************************************************)
(* EnsureLink, while the provider has no link: the link is added, then     *)
(* MAC, MTU, addresses and state are corrected, each only if it differs.   *)
(***************************************************************************)

Me == snap.view
MTU == "min-100"
LinkAddrs == {HostAddr(Me.PodCIDR.ip)}

\* Mutant: a link that is there is reused with the MAC it has.
MacAny == link # Nil

MacSet == link # Nil /\ link.mac = mapToMAC(Me.PodCIDR.ip)
MtuSet == MacSet /\ link.mtu = MTU
AddrsAdded == MtuSet /\ AddrCreate(link.addrs, LinkAddrs) = {}
AddrsSet == AddrsAdded /\ AddrRemove(link.addrs, LinkAddrs) = {}

InEnsureLink == pc = "link" /\ IsIPv4(Me.PodCIDR.ip)

LinkCall(l) ==
    /\ link' = l
    /\ UNCHANGED <<mapVars, provVars, plink, todo, arp, fdb, routes>>

LinkAdd ==
    /\ InEnsureLink /\ link = Nil
    /\ LinkCall([mac |-> mapToMAC(Me.PodCIDR.ip), mtu |-> MTU, addrs |-> {}, up |-> FALSE])

LinkSetHardwareAddr ==
    /\ InEnsureLink /\ link # Nil /\ ~MacSet
    /\ LinkCall([link EXCEPT !.mac = mapToMAC(Me.PodCIDR.ip)])

LinkSetMTU ==
    /\ InEnsureLink /\ MacSet /\ ~MtuSet
    /\ LinkCall([link EXCEPT !.mtu = MTU])

AddrAdd ==
    /\ InEnsureLink /\ MtuSet
    /\ \E a \in AddrCreate(link.addrs, LinkAddrs) :
          LinkCall([link EXCEPT !.addrs = @ \cup {a}])

AddrDel ==
    /\ InEnsureLink /\ AddrsAdded
    /\ \E a \in AddrRemove(link.addrs, LinkAddrs) :
          LinkCall([link EXCEPT !.addrs = @ \ {a}])

LinkSetUp ==
    /\ InEnsureLink /\ AddrsSet /\ ~link.up
    /\ LinkCall([link EXCEPT !.up = TRUE])

\* EnsureLink has returned: p.link and p.neighTable are set.
LinkEnsured == AddrsSet /\ link.up

SetLink ==
    /\ InEnsureLink /\ LinkEnsured
    /\ plink' = TRUE
    /\ pc' = "plan"
    /\ UNCHANGED <<mapVars, snap, lastVersionApplied, restarts, todo, kernelVars>>

-----------------------------------------------------------------------------
(***************************************************************************)
(* EnsureCIDRs.                                                            *)
(***************************************************************************)

\* The version is the one applied last.
Skip == pc = "idle" /\ UpToDate /\ UNCHANGED vars

Begin == Start /\ UNCHANGED <<plink, todo, kernelVars>>

Observe ==
    /\ TakeSnapshot(Usable(view), IF plink THEN "plan" ELSE "link")
    /\ UNCHANGED <<plink, todo, kernelVars>>

AllIPv4(v) == \A n \in Remotes(v) : IsIPv4(v.nodes[n].PodCIDR.ip)

\* The loop over the nodes, and what NeighTable.Ensure has to upsert.  The list
\* of neighbours it compares with has the ARP entries, not the FDB.
PlanNeighs ==
    /\ pc = "plan" /\ AllIPv4(snap.view)
    /\ todo' \in NeighUpserts(arp, Neighs(snap.view))
    /\ pc' = "neigh"
    /\ UNCHANGED <<mapVars, snap, lastVersionApplied, restarts, plink, kernelVars>>

\* Mutant: NeighAppend in place of NeighSet.
NeighAppend ==
    /\ pc = "neigh"
    /\ \E e \in todo :
          /\ todo' = todo \ {e}
          /\ IF e.Family = "inet"
             THEN arp' = arp \cup {e} /\ UNCHANGED fdb
             ELSE fdb' = fdb \cup {e} /\ UNCHANGED arp
    /\ UNCHANGED <<mapVars, provVars, plink, link, routes>>

\* An ARP entry replaces the one of its address, an FDB entry that of its MAC.
NeighSet ==
    /\ pc = "neigh"
    /\ \E e \in todo :
          /\ todo' = todo \ {e}
          /\ IF e.Family = "inet"
             THEN arp' = {a \in arp : a.IP # e.IP} \cup {e} /\ UNCHANGED fdb
             ELSE fdb' = {f \in fdb : f.HardwareAddr # e.HardwareAddr} \cup {e}
                  /\ UNCHANGED arp
    /\ UNCHANGED <<mapVars, provVars, plink, link, routes>>

\* RouteTable.Ensure(p.link, routes, true): removals first.
PlanRoutes ==
    /\ pc = "neigh" /\ todo = {}
    /\ todo' = RouteRemove(routes, Routes(snap.view), TRUE)
    /\ pc' = "del"
    /\ UNCHANGED <<mapVars, snap, lastVersionApplied, restarts, plink, kernelVars>>

RouteDel ==
    /\ pc = "del"
    /\ \E r \in todo : routes' = routes \ {r} /\ todo' = todo \ {r}
    /\ UNCHANGED <<mapVars, provVars, plink, link, arp, fdb>>

RoutesDeleted ==
    /\ pc = "del" /\ todo = {}
    /\ todo' = RouteCreate(routes, Routes(snap.view))
    /\ pc' = "add"
    /\ UNCHANGED <<mapVars, snap, lastVersionApplied, restarts, plink, kernelVars>>

RouteAdd ==
    /\ pc = "add"
    /\ \E r \in todo : routes' = routes \cup {r} /\ todo' = todo \ {r}
    /\ UNCHANGED <<mapVars, provVars, plink, link, arp, fdb>>

Commit ==
    /\ pc = "add" /\ todo = {}
    /\ ReturnOK
    /\ UNCHANGED <<plink, todo, kernelVars>>

\* A netlink call fails.
Fail ==
    /\ pc \in {"link", "plan", "neigh", "del", "add"}
    /\ ReturnError
    /\ todo' = {}
    /\ UNCHANGED <<plink, kernelVars>>

-----------------------------------------------------------------------------
Exit ==
    /\ ProcessStarts
    /\ plink' = FALSE
    /\ todo' = {}
    /\ UNCHANGED kernelVars

Restart ==
    /\ restarts < MaxRestarts
    /\ restarts' = restarts + 1
    /\ Exit

\* klog.Fatalf in mapToMAC, for the local node or a remote one.
Fatal ==
    /\ \/ pc = "link" /\ ~IsIPv4(Me.PodCIDR.ip)
       \/ pc = "plan" /\ ~AllIPv4(snap.view)
    /\ UNCHANGED restarts
    /\ Exit

EnsureStep ==
    \/ Begin \/ Observe
    \/ LinkAdd \/ LinkSetHardwareAddr \/ LinkSetMTU \/ AddrAdd \/ AddrDel
    \/ LinkSetUp \/ SetLink
    \/ PlanNeighs \/ NeighSet \/ PlanRoutes \/ RouteDel \/ RoutesDeleted
    \/ RouteAdd \/ Commit \/ Fatal

Next ==
    \/ Change /\ UNCHANGED <<plink, todo, kernelVars>>
    \/ Skip \/ EnsureStep \/ Fail
    \/ Restart

Spec == Init /\ [][Next]_vars

-----------------------------------------------------------------------------
PC == {"idle", "snapshot", "link", "plan", "neigh", "del", "add"}

TypeOK ==
    /\ ProviderTypeOK
    /\ pc \in PC
    /\ plink \in BOOLEAN
    /\ pc \in {"idle", "snapshot", "link", "plan"} => todo = {}
    /\ link # Nil => IsLink(link)
    /\ \A r \in routes : DOMAIN r = {"dst", "gw"}
    /\ \A e \in arp : e.Family = "inet"
    /\ \A e \in fdb : e.Family = "bridge"

\* The path of a packet: the route to its destination, the MAC of the gateway,
\* the address of the node with that MAC.
Path(dst) ==
    {f.IP : f \in {g \in fdb : \E r \in routes, a \in arp :
                      r.dst = dst /\ a.IP = r.gw /\ a.HardwareAddr = g.HardwareAddr}}

\* There is never a route whose gateway has no MAC or whose MAC leads nowhere,
\* also in the middle of an update, after a call that failed and after a
\* restart: EnsureCIDRs makes the neighbour entries before the routes, and never
\* removes one ("We don't remove neighbour entries").
RoutesResolve == \A r \in routes : r.gw # Nil => Path(r.dst) # {}

\* When the provider takes itself to be up to date, packets to the PodCIDR of
\* every remote node of the map go to the address of that node and to no
\* other, and no other network is routed into the tunnel; whatever nodes left
\* their PodCIDR or their address to others on the way.
UpToDateForwards ==
    UpToDate =>
        /\ \A n \in Remotes(view) : Path(view.nodes[n].PodCIDR) = {view.nodes[n].Address}
        /\ routes = Routes(view)

\* Once the provider has a link and stops calling EnsureLink, the link is up,
\* with the MAC that the other nodes compute for this node and with its address
\* alone, whatever it was when the agent found it and whichever calls failed.
\* (As long as the PodCIDR of the local node does not change.)
LinkIsConfigured ==
    plink /\ view.PodCIDR # Nil =>
        link = [mac |-> mapToMAC(view.PodCIDR.ip), mtu |-> MTU,
                addrs |-> {HostAddr(view.PodCIDR.ip)}, up |-> TRUE]

\* EnsureCIDRs is called again and again, and failures of netlink calls are
\* transient (a step of Commit that changes nothing but pc looks like one).
Fairness == WF_vars(EnsureStep) /\ <>[][Fail => Commit]_vars

FairSpec == Spec /\ Fairness

\* Once the node map stays as it is, with a local node that has a PodCIDR and an
\* address, and no PodCIDR that mapToMAC rejects, the provider gets to be up to
\* date, and stays so.
Converges == <>[](Usable(view) /\ AllIPv4(view)) => <>[]UpToDate

=============================================================================
