------------------------------- MODULE Vxlan --------------------------------
(***************************************************************************)
(* The provider "vxlan-legacy" (pkg/routing/vxlan): one vxlan link with a  *)
(* route for the whole overlay network, forwarding entries (FDB) from the  *)
(* MAC of each remote node to its address, and the goroutine of module     *)
(* NetlinkMonitor, which resolves the addresses of pods on demand.         *)
(*                                                                         *)
(* EnsureCIDRs and the goroutine run concurrently, each netlink call being *)
(* a step.  A call that fails ends EnsureCIDRs with the calls made so far  *)
(* in effect.                                                              *)
(***************************************************************************)
EXTENDS Provider, Netutil, NetlinkMonitor

CONSTANTS
    InitialKernels, \* what the agent may find: [link, arp, fdb, routes]
    Overlay         \* the network of all pods

VARIABLES
    plink,   \* whether VxlanRoutingProvider.link is set
    todo,    \* entries of the running loop of kernel calls
    link,    \* kernel: the link [mac, mtu, addrs, up, solicit], or Nil
    fdb,     \* kernel: FDB entries of the link, [IP, HardwareAddr]
    routes   \* kernel: routes of the link, [dst, gw, proto]

tunnelVars == <<link, fdb, routes>>
vars == <<mapVars, provVars, plink, todo, tunnelVars, monitorVars>>

Init ==
    /\ ProviderInit
    /\ plink = FALSE
    /\ todo = {}
    /\ listening = FALSE /\ queue = <<>>
    /\ \E k \in InitialKernels :
          link = k.link /\ arp = k.arp /\ fdb = k.fdb /\ routes = k.routes

-----------------------------------------------------------------------------
(***************************************************************************)
(* The expected configuration for a view.                                  *)
(***************************************************************************)

Usable(v) == v.PodCIDR # Nil /\ v.Address # Nil

MTU == "min-100"
LinkAddrs(v) == {[ip |-> v.PodCIDR.ip, len |-> Overlay.len]}
FdbOf(node) == [IP |-> node.Address, HardwareAddr |-> mapToMAC(node.PodCIDR.ip)]
Neighs(v) == {FdbOf(v.nodes[n]) : n \in Remotes(v)}

OverlayRoute == [dst |-> Overlay, gw |-> Nil, proto |-> "boot"]

\* The kernel's own route to the network of an address of the link, once the
\* link has the address and is up.
Connected(l, rs) ==
    rs \cup {[dst |-> Overlay, gw |-> Nil, proto |-> "kernel"] :
                a \in {b \in l.addrs : l.up /\ b.len = Overlay.len
                                       /\ \A r \in rs : r.dst # Overlay}}

-----------------------------------------------------------------------------
(***************************************************************************)
(* EnsureLink.  A link that cannot be added is reused; only a new one gets *)
(* its MAC.  MTU and addresses are corrected, and the link is set up.      *)
(***************************************************************************)

Me == snap.view
Enter(label) == pc' = label /\ UNCHANGED <<mapVars, snap, lastVersionApplied, restarts>>

LinkCall(l) ==
    /\ link' = l
    /\ routes' = Connected(l, routes)
    /\ UNCHANGED <<fdb, todo, monitorVars>>

LinkAdd ==
    /\ pc = "link" /\ IsIPv4(Me.PodCIDR.ip)
    /\ IF link = Nil
       THEN /\ LinkCall([mac |-> mapToMAC(Me.PodCIDR.ip), mtu |-> MTU, addrs |-> {},
                         up |-> FALSE, solicit |-> FALSE])
            /\ Enter("mac")
       ELSE Enter("mtu") /\ UNCHANGED <<tunnelVars, todo, monitorVars>>
    /\ UNCHANGED plink

LinkSetHardwareAddr ==
    /\ pc = "mac"
    /\ LinkCall([link EXCEPT !.mac = mapToMAC(Me.PodCIDR.ip)])
    /\ Enter("mtu")
    /\ UNCHANGED plink

\* Mutant: a link that is reused keeps its MTU.
LinkKeepMTU ==
    /\ pc = "mtu"
    /\ LinkCall(link)
    /\ Enter("addrs")
    /\ UNCHANGED plink

\* LinkByName, and the MTU if it differs.
LinkSetMTU ==
    /\ pc = "mtu"
    /\ LinkCall([link EXCEPT !.mtu = MTU])
    /\ Enter("addrs")
    /\ UNCHANGED plink

AddrAdd ==
    /\ pc = "addrs"
    /\ \E a \in AddrCreate(link.addrs, LinkAddrs(Me)) :
          LinkCall([link EXCEPT !.addrs = @ \cup {a}])
    /\ UNCHANGED <<mapVars, provVars, plink>>

AddrDel ==
    /\ pc = "addrs" /\ AddrCreate(link.addrs, LinkAddrs(Me)) = {}
    /\ \E a \in AddrRemove(link.addrs, LinkAddrs(Me)) :
          LinkCall([link EXCEPT !.addrs = @ \ {a}])
    /\ UNCHANGED <<mapVars, provVars, plink>>

\* LinkSetUp ends EnsureLink; p.link is set before anything else can fail.
LinkSetUp ==
    /\ pc = "addrs" /\ link.addrs = LinkAddrs(Me)
    /\ LinkCall([link EXCEPT !.up = TRUE])
    /\ Enter("arp")
    /\ plink' = TRUE

ListenArp ==
    /\ pc = "arp"
    /\ LinkCall([link EXCEPT !.solicit = TRUE])
    /\ Enter("monitor")
    /\ UNCHANGED plink

\* NetlinkMonitor.Start: the socket is open, the goroutine runs.
MonitorStart ==
    /\ pc = "monitor"
    /\ listening' = TRUE
    /\ Enter("plan")
    /\ UNCHANGED <<plink, todo, tunnelVars, arp, queue>>

-----------------------------------------------------------------------------
(***************************************************************************)
(* EnsureCIDRs.                                                            *)
(***************************************************************************)

\* The version is the one applied last.
Skip == pc = "idle" /\ UpToDate /\ UNCHANGED vars

Begin == Start /\ UNCHANGED <<plink, todo, tunnelVars, monitorVars>>

\* With p.link set, the whole start-up is skipped, the monitor included.
Observe ==
    /\ TakeSnapshot(Usable(view), IF plink THEN "plan" ELSE "link")
    /\ UNCHANGED <<plink, todo, tunnelVars, monitorVars>>

AllIPv4(v) == \A n \in Remotes(v) : IsIPv4(v.nodes[n].PodCIDR.ip)

\* The loop over the nodes, and what NeighTable.Ensure has to upsert.  The list it
\* compares with has the ARP entries, which differ in family from the expected ones.
PlanNeighs ==
    /\ pc = "plan" /\ AllIPv4(snap.view)
    /\ todo' \in NeighUpserts({}, Neighs(snap.view))
    /\ Enter("neigh")
    /\ UNCHANGED <<plink, tunnelVars, monitorVars>>

\* The entry replaces that of its MAC; the kernel announces it.
NeighSet ==
    /\ pc = "neigh"
    /\ \E e \in todo :
          /\ todo' = todo \ {e}
          /\ fdb' = {f \in fdb : f.HardwareAddr # e.HardwareAddr} \cup {e}
          /\ queue' = Announced(queue,
                         Message("NEWNEIGH", "PERMANENT", e.IP, e.HardwareAddr))
    /\ UNCHANGED <<mapVars, provVars, plink, link, routes, arp, listening>>

\* RouteTable.Ensure(p.link, routes, true): removals first.
PlanRoutes ==
    /\ pc = "neigh" /\ todo = {}
    /\ todo' = RouteRemove(routes, {OverlayRoute}, TRUE)
    /\ Enter("del")
    /\ UNCHANGED <<plink, tunnelVars, monitorVars>>

RouteDel ==
    /\ pc = "del"
    /\ \E r \in todo : routes' = routes \ {r} /\ todo' = todo \ {r}
    /\ UNCHANGED <<mapVars, provVars, plink, link, fdb, monitorVars>>

\* The one route to add, if it is not there.
RouteAdd ==
    /\ pc = "del" /\ todo = {}
    /\ routes' = routes \cup RouteCreate(routes, {OverlayRoute})
    /\ Enter("done")
    /\ UNCHANGED <<plink, todo, link, fdb, monitorVars>>

Commit ==
    /\ pc = "done"
    /\ ReturnOK
    /\ UNCHANGED <<plink, todo, tunnelVars, monitorVars>>

\* A netlink call, or the write of the sysctl, fails.
Fail ==
    /\ pc \in {"link", "mac", "mtu", "addrs", "arp", "monitor", "plan", "neigh", "del"}
    /\ ReturnError
    /\ todo' = {}
    /\ UNCHANGED <<plink, tunnelVars, monitorVars>>

-----------------------------------------------------------------------------
\* The process ends, the goroutine with it; the kernel stays as it is.
Exit ==
    /\ ProcessStarts
    /\ plink' = FALSE
    /\ todo' = {}
    /\ listening' = FALSE /\ queue' = <<>>
    /\ UNCHANGED <<tunnelVars, arp>>

Restart ==
    /\ restarts < MaxRestarts
    /\ restarts' = restarts + 1
    /\ Exit

\* klog.Fatalf in mapToMAC, for the local node or a remote one.
Fatal ==
    /\ \/ pc = "link" /\ ~IsIPv4(Me.PodCIDR.ip)
       \/ pc = "plan" /\ ~AllIPv4(snap.view)
    /\ UNCHANGED restarts
    /\ Exit

EnsureStep ==
    \/ Begin \/ Observe
    \/ LinkAdd \/ LinkSetHardwareAddr \/ LinkSetMTU \/ AddrAdd \/ AddrDel \/ LinkSetUp
    \/ ListenArp \/ MonitorStart
    \/ PlanNeighs \/ NeighSet \/ PlanRoutes \/ RouteDel \/ RouteAdd \/ Commit
    \/ Fatal

\* Packets to pods of other nodes enter the link by a route.
Traffic(ip) ==
    /\ link # Nil /\ link.up /\ link.solicit
    /\ \E r \in routes : r.dst = Overlay
    /\ Miss(ip)

KernelStep == Expire \/ Foreign \/ \E ip \in PodIPs : Traffic(ip)

Next ==
    \/ Change /\ UNCHANGED <<plink, todo, tunnelVars, monitorVars>>
    \/ Skip \/ EnsureStep \/ Fail
    \/ Restart
    \/ /\ Watch \/ RespondFails \/ KernelStep
       /\ UNCHANGED <<mapVars, provVars, plink, todo, tunnelVars>>

Spec == Init /\ [][Next]_vars

-----------------------------------------------------------------------------
PC == {"idle", "snapshot", "link", "mac", "mtu", "addrs", "arp", "monitor", "plan",
       "neigh", "del", "done"}

IsLink(l) ==
    /\ l = [mac |-> l.mac, mtu |-> l.mtu, addrs |-> l.addrs, up |-> l.up, solicit |-> l.solicit]
    /\ l.up \in BOOLEAN /\ l.solicit \in BOOLEAN

TypeOK ==
    /\ ProviderTypeOK
    /\ pc \in PC
    /\ plink \in BOOLEAN /\ listening \in BOOLEAN
    /\ pc \notin {"neigh", "del"} => todo = {}
    /\ link # Nil => IsLink(link)
    /\ \A r \in routes : DOMAIN r = {"dst", "gw", "proto"}
    /\ \A e \in arp \cup fdb : DOMAIN e = {"IP", "HardwareAddr"}
    /\ Len(queue) <= MaxQueue /\ (~listening => queue = <<>>)

\* Whether a network contains an IPv4 address: they agree in every byte, up to
\* the bits of the byte that are beyond the network's length.
Contains(net, ip) ==
    /\ IsIPv4(net.ip)
    /\ \A k \in 1 .. 4 :
          LET hosts == IF 8 * k <= net.len THEN 1
                       ELSE IF 8 * k - net.len > 8 THEN 256 ELSE 2 ^ (8 * k - net.len)
          IN  ip[k] \div hosts = net.ip[k] \div hosts

\* What may be known of remote nodes.  The bits of a network beyond its length are 0
\* (net.ParseCIDR).
Infos == UNION {{v.nodes[n] : n \in Remotes(v)} : v \in Views}

ASSUME InfosAssumption ==
    \A i \in Infos : /\ i.Address \in Seq(Nat) /\ i.PodCIDR.ip \in Seq(Nat)
                     /\ i.PodCIDR.len = 24 /\ IsIPv4(i.PodCIDR.ip) => i.PodCIDR.ip[4] = 0

\* The API server does not let a PodCIDR change.
ASSUME PodCIDRAssumption ==
    \A v, w \in Views \cup {EmptyView} :
        v.PodCIDR # Nil /\ w.PodCIDR # Nil => v.PodCIDR = w.PodCIDR

\* At a time, nodes share neither an address nor a PodCIDR (the neighbour table has
\* one entry per IP and would lose one of theirs).
ASSUME DistinctNeighs ==
    \A v \in Views : \A e, f \in Neighs(v) :
        e.IP = f.IP \/ e.HardwareAddr = f.HardwareAddr => e = f

AllMessages ==
    [LinkIndex : {"vxlan1", "eth0"}, Type : {"GETNEIGH", "NEWNEIGH", "DELNEIGH"},
     State : {"INCOMPLETE", "REACHABLE", "FAILED", "PERMANENT"},
     IP : Seq(Nat), HardwareAddr : Seq(Nat)]

\* Pods have addresses of the overlay; the messages of others ask for none of the link.
ASSUME TrafficAssumption ==
    /\ \A ip \in PodIPs : ip \in Seq(Nat) /\ IsIPv4(ip) /\ Contains(Overlay, ip)
    /\ \A m \in ForeignMessages : m \in AllMessages /\ ~Wanted(m)

\* The kernel has one FDB entry per MAC; ARP entries come from earlier runs of an agent.
ASSUME InitialKernelsAssumption ==
    \A k \in InitialKernels :
        /\ \A a \in k.arp : /\ a = Answer(a.IP) /\ a.IP \in Seq(Nat) /\ IsIPv4(a.IP)
                            /\ Contains(Overlay, a.IP)
        /\ \A f, g \in k.fdb : /\ DOMAIN f = {"IP", "HardwareAddr"}
                               /\ f.HardwareAddr = g.HardwareAddr => f = g
        /\ \A r \in k.routes : DOMAIN r = {"dst", "gw", "proto"}
        /\ k.link # Nil => IsLink(k.link)

\* Where the tunnel sends a packet: the nodes with the MAC its address has.
Path(ip) ==
    {f.IP : f \in {g \in fdb : \E a \in arp : a.IP = ip /\ a.HardwareAddr = g.HardwareAddr}}

\* When the provider takes itself to be up to date, the overlay network and no
\* other is routed into the tunnel, and a packet for a pod of a remote node
\* whose address is resolved goes to that node and to no other; whatever nodes
\* left their PodCIDR to others, and whenever the monitor answered: ARP entries
\* name MACs of PodCIDRs, so they outlive the nodes.  (For PodCIDRs of length
\* 24: the monitor knows no other.)
UpToDateForwards ==
    UpToDate =>
        /\ routes = {OverlayRoute}
        /\ \A n \in Remotes(view), ip \in PodIPs :
              LET node == view.nodes[n] IN
              Contains(node.PodCIDR, ip) /\ node.PodCIDR.len = 24 /\ Resolved(ip) =>
                  Path(ip) = {node.Address}

\* The monitor gives MACs to addresses of the overlay only: the announcements of
\* the forwarding entries that EnsureCIDRs sets carry addresses of nodes and are
\* not taken for requests, and neither are those of other links.
AnswersOverlayOnly == \A a \in arp : Contains(Overlay, a.IP)

\* Once the provider has a link and stops calling EnsureLink, the link is up with
\* the right MTU and the one address, whatever it was when the agent found it and
\* whichever calls failed.  Its MAC is the one of the PodCIDR if the agent made the
\* link; a link that it found keeps its MAC, though README.md says that the MAC
\* encodes the PodCIDR.
LinkIsConfigured ==
    plink /\ view.PodCIDR # Nil =>
        /\ link.up /\ link.mtu = MTU /\ link.addrs = LinkAddrs(view)
        /\ \/ link.mac = mapToMAC(view.PodCIDR.ip)
           \/ \E k \in InitialKernels : k.link # Nil /\ link.mac = k.link.mac

\* README.md: "the kernel can notify us over netlink when an L2 miss is
\* happening, and we inject the L2 mapping on demand".  When the provider takes
\* itself to be up to date, the kernel notifies and somebody listens.
UpToDateListens == UpToDate => listening /\ link.solicit

-----------------------------------------------------------------------------
(***************************************************************************)
(* EnsureCIDRs is called again and again, the goroutine runs as long as    *)
(* the process does, and failures of netlink calls are transient.          *)
(***************************************************************************)

WatchStep == Watch /\ UNCHANGED <<mapVars, provVars, plink, todo, tunnelVars>>

Fairness ==
    /\ WF_vars(EnsureStep) /\ <>[][Fail => Commit]_vars
    /\ WF_vars(WatchStep) /\ <>[][RespondFails => Respond]_vars

FairSpec == Spec /\ Fairness

\* Once the node map stays as it is, with a local node that has a PodCIDR and an
\* address, and no PodCIDR that mapToMAC rejects, the provider gets to be up to
\* date, and stays so.
Converges == <>[](Usable(view) /\ AllIPv4(view)) => <>[]UpToDate

\* While the process stays up with its monitor, an address that keeps being asked
\* for, in messages that find room in the socket, gets an ARP entry, over and over
\* as entries expire: no other message, and no call of EnsureCIDRs, keeps the
\* monitor from its answer.
MissesAnswered ==
    <>[]listening =>
        \A ip \in PodIPs :
            []<><<Traffic(ip) /\ queue' # queue>>_vars => []<>Resolved(ip)

=============================================================================
