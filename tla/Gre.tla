-------------------------------- MODULE Gre --------------------------------
(***************************************************************************)
(* The provider "gre" (pkg/routing/gre) and the part of the kernel it      *)
(* configures: a tunnel to the address of every other node, named for the  *)
(* node's PodCIDR, and a route to the PodCIDR through it.                  *)
(*                                                                         *)
(* links has the links whose name starts with greLinkNamePrefix.  The      *)
(* kernel drops the routes of a link that is deleted; it refuses a second  *)
(* tunnel between two addresses and a second route to a destination.       *)
(* Nobody else changes these links.                                        *)
(***************************************************************************)
EXTENDS Provider, Netutil

CONSTANTS InitialKernels  \* what the agent may find: [links, routes]

VARIABLES
    todo,   \* links or routes of the running loop of kernel calls
    links,  \* kernel: tunnels [name, Local, Remote, up]
    routes  \* kernel: main table, [dst, dev]

vars == <<mapVars, provVars, todo, links, routes>>

Init ==
    /\ ProviderInit
    /\ todo = {}
    /\ \E k \in InitialKernels : links = k.links /\ routes = k.routes

-----------------------------------------------------------------------------
(***************************************************************************)
(* The expected configuration for a view.                                  *)
(***************************************************************************)

\* The prefix and the four bytes in hexadecimal, two digits each, which is the
\* longest name the kernel takes; the empty name for any other address.
buildTunnelName(ip) == IF Len(ip) = 4 THEN <<"k8s">> \o ip ELSE <<>>

\* The nodes that get a tunnel.
Tunnelled(v) == {n \in Remotes(v) : buildTunnelName(v.nodes[n].PodCIDR.ip) # <<>>}

TunnelOf(v, n) ==
    [name |-> buildTunnelName(v.nodes[n].PodCIDR.ip), Local |-> v.Address,
     Remote |-> v.nodes[n].Address, up |-> FALSE]
Tunnels(v) == {TunnelOf(v, n) : n \in Tunnelled(v)}

RouteOf(node) == [dst |-> node.PodCIDR, dev |-> buildTunnelName(node.PodCIDR.ip)]
Routes(v) == {RouteOf(v.nodes[n]) : n \in Tunnelled(v)}

\* Snapshot never returns a nil pointer for the local node.
Usable(v) == TRUE

-----------------------------------------------------------------------------
(***************************************************************************)
(* EnsureCIDRs.                                                            *)
(***************************************************************************)

Goto(label) ==
    /\ pc' = label
    /\ UNCHANGED <<mapVars, snap, lastVersionApplied, restarts>>

Skip == pc = "idle" /\ UpToDate /\ UNCHANGED vars

Begin == Start /\ UNCHANGED <<todo, links, routes>>

Observe == TakeSnapshot(Usable(view), "plan") /\ UNCHANGED <<todo, links, routes>>

\* Links.Ensure: removals first.
PlanLinks ==
    /\ pc = "plan"
    /\ todo' = LinkRemove(links, Tunnels(snap.view))
    /\ Goto("linkdel")
    /\ UNCHANGED <<links, routes>>

LinkDel ==
    /\ pc = "linkdel"
    /\ \E l \in todo : /\ links' = links \ {l}
                       /\ routes' = {r \in routes : r.dev # l.name}
                       /\ todo' = todo \ {l}
    /\ UNCHANGED <<mapVars, provVars>>

LinksDeleted ==
    /\ pc = "linkdel" /\ todo = {}
    /\ todo' \in LinkCreates(links, Tunnels(snap.view))
    /\ Goto("linkadd")
    /\ UNCHANGED <<links, routes>>

\* There is a tunnel between the two addresses.
LinkConflict(l) == \E k \in links : k.Local = l.Local /\ k.Remote = l.Remote

LinkAdd ==
    /\ pc = "linkadd"
    /\ \E l \in todo : ~LinkConflict(l) /\ links' = links \cup {l} /\ todo' = todo \ {l}
    /\ UNCHANGED <<mapVars, provVars, routes>>

\* The links that Links.Ensure returns: those with the name of an expected one.
LinksAdded == pc = "linkadd" /\ todo = {} /\ Goto("up") /\ UNCHANGED <<todo, links, routes>>

LinkSetUp ==
    /\ pc = "up"
    /\ \E l \in links : ~l.up /\ links' = (links \ {l}) \cup {[l EXCEPT !.up = TRUE]}
    /\ UNCHANGED <<mapVars, provVars, todo, routes>>

\* Mutant: links are not checked to be up.
PlanRoutesDown ==
    /\ pc = "up"
    /\ todo' = RouteCreate(routes, Routes(snap.view))
    /\ Goto("add")
    /\ UNCHANGED <<links, routes>>

\* RouteTable.Ensure(nil, routes, false).
PlanRoutes ==
    /\ pc = "up" /\ \A l \in links : l.up
    /\ todo' = RouteCreate(routes, Routes(snap.view))
    /\ Goto("add")
    /\ UNCHANGED <<links, routes>>

RouteConflict(r) == \E s \in routes : s.dst = r.dst

RouteAdd ==
    /\ pc = "add"
    /\ \E r \in todo : ~RouteConflict(r) /\ routes' = routes \cup {r} /\ todo' = todo \ {r}
    /\ UNCHANGED <<mapVars, provVars, links>>

Return(how) == how /\ todo' = {} /\ UNCHANGED <<links, routes>>

Commit == pc = "add" /\ todo = {} /\ Return(ReturnOK)

\* The kernel refuses a link or a route (EEXIST).
Refused ==
    /\ \/ pc = "linkadd" /\ \E l \in todo : LinkConflict(l)
       \/ pc = "add" /\ \E r \in todo : RouteConflict(r)
    /\ Return(ReturnError)

\* A netlink call fails for another reason.
Fail == pc \in {"plan", "linkdel", "linkadd", "up", "add"} /\ Return(ReturnError)

Restart ==
    /\ restarts < MaxRestarts
    /\ restarts' = restarts + 1
    /\ Return(ProcessStarts)

EnsureStep ==
    \/ Begin \/ Observe
    \/ PlanLinks \/ LinkDel \/ LinksDeleted \/ LinkAdd \/ LinksAdded \/ LinkSetUp
    \/ PlanRoutes \/ RouteAdd \/ Commit \/ Refused

Next ==
    \/ Change /\ UNCHANGED <<todo, links, routes>>
    \/ Skip \/ EnsureStep \/ Fail
    \/ Restart

Spec == Init /\ [][Next]_vars

-----------------------------------------------------------------------------
TypeOK ==
    /\ ProviderTypeOK
    /\ pc \in {"idle", "snapshot", "plan", "linkdel", "linkadd", "up", "add"}
    /\ \A l \in links : DOMAIN l = {"name", "Local", "Remote", "up"} /\ l.up \in BOOLEAN
    /\ \A r \in routes : DOMAIN r = {"dst", "dev"}
    /\ pc \in {"idle", "snapshot", "plan", "up"} => todo = {}

\* A network that is routed into a tunnel has that tunnel, and it is up: also
\* in the middle of an update, after a call that failed between the creation of
\* a tunnel and `ip link set up`, and after a restart there.
RoutesUseTunnels ==
    \A r \in routes : r.dev[1] = "k8s" => \E l \in links : l.name = r.dev /\ l.up

\* The addresses of the tunnels a network is routed into.
Path(dst) == {l.Remote : l \in {k \in links : [dst |-> dst, dev |-> k.name] \in routes}}

\* What may be known of remote nodes, and what of it has a PodCIDR that never
\* passes from one address to another.  Networks that differ in length alone count
\* as one PodCIDR: they have the same tunnel name.
Infos == UNION {{v.nodes[n] : n \in Remotes(v)} : v \in Views}
KeptInfos == {i \in Infos : \A j \in Infos : j.PodCIDR.ip = i.PodCIDR.ip => j = i}

ASSUME InfosAssumption == \A i \in Infos : i.PodCIDR.ip \in Seq(Nat)

\* The kernel has one route per destination.  The tunnels and the routes into them
\* come from an earlier run of the agent, in the same cluster.
ASSUME InitialKernelsAssumption ==
    \A k \in InitialKernels :
        /\ \A l \in k.links : /\ l = [name |-> l.name, Local |-> l.Local, Remote |-> l.Remote, up |-> l.up]
                             /\ l.up \in BOOLEAN
                             /\ \A i \in KeptInfos : l.name = buildTunnelName(i.PodCIDR.ip)
                                                     => l.Remote = i.Address
        /\ \A r, s \in k.routes : DOMAIN r = {"dst", "dev"} /\ (r.dst = s.dst => r = s)
        /\ \A r \in k.routes : r.dev[1] = "k8s" => \E l \in k.links : l.name = r.dev /\ l.up

\* When the provider takes itself to be up to date, there are the tunnels of the
\* remote nodes and no others, each of these nodes has its PodCIDR routed into
\* its tunnel alone, and the tunnel leads to the node if the PodCIDR never
\* passes from one address to another.
UpToDateTunnels ==
    UpToDate =>
        /\ {l.name : l \in links} = {l.name : l \in Tunnels(view)}
        /\ \A n \in Tunnelled(view) :
              LET node == view.nodes[n]
              IN  /\ {r \in routes : r.dst = node.PodCIDR} = {RouteOf(node)}
                  /\ node \in KeptInfos => Path(node.PodCIDR) = {node.Address}

\* README.md: the agent "simply configures linux native networking with that
\* CIDR -> node mapping"; Links.Ensure "Creates links to match expected".  When
\* the provider takes itself to be up to date, packets to the PodCIDR of every
\* remote node that has a tunnel go to the address of that node.
UpToDateForwards ==
    UpToDate => \A n \in Tunnelled(view) :
                   Path(view.nodes[n].PodCIDR) = {view.nodes[n].Address}

\* EnsureCIDRs is called again and again, and failures other than a refusal are
\* transient.
Fairness == WF_vars(EnsureStep) /\ SF_vars(LinkAdd) /\ SF_vars(RouteAdd)
            /\ <>[][Fail => Refused \/ Commit]_vars

FairSpec == Spec /\ Fairness

\* No route, and no tunnel that is to stay, is in the way of one to a node of the
\* map.  Tunnels that are not to stay are removed before any is made, so they do not
\* count.
NoConflict ==
    /\ \A s, t \in Tunnels(view), l \in links :
          l.name = s.name /\ l.Local = t.Local /\ l.Remote = t.Remote => l.name = t.name
    /\ \A n \in Tunnelled(view), r \in routes :
          r.dst = view.nodes[n].PodCIDR => r = RouteOf(view.nodes[n])

\* Once the node map stays as it is and the kernel has no reason to refuse, the
\* provider gets to be up to date, and stays so: calls that failed and restarts
\* are made up for, what an earlier run of the agent made is accepted, and a tunnel
\* of a node that has left does not keep its address from another node.
Converges == <>[](version # 0 /\ NoConflict) => <>[]UpToDate

=============================================================================
