------------------------------- MODULE Layer2 -------------------------------
(***************************************************************************)
(* The provider "layer2" (pkg/routing/layer2): a route to the PodCIDR of   *)
(* every other node via the address of that node, in the main table of the *)
(* kernel, which holds routes of others too.                               *)
(*                                                                         *)
(* RouteTable.Ensure is called with deleteExtraRoutes FALSE: nothing is    *)
(* ever removed.  The kernel refuses a second route to a destination, and  *)
(* a gateway that is an address of the machine itself.                     *)
(***************************************************************************)
EXTENDS Provider, Netutil

CONSTANTS
    InitialRoutes,  \* routes the agent may find
    LocalAddresses  \* addresses of this machine

\* The kernel has one route to a destination.
ASSUME InitialRoutesAssumption ==
    \A R \in InitialRoutes :
        \A r, s \in R : DOMAIN r = {"dst", "gw"} /\ (r.dst = s.dst => r = s)

VARIABLES
    todo,   \* routes of the running loop that are still to be created
    routes  \* kernel: main table, [dst, gw]

vars == <<mapVars, provVars, todo, routes>>

Init == ProviderInit /\ todo = {} /\ routes \in InitialRoutes

RouteOf(node) == [dst |-> node.PodCIDR, gw |-> node.Address]
Routes(v) == {RouteOf(v.nodes[n]) : n \in Remotes(v)}

\* Snapshot never returns a nil pointer for the local node, and the check for
\* it is the only one.
Usable(v) == TRUE

Skip == pc = "idle" /\ UpToDate /\ UNCHANGED vars

Begin == Start /\ UNCHANGED <<todo, routes>>

Observe == TakeSnapshot(Usable(view), "plan") /\ UNCHANGED <<todo, routes>>

\* RouteTable.Ensure(nil, routes, false).
PlanRoutes ==
    /\ pc = "plan"
    /\ todo' = RouteCreate(routes, Routes(snap.view))
    /\ pc' = "add"
    /\ UNCHANGED <<mapVars, snap, lastVersionApplied, restarts, routes>>

\* Whether the kernel refuses netlink.RouteAdd: EEXIST, or an invalid gateway.
Refused(r) == r.gw \in LocalAddresses \/ \E s \in routes : s.dst = r.dst

RouteAdd ==
    /\ pc = "add"
    /\ \E r \in todo : /\ ~Refused(r)
                       /\ routes' = routes \cup {r}
                       /\ todo' = todo \ {r}
    /\ UNCHANGED <<mapVars, provVars>>

Return(how) == how /\ todo' = {} /\ UNCHANGED routes

RouteRefused ==
    /\ pc = "add"
    /\ \E r \in todo : Refused(r)
    /\ Return(ReturnError)

Commit == pc = "add" /\ todo = {} /\ Return(ReturnOK)

\* A netlink call fails for another reason.
Fail == pc \in {"plan", "add"} /\ Return(ReturnError)

Restart ==
    /\ restarts < MaxRestarts
    /\ restarts' = restarts + 1
    /\ Return(ProcessStarts)

EnsureStep ==
    Begin \/ Observe \/ PlanRoutes \/ RouteAdd \/ RouteRefused \/ Commit

Next ==
    \/ Change /\ UNCHANGED <<todo, routes>>
    \/ Skip \/ EnsureStep \/ Fail
    \/ Restart

Spec == Init /\ [][Next]_vars

-----------------------------------------------------------------------------
TypeOK ==
    /\ ProviderTypeOK
    /\ pc \in {"idle", "snapshot", "plan", "add"}
    /\ \A r \in routes \cup todo : DOMAIN r = {"dst", "gw"}
    /\ pc # "add" => todo = {}

\* When the provider takes itself to be up to date, packets to the PodCIDR of
\* every remote node of the map go to the address of that node and to no other.
UpToDateRoutes ==
    UpToDate => \A n \in Remotes(view) :
                   {r.gw : r \in {s \in routes : s.dst = view.nodes[n].PodCIDR}}
                       = {view.nodes[n].Address}

\* README.md: the agent "will effectively call `ip route add $nodeCIDR via
\* $nodeIP` for every other node": it does not call it for its own.
NoRouteToSelf == \A r \in todo : r.gw \notin LocalAddresses

\* EnsureCIDRs is called again and again, failures other than a refusal are
\* transient, and the routes to create come in another order at times (they
\* follow the order of a Go map).
Fairness ==
    /\ WF_vars(EnsureStep)
    /\ SF_vars(RouteAdd)
    /\ <>[][Fail => RouteRefused \/ Commit]_vars

FairSpec == Spec /\ Fairness

\* Once the node map stays as it is, the provider gets to be up to date, and
\* stays so ("Unexpected error in provider controller, will retry").
Converges == <>[](version # 0) => <>[]UpToDate

\* No route there is stands in the way of one to a node of the map, and the
\* local node is not taken for another one.
NoConflict ==
    \A n \in Remotes(view) :
        /\ view.nodes[n].Address \notin LocalAddresses
        /\ \A r \in routes : r.dst = view.nodes[n].PodCIDR => r.gw = view.nodes[n].Address

\* It does if the kernel has no reason to refuse: calls that failed and restarts
\* are made up for, and routes made by an earlier run of the agent are accepted.
ConvergesWithoutConflict == <>[](version # 0 /\ NoConflict) => <>[]UpToDate

=============================================================================
