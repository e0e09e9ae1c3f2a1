------------------------------ MODULE GreProofs -----------------------------
(***************************************************************************)
(* Provider gre, in any cluster: routes lead into tunnels that are up, and *)
(* an up-to-date provider has the tunnels and routes of the remote nodes.  *)
(***************************************************************************)
EXTENDS Gre, ProviderProofs, SequenceTheorems

Named(l, S) == \E t \in S : t.name = l.name

LinkInv ==
    \A l \in links :
        /\ l = [name |-> l.name, Local |-> l.Local, Remote |-> l.Remote, up |-> l.up]
        /\ \A i \in KeptInfos : l.name = buildTunnelName(i.PodCIDR.ip) /\ l.name # <<>>
                                => l.Remote = i.Address

RouteInv ==
    /\ \A r, s \in routes : r.dst = s.dst => r = s
    /\ RoutesUseTunnels

\* How far links and routes agree with the snapshot in each phase: no link too
\* many, then none missing, then all up, then no route missing.
PhaseInv ==
    LET expected == Tunnels(snap.view)
        wanted == Routes(snap.view)
    IN  /\ pc = "linkdel" => \A l \in links : l \in todo \/ Named(l, expected)
        /\ pc = "linkadd" => /\ todo \subseteq expected
                             /\ \A t \in expected : Named(t, links) \/ Named(t, todo)
        /\ pc \in {"linkadd", "up", "add"} \/ UpToDate => \A l \in links : Named(l, expected)
        /\ pc \in {"up", "add"} \/ UpToDate => \A t \in expected : Named(t, links)
        /\ pc = "add" => /\ \A l \in links : l.up
                         /\ todo \subseteq wanted /\ wanted \subseteq routes \cup todo
        /\ UpToDate => wanted \subseteq routes

IndInv == MapInv /\ LinkInv /\ RouteInv /\ PhaseInv

LEMMA InitInd == Init => IndInv
<1> SUFFICES ASSUME Init PROVE IndInv
  OBVIOUS
<1>1. MapInv /\ Stale /\ pc = "idle"
  BY InitMap DEF Init, ProviderInit
<1>2. PICK k \in InitialKernels : links = k.links /\ routes = k.routes
  BY DEF Init
<1>3. LinkInv
  BY <1>2, InitialKernelsAssumption DEF LinkInv
<1>4. RouteInv
  BY <1>2, InitialKernelsAssumption DEF RouteInv, RoutesUseTunnels
<1>5. PhaseInv
  BY <1>1 DEF PhaseInv, UpToDate
<1> QED
  BY <1>1, <1>3, <1>4, <1>5 DEF IndInv

\* Steps outside of the loops that change neither links nor routes.
LEMMA QuietInd ==
    ASSUME IndInv, MapInv', Stale', pc' \in {"idle", "snapshot", "plan"},
           UNCHANGED <<links, routes>>
    PROVE  IndInv'
<1>1. LinkInv' /\ RouteInv'
  BY DEF IndInv, LinkInv, RouteInv, RoutesUseTunnels
<1>2. PhaseInv'
  BY DEF PhaseInv, UpToDate
<1> QED
  BY <1>1, <1>2 DEF IndInv

\* Two PodCIDRs have the same tunnel name only if they have the same address.
LEMMA NameInjective ==
    ASSUME NEW s \in Seq(Nat), NEW t \in Seq(Nat),
           buildTunnelName(s) = buildTunnelName(t), buildTunnelName(s) # <<>>
    PROVE  s = t
<1> DEFINE S == Nat \cup {"k8s"}
<1>1. s \in Seq(S) /\ t \in Seq(S)
  BY SeqMonotonic
<1>2. <<"k8s">> \in Seq(S)
  <2>1. "k8s" \in S
    OBVIOUS
  <2> HIDE DEF S
  <2> QED
    BY <2>1
<1>3. <<"k8s">> \o s = <<"k8s">> \o t
  BY DEF buildTunnelName
<1> HIDE DEF S
<1> QED
  BY <1>1, <1>2, <1>3, ConcatSimplifications

\* A tunnel that the agent makes leads to the node whose PodCIDR it is named for.
LEMMA TunnelLeads ==
    ASSUME NEW v \in AllViews, NEW l \in Tunnels(v)
    PROVE  /\ l = [name |-> l.name, Local |-> l.Local, Remote |-> l.Remote, up |-> l.up]
           /\ \A i \in KeptInfos : l.name = buildTunnelName(i.PodCIDR.ip) /\ l.name # <<>>
                                   => l.Remote = i.Address
<1>1. PICK n \in Tunnelled(v) : l = TunnelOf(v, n)
  BY DEF Tunnels
<1> DEFINE j == v.nodes[n]
<1>2. v \in Views
  BY ProviderTypes, <1>1 DEF AllViews, Tunnelled, Remotes
<1>3. j \in Infos
  BY <1>1, <1>2 DEF Infos, Tunnelled
<1>4. l = [name |-> buildTunnelName(j.PodCIDR.ip), Local |-> v.Address,
           Remote |-> j.Address, up |-> FALSE]
  BY <1>1 DEF TunnelOf
<1> HIDE DEF j
<1>5. ASSUME NEW i \in KeptInfos, l.name = buildTunnelName(i.PodCIDR.ip), l.name # <<>>
      PROVE  l.Remote = i.Address
  <2>1. i \in Infos
    BY DEF KeptInfos
  <2>2. j.PodCIDR.ip = i.PodCIDR.ip
    BY <1>3, <1>4, <1>5, <2>1, NameInjective, InfosAssumption
  <2>3. j = i
    BY <1>3, <2>2 DEF KeptInfos
  <2> QED
    BY <1>4, <2>3
<1> QED
  BY <1>4, <1>5

LEMMA LinkDelInd ==
    ASSUME IndInv, PlanLinks \/ LinkDel
    PROVE  IndInv'
<1> USE DEF PlanLinks, LinkDel, Goto, provVars
<1>1. MapInv' /\ Stale' /\ snap' = snap /\ pc' = "linkdel"
  BY InsideMap DEF IndInv
<1>2. LinkInv'
  BY DEF IndInv, LinkInv
<1>3. CASE PlanLinks
  <2>1. RouteInv'
    BY <1>3 DEF IndInv, RouteInv, RoutesUseTunnels
  <2>2. PhaseInv'
    BY <1>1, <1>3 DEF PhaseInv, UpToDate, LinkRemove, Named
  <2> QED
    BY <1>1, <1>2, <2>1, <2>2 DEF IndInv
<1>4. CASE LinkDel
  <2>1. PICK l \in todo : /\ links' = links \ {l}
                          /\ routes' = {r \in routes : r.dev # l.name}
                          /\ todo' = todo \ {l}
    BY <1>4
  <2>2. RouteInv'
    BY <2>1 DEF IndInv, RouteInv, RoutesUseTunnels
  <2>3. PhaseInv'
    BY <1>1, <1>4, <2>1 DEF IndInv, PhaseInv, UpToDate
  <2> QED
    BY <1>1, <1>2, <2>2, <2>3 DEF IndInv
<1> QED
  BY <1>3, <1>4

LEMMA LinkAddInd ==
    ASSUME IndInv, LinksDeleted \/ LinkAdd
    PROVE  IndInv'
<1> USE DEF LinksDeleted, LinkAdd, Goto, provVars
<1>1. MapInv' /\ Stale' /\ snap' = snap /\ pc' = "linkadd" /\ snap.view \in AllViews
  BY InsideMap DEF IndInv, MapInv
<1>2. CASE LinksDeleted
  <2>1. LinkInv' /\ RouteInv'
    BY <1>2 DEF IndInv, LinkInv, RouteInv, RoutesUseTunnels
  <2>2. PICK T \in OnePerKey(Tunnels(snap.view), "name") :
             todo' = {e \in T : \A a \in links : a.name # e.name}
    BY <1>2 DEF LinkCreates
  <2>3. T \subseteq Tunnels(snap.view) /\ \A e \in Tunnels(snap.view) : Named(e, T)
    BY <2>2 DEF OnePerKey, Named
  <2>4. \A e \in Tunnels(snap.view) : Named(e, links) \/ Named(e, todo')
    BY <2>2, <2>3 DEF Named
  <2>5. \A l \in links : Named(l, Tunnels(snap.view))
    BY <1>2 DEF IndInv, PhaseInv
  <2>6. PhaseInv'
    BY <1>1, <1>2, <2>2, <2>3, <2>4, <2>5 DEF PhaseInv, UpToDate
  <2> QED
    BY <1>1, <2>1, <2>6 DEF IndInv
<1>3. CASE LinkAdd
  <2>1. PICK l \in todo : links' = links \cup {l} /\ todo' = todo \ {l}
    BY <1>3
  <2>2. /\ todo \subseteq Tunnels(snap.view)
        /\ \A t \in Tunnels(snap.view) : Named(t, links) \/ Named(t, todo)
        /\ \A k \in links : Named(k, Tunnels(snap.view))
    BY <1>3 DEF IndInv, PhaseInv
  <2>3. LinkInv'
    BY <1>1, <2>1, <2>2, TunnelLeads DEF IndInv, LinkInv
  <2>4. RouteInv'
    BY <1>3, <2>1 DEF IndInv, RouteInv, RoutesUseTunnels
  <2>5. \A t \in Tunnels(snap.view) : Named(t, links') \/ Named(t, todo')
    BY <2>1, <2>2 DEF Named
  <2>6. \A k \in links' : Named(k, Tunnels(snap.view))
    BY <2>1, <2>2 DEF Named
  <2>7. PhaseInv'
    BY <1>1, <2>1, <2>2, <2>5, <2>6 DEF PhaseInv, UpToDate
  <2> QED
    BY <1>1, <2>3, <2>4, <2>7 DEF IndInv
<1> QED
  BY <1>2, <1>3

LEMMA SetUp ==
    ASSUME NEW l, l = [name |-> l.name, Local |-> l.Local, Remote |-> l.Remote, up |-> l.up]
    PROVE  [l EXCEPT !.up = TRUE]
           = [name |-> l.name, Local |-> l.Local, Remote |-> l.Remote, up |-> TRUE]
<1>1. ASSUME NEW a, NEW b, NEW c, NEW d, NEW e
      PROVE  [[name |-> a, Local |-> b, Remote |-> c, up |-> d] EXCEPT !.up = e]
             = [name |-> a, Local |-> b, Remote |-> c, up |-> e]
  OBVIOUS
<1>2. ASSUME NEW e
      PROVE  [l EXCEPT !.up = e]
             = [name |-> l.name, Local |-> l.Local, Remote |-> l.Remote, up |-> e]
  BY <1>1
<1> QED
  BY <1>2, Zenon

LEMMA LinkUpInd ==
    ASSUME IndInv, LinksAdded \/ LinkSetUp
    PROVE  IndInv'
<1> USE DEF LinksAdded, LinkSetUp, Goto, provVars
<1>1. MapInv' /\ Stale' /\ snap' = snap /\ pc' = "up"
  BY InsideMap DEF IndInv
<1>2. CASE LinksAdded
  <2>1. LinkInv' /\ RouteInv'
    BY <1>2 DEF IndInv, LinkInv, RouteInv, RoutesUseTunnels
  <2>2. PhaseInv'
    BY <1>1, <1>2 DEF IndInv, PhaseInv, UpToDate, Named
  <2> QED
    BY <1>1, <2>1, <2>2 DEF IndInv
<1>3. CASE LinkSetUp
  <2>1. PICK l \in links : links' = (links \ {l}) \cup {[l EXCEPT !.up = TRUE]}
    BY <1>3
  <2> DEFINE m == [l EXCEPT !.up = TRUE]
  <2>2. m = [name |-> l.name, Local |-> l.Local, Remote |-> l.Remote, up |-> TRUE]
    BY SetUp DEF IndInv, LinkInv
  <2>3. links' = (links \ {l}) \cup {m}
    BY <2>1
  <2> HIDE DEF m
  <2>4. LinkInv'
    BY <2>2, <2>3 DEF IndInv, LinkInv
  <2>5. RouteInv'
    BY <1>3, <2>2, <2>3 DEF IndInv, RouteInv, RoutesUseTunnels
  <2>6. /\ \A t \in Tunnels(snap.view) : Named(t, links)
        /\ \A k \in links : Named(k, Tunnels(snap.view))
    BY <1>3 DEF IndInv, PhaseInv
  <2>7. /\ \A t \in Tunnels(snap.view) : Named(t, links')
        /\ \A k \in links' : Named(k, Tunnels(snap.view))
    BY <2>2, <2>3, <2>6 DEF Named
  <2>8. PhaseInv'
    BY <1>1, <2>7 DEF PhaseInv, UpToDate
  <2> QED
    BY <1>1, <2>4, <2>5, <2>8 DEF IndInv
<1> QED
  BY <1>2, <1>3

\* Routes are added when all links are there and up.
LEMMA RouteAddInd ==
    ASSUME IndInv, PlanRoutes \/ RouteAdd
    PROVE  IndInv'
<1> USE DEF PlanRoutes, RouteAdd, Goto, provVars
<1>1. MapInv' /\ Stale' /\ snap' = snap /\ pc' = "add" /\ links' = links
  BY InsideMap DEF IndInv
<1>2. LinkInv'
  BY <1>1 DEF IndInv, LinkInv
<1>3. /\ \A t \in Tunnels(snap.view) : Named(t, links)
      /\ \A k \in links : k.up /\ Named(k, Tunnels(snap.view))
  BY DEF IndInv, PhaseInv
<1>4. CASE PlanRoutes
  <2>1. RouteInv'
    BY <1>4 DEF IndInv, RouteInv, RoutesUseTunnels
  <2>2. PhaseInv'
    BY <1>1, <1>3, <1>4 DEF PhaseInv, UpToDate, RouteCreate
  <2> QED
    BY <1>1, <1>2, <2>1, <2>2 DEF IndInv
<1>5. CASE RouteAdd
  <2>1. PICK r \in todo : ~RouteConflict(r) /\ routes' = routes \cup {r} /\ todo' = todo \ {r}
    BY <1>5
  <2>2. todo \subseteq Routes(snap.view) /\ Routes(snap.view) \subseteq routes \cup todo
    BY <1>5 DEF IndInv, PhaseInv
  <2>3. PICK n \in Tunnelled(snap.view) : r = RouteOf(snap.view.nodes[n])
    BY <2>1, <2>2 DEF Routes
  <2>4. TunnelOf(snap.view, n) \in Tunnels(snap.view) /\ r.dev = TunnelOf(snap.view, n).name
    BY <2>3 DEF Tunnels, TunnelOf, RouteOf
  <2>5. \E l \in links : l.name = r.dev /\ l.up
    BY <1>3, <2>4 DEF Named
  <2>6. RouteInv'
    BY <1>1, <2>1, <2>5 DEF IndInv, RouteInv, RoutesUseTunnels, RouteConflict
  <2>7. PhaseInv'
    BY <1>1, <1>3, <2>1, <2>2 DEF PhaseInv, UpToDate
  <2> QED
    BY <1>1, <1>2, <2>6, <2>7 DEF IndInv
<1> QED
  BY <1>4, <1>5

LEMMA CommitInd ==
    ASSUME IndInv, Commit
    PROVE  IndInv'
<1> USE DEF Commit, Return
<1>1. MapInv' /\ snap' = snap /\ pc' = "idle"
  BY ReturnMap DEF IndInv, ReturnOK
<1>2. LinkInv' /\ RouteInv'
  BY DEF IndInv, LinkInv, RouteInv, RoutesUseTunnels
<1>3. PhaseInv'
  BY <1>1 DEF IndInv, PhaseInv
<1> QED
  BY <1>1, <1>2, <1>3 DEF IndInv

LEMMA NextInd == IndInv /\ [Next]_vars => IndInv'
<1> SUFFICES ASSUME IndInv, [Next]_vars PROVE IndInv'
  OBVIOUS
<1>0. MapInv
  BY DEF IndInv
<1>1. CASE \/ Change /\ UNCHANGED <<todo, links, routes>>
           \/ Skip \/ UNCHANGED vars
  <2>1. MapInv' /\ (Stale => Stale') /\ UNCHANGED <<provVars, todo, links, routes>>
    <3>1. CASE Change /\ UNCHANGED <<todo, links, routes>>
      BY <1>0, <3>1, ChangeMap
    <3>2. CASE Skip \/ UNCHANGED vars
      BY <1>0, <3>2, SameMap DEF Skip, vars, provVars
    <3> QED
      BY <1>1, <3>1, <3>2
  <2>2. LinkInv' /\ RouteInv'
    BY <2>1 DEF IndInv, LinkInv, RouteInv, RoutesUseTunnels
  <2>3. PhaseInv'
    BY <2>1 DEF IndInv, PhaseInv, UpToDate, provVars
  <2> QED
    BY <2>1, <2>2, <2>3 DEF IndInv
<1>2. CASE Begin
  BY <1>0, <1>2, StartMap, QuietInd DEF Begin, Start
<1>3. CASE Observe
  <2>1. MapInv' /\ Stale' /\ pc' \in {"idle", "snapshot", "plan"}
    BY <1>0, <1>3, SnapshotMap DEF Observe, TakeSnapshot
  <2> QED
    BY <1>3, <2>1, QuietInd DEF Observe
<1>4. CASE PlanLinks \/ LinkDel
  BY <1>4, LinkDelInd
<1>5. CASE LinksDeleted \/ LinkAdd
  BY <1>5, LinkAddInd
<1>6. CASE LinksAdded \/ LinkSetUp
  BY <1>6, LinkUpInd
<1>7. CASE PlanRoutes \/ RouteAdd
  BY <1>7, RouteAddInd
<1>8. CASE Commit
  BY <1>8, CommitInd
<1>9. CASE Refused \/ Fail
  BY <1>0, <1>9, InsideMap, QuietInd DEF Refused, Fail, Return, ReturnError
<1>10. CASE Restart
  BY <1>0, <1>10, ProcessMap, QuietInd DEF Restart, Return, ProcessStarts
<1> QED
  BY <1>1, <1>2, <1>3, <1>4, <1>5, <1>6, <1>7, <1>8, <1>9, <1>10 DEF Next, EnsureStep

LEMMA IndImpliesTunnels == IndInv => UpToDateTunnels
<1> SUFFICES ASSUME IndInv, UpToDate
             PROVE  /\ {l.name : l \in links} = {l.name : l \in Tunnels(view)}
                    /\ \A n \in Tunnelled(view) :
                          LET node == view.nodes[n]
                          IN  /\ {r \in routes : r.dst = node.PodCIDR} = {RouteOf(node)}
                              /\ node \in KeptInfos => Path(node.PodCIDR) = {node.Address}
  BY DEF UpToDateTunnels
<1>1. snap.view = view
  BY UpToDateView DEF IndInv
<1>2. /\ \A l \in links : Named(l, Tunnels(view))
      /\ \A t \in Tunnels(view) : Named(t, links)
      /\ Routes(view) \subseteq routes
  BY <1>1 DEF IndInv, PhaseInv
<1>3. {l.name : l \in links} = {l.name : l \in Tunnels(view)}
  BY <1>2 DEF Named
<1>4. ASSUME NEW n \in Tunnelled(view)
      PROVE  LET node == view.nodes[n]
             IN  /\ {r \in routes : r.dst = node.PodCIDR} = {RouteOf(node)}
                 /\ node \in KeptInfos => Path(node.PodCIDR) = {node.Address}
  <2> DEFINE node == view.nodes[n]
             name == buildTunnelName(node.PodCIDR.ip)
  <2>1. RouteOf(node) = [dst |-> node.PodCIDR, dev |-> name] /\ RouteOf(node) \in routes
    BY <1>2 DEF Routes, RouteOf
  <2>2. name # <<>>
    BY DEF Tunnelled
  <2>3. PICK l \in links : l.name = name
    <3>1. TunnelOf(view, n) \in Tunnels(view) /\ TunnelOf(view, n).name = name
      BY DEF Tunnels, TunnelOf
    <3> QED
      BY <1>2, <3>1 DEF Named
  <2> HIDE DEF node, name
  <2>4. {r \in routes : r.dst = node.PodCIDR} = {RouteOf(node)}
    BY <2>1 DEF IndInv, RouteInv
  <2>5. ASSUME node \in KeptInfos
        PROVE  Path(node.PodCIDR) = {node.Address}
    <3>1. \A k \in links : k.name = name => k.Remote = node.Address
      BY <2>2, <2>5 DEF IndInv, LinkInv, name
    <3>2. \A k \in links : [dst |-> node.PodCIDR, dev |-> k.name] \in routes <=> k.name = name
      BY <2>1 DEF IndInv, RouteInv
    <3> QED
      BY <2>3, <3>1, <3>2 DEF Path
  <2> QED
    BY <2>4, <2>5 DEF node
<1> QED
  BY <1>3, <1>4

\* At no step does the kernel route a network into a tunnel that is missing or
\* down: in any cluster, with any calls refused or failing and any restarts.
THEOREM RoutesTunnelled == Spec => []RoutesUseTunnels
<1>1. Init => IndInv
  BY InitInd
<1>2. IndInv /\ [Next]_vars => IndInv'
  BY NextInd
<1>3. IndInv => RoutesUseTunnels
  BY DEF IndInv, RouteInv
<1> QED
  BY <1>1, <1>2, <1>3, PTL DEF Spec

\* Whenever the provider takes itself to be up to date, it has the tunnels of the
\* remote nodes and no others, each PodCIDR is routed into its own tunnel alone,
\* and the tunnel leads to the node if the PodCIDR never passes from one address
\* to another.
THEOREM TunnelsCorrect == Spec => []UpToDateTunnels
<1>1. Init => IndInv
  BY InitInd
<1>2. IndInv /\ [Next]_vars => IndInv'
  BY NextInd
<1>3. IndInv => UpToDateTunnels
  BY IndImpliesTunnels
<1> QED
  BY <1>1, <1>2, <1>3, PTL DEF Spec

-----------------------------------------------------------------------------
(***************************************************************************)
(* Types.                                                                  *)
(***************************************************************************)

FormInv ==
    /\ BoundInv
    /\ pc \in {"idle", "snapshot", "plan", "linkdel", "linkadd", "up", "add"}
    /\ pc \in {"idle", "snapshot", "plan", "up"} => todo = {}
    /\ \A l \in links : l.up \in BOOLEAN
    /\ \A r \in routes : DOMAIN r = {"dst", "dev"}

LEMMA InitForm == Init => FormInv
<1> SUFFICES ASSUME Init PROVE FormInv
  OBVIOUS
<1>1. BoundInv /\ pc = "idle" /\ todo = {}
  BY InitBound DEF Init, ProviderInit
<1>2. PICK k \in InitialKernels : links = k.links /\ routes = k.routes
  BY DEF Init
<1>3. \A l \in links : l.up \in BOOLEAN
  BY <1>2, InitialKernelsAssumption
<1>4. \A r \in routes : DOMAIN r = {"dst", "dev"}
  BY <1>2, InitialKernelsAssumption
<1> QED
  BY <1>1, <1>3, <1>4 DEF FormInv

\* A tunnel is made down and set up once.
LEMMA UpForm ==
    ASSUME IndInv, FormInv, [Next]_vars
    PROVE  \A l \in links' : l.up \in BOOLEAN
<1>0. \A l \in links : l.up \in BOOLEAN
  BY DEF FormInv
<1>1. CASE LinkAdd
  <2>1. PICK t \in todo : links' = links \cup {t}
    BY <1>1 DEF LinkAdd
  <2>2. t \in Tunnels(snap.view)
    BY <1>1 DEF LinkAdd, IndInv, PhaseInv
  <2>3. t.up = FALSE
    BY <2>2 DEF Tunnels, TunnelOf
  <2>4. t.up \in BOOLEAN
    BY <2>3, Zenon
  <2> QED
    BY <1>0, <2>1, <2>4
<1>2. CASE LinkSetUp
  <2>1. PICK l \in links : links' = (links \ {l}) \cup {[l EXCEPT !.up = TRUE]}
    BY <1>2 DEF LinkSetUp
  <2> DEFINE m == [l EXCEPT !.up = TRUE]
  <2>2. m = [name |-> l.name, Local |-> l.Local, Remote |-> l.Remote, up |-> TRUE]
    BY SetUp DEF IndInv, LinkInv
  <2>3. links' = (links \ {l}) \cup {m}
    BY <2>1
  <2> HIDE DEF m
  <2>4. m.up = TRUE
    BY <2>2
  <2>5. m.up \in BOOLEAN
    BY <2>4, Zenon
  <2> QED
    BY <1>0, <2>3, <2>5
<1>3. CASE links' \subseteq links
  BY <1>0, <1>3
<1>4. LinkAdd \/ LinkSetUp \/ links' \subseteq links
  BY DEF Next, vars, Change, Skip, EnsureStep, Begin, Observe, PlanLinks, LinkDel, LinksDeleted,
     LinksAdded, PlanRoutes, RouteAdd, Commit, Refused, Fail, Restart, Return
<1> QED
  BY <1>1, <1>2, <1>3, <1>4

LEMMA NextForm == IndInv /\ FormInv /\ [Next]_vars => FormInv'
<1> SUFFICES ASSUME IndInv, FormInv, [Next]_vars PROVE FormInv'
  OBVIOUS
<1> USE DEF mapVars, provVars
<1>1. BoundInv'
  <2>1. /\ Change \/ UNCHANGED version
        /\ UNCHANGED restarts \/ (restarts < MaxRestarts /\ restarts' = restarts + 1)
    BY DEF Next, vars, Change, Skip, EnsureStep, Begin, Start, Observe, TakeSnapshot, PlanLinks,
       LinkDel, LinksDeleted, LinkAdd, LinksAdded, LinkSetUp, PlanRoutes, RouteAdd, Commit,
       ReturnOK, Refused, Fail, ReturnError, Restart, ProcessStarts, Return, Goto
  <2> QED
    BY <2>1, NextBound DEF IndInv, FormInv
<1>2. /\ pc' \in {"idle", "snapshot", "plan", "linkdel", "linkadd", "up", "add"}
      /\ pc' \in {"idle", "snapshot", "plan", "up"} => todo' = {}
  BY DEF FormInv, Next, vars, Change, Skip, EnsureStep, Begin, Start, Observe, TakeSnapshot,
     PlanLinks, LinkDel, LinksDeleted, LinkAdd, LinksAdded, LinkSetUp, PlanRoutes, RouteAdd,
     Commit, ReturnOK, Refused, Fail, ReturnError, Restart, ProcessStarts, Return, Goto
<1>3. \A r \in routes' : DOMAIN r = {"dst", "dev"}
  <2>1. \A r \in Routes(snap.view) : DOMAIN r = {"dst", "dev"}
    BY DEF Routes, RouteOf
  <2>2. pc = "add" => todo \subseteq Routes(snap.view)
    BY DEF IndInv, PhaseInv
  <2>3. \A r \in routes' : r \in routes \/ (pc = "add" /\ r \in todo)
    BY DEF Next, vars, Change, Skip, EnsureStep, Begin, Observe, PlanLinks, LinkDel, LinksDeleted,
       LinkAdd, LinksAdded, LinkSetUp, PlanRoutes, RouteAdd, Commit, Refused, Fail, Restart,
       Return
  <2> QED
    BY <2>1, <2>2, <2>3 DEF FormInv
<1>4. \A l \in links' : l.up \in BOOLEAN
  BY UpForm
<1> QED
  BY <1>1, <1>2, <1>3, <1>4 DEF FormInv

\* The values of all variables, in particular that nothing is left to be done when a
\* loop of Links.Ensure or RouteTable.Ensure has ended.
THEOREM TypesCorrect == Spec => []TypeOK
<1>1. Init => IndInv /\ FormInv
  BY InitInd, InitForm
<1>2. IndInv /\ FormInv /\ [Next]_vars => IndInv' /\ FormInv'
  BY NextInd, NextForm
<1>3. IndInv /\ FormInv => TypeOK
  <2> SUFFICES ASSUME IndInv, FormInv PROVE TypeOK
    OBVIOUS
  <2>1. \A l \in links : DOMAIN l = {"name", "Local", "Remote", "up"}
    BY DEF IndInv, LinkInv
  <2> QED
    BY <2>1, ProviderTyped DEF IndInv, FormInv, TypeOK
<1> QED
  BY <1>1, <1>2, <1>3, PTL DEF Spec

=============================================================================
