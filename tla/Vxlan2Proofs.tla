---------------------------- MODULE Vxlan2Proofs ----------------------------
(***************************************************************************)
(* Provider vxlan, in any cluster: no route is ever without its neighbour  *)
(* entries, and an up-to-date provider forwards to the right nodes.        *)
(***************************************************************************)
EXTENDS Vxlan2, ProviderProofs

\* The gateway of r has the MAC that all agents compute for it, and the MAC leads
\* somewhere.
Resolves(r) ==
    r.gw # Nil =>
        \E a \in arp, f \in fdb : /\ a.IP = r.gw /\ a.HardwareAddr = mapToMAC(r.gw)
                                  /\ f.HardwareAddr = mapToMAC(r.gw)

TableInv ==
    /\ \A a, b \in arp : a.Family = "inet" /\ (a.IP = b.IP => a = b)
    /\ \A f, g \in fdb : f.Family = "bridge" /\ (f.HardwareAddr = g.HardwareAddr => f = g)
    /\ \A r \in routes : Resolves(r)

\* How far the tables agree with the snapshot in each phase: the neighbours first,
\* then no route too many, then none missing.
PhaseInv ==
    LET expected == Neighs(snap.view)
        wanted == Routes(snap.view)
    IN  /\ pc = "neigh" => todo \subseteq expected /\ expected \subseteq arp \cup fdb \cup todo
        /\ pc \in {"del", "add"} \/ UpToDate => expected \subseteq arp \cup fdb
        /\ pc = "del" => routes \subseteq wanted \cup todo
        /\ pc = "add" => /\ routes \subseteq wanted /\ todo \subseteq wanted
                         /\ wanted \subseteq routes \cup todo
        /\ UpToDate => routes = wanted

IndInv == MapInv /\ TableInv /\ PhaseInv

LEMMA InitInd == Init => IndInv
<1> SUFFICES ASSUME Init PROVE IndInv
  OBVIOUS
<1>1. MapInv /\ Stale /\ pc = "idle"
  BY InitMap DEF Init, ProviderInit
<1>2. TableInv
  BY InitialKernelsAssumption DEF Init, TableInv, Resolves
<1>3. PhaseInv
  BY <1>1 DEF PhaseInv, UpToDate
<1> QED
  BY <1>1, <1>2, <1>3 DEF IndInv

\* Steps outside of the two loops that change neither neighbours nor routes.
LEMMA QuietInd ==
    ASSUME IndInv, MapInv', Stale', pc' \notin {"neigh", "del", "add"},
           UNCHANGED <<arp, fdb, routes>>
    PROVE  IndInv'
<1>1. TableInv'
  BY DEF IndInv, TableInv, Resolves
<1>2. PhaseInv'
  BY DEF PhaseInv, UpToDate
<1> QED
  BY <1>1, <1>2 DEF IndInv

\* Steps that leave everything but the link as it is.
LEMMA LinkInd ==
    ASSUME IndInv, UNCHANGED <<mapVars, pc, snap, lastVersionApplied, todo, arp, fdb, routes>>
    PROVE  IndInv'
<1>1. MapInv' /\ (Stale' <=> Stale)
  BY SameMap DEF IndInv
<1>2. TableInv'
  BY DEF IndInv, TableInv, Resolves
<1>3. PhaseInv'
  BY <1>1 DEF IndInv, PhaseInv, UpToDate
<1> QED
  BY <1>1, <1>2, <1>3 DEF IndInv

LEMMA PlanNeighsInd ==
    ASSUME IndInv, PlanNeighs
    PROVE  IndInv'
<1> USE DEF PlanNeighs, kernelVars
<1>1. MapInv' /\ Stale' /\ snap.view \in AllViews
  BY InsideMap DEF IndInv, MapInv
<1>2. TableInv'
  BY DEF IndInv, TableInv, Resolves
<1>3. PICK T \in OnePerKey(Neighs(snap.view), "IP") : todo' = T \ arp
  BY DEF NeighUpserts
<1>4. T = Neighs(snap.view)
  <2>1. T \subseteq Neighs(snap.view)
    BY <1>3 DEF OnePerKey
  <2>2. ASSUME NEW e \in Neighs(snap.view)
        PROVE  e \in T
    <3>1. PICK t \in T : t.IP = e.IP
      BY <1>3 DEF OnePerKey
    <3> QED
      BY <1>1, <2>1, <3>1, DistinctNeighs DEF AllViews
  <2> QED
    BY <2>1, <2>2
<1>5. PhaseInv'
  BY <1>1, <1>3, <1>4 DEF PhaseInv, UpToDate
<1> QED
  BY <1>1, <1>2, <1>5 DEF IndInv

\* An entry that replaces another keeps what the snapshot wants, and the routes
\* resolved.
LEMMA NeighSetInd ==
    ASSUME IndInv, NeighSet
    PROVE  IndInv'
<1> USE DEF NeighSet
<1>1. MapInv' /\ Stale' /\ snap.view \in AllViews
  BY InsideMap DEF IndInv, MapInv, provVars
<1>2. UNCHANGED <<pc, snap, routes>>
  BY DEF provVars
<1>3. PICK e \in todo :
          /\ todo' = todo \ {e}
          /\ IF e.Family = "inet"
             THEN arp' = {a \in arp : a.IP # e.IP} \cup {e} /\ UNCHANGED fdb
             ELSE fdb' = {f \in fdb : f.HardwareAddr # e.HardwareAddr} \cup {e}
                  /\ UNCHANGED arp
  OBVIOUS
<1>4. /\ e \in Neighs(snap.view) /\ todo \subseteq Neighs(snap.view)
      /\ Neighs(snap.view) \subseteq arp \cup fdb \cup todo
  BY DEF IndInv, PhaseInv
<1>5. \/ e.Family = "inet" /\ e.HardwareAddr = mapToMAC(e.IP)
      \/ e.Family = "bridge"
  BY <1>4 DEF Neighs, ArpOf, FdbOf
<1>6. \A x \in Neighs(snap.view) :
          x.IP = e.IP \/ (x.Family = e.Family /\ x.HardwareAddr = e.HardwareAddr) => x = e
  BY <1>1, <1>4, DistinctNeighs DEF AllViews
<1>7. TableInv
  BY DEF IndInv
<1>8. CASE e.Family = "inet"
  <2>1. \A a, b \in arp' : a.Family = "inet" /\ (a.IP = b.IP => a = b)
    BY <1>3, <1>7, <1>8 DEF TableInv
  <2>2. ASSUME NEW r \in routes, r.gw # Nil
        PROVE  \E a \in arp', f \in fdb' : /\ a.IP = r.gw /\ a.HardwareAddr = mapToMAC(r.gw)
                                           /\ f.HardwareAddr = mapToMAC(r.gw)
    <3>1. PICK a \in arp, f \in fdb : /\ a.IP = r.gw /\ a.HardwareAddr = mapToMAC(r.gw)
                                      /\ f.HardwareAddr = mapToMAC(r.gw)
      BY <1>7, <2>2 DEF TableInv, Resolves
    <3>2. f \in fdb' /\ e \in arp' /\ (a.IP # e.IP => a \in arp')
      BY <1>3, <1>8
    <3>3. CASE a.IP = e.IP
      BY <1>5, <1>8, <3>1, <3>2, <3>3
    <3> QED
      BY <3>1, <3>2, <3>3
  <2>3. TableInv'
    BY <1>2, <1>3, <1>7, <1>8, <2>1, <2>2 DEF TableInv, Resolves
  <2>4. Neighs(snap.view) \subseteq arp' \cup fdb' \cup todo'
    BY <1>3, <1>4, <1>6, <1>8
  <2>5. PhaseInv'
    BY <1>1, <1>2, <1>3, <1>4, <2>4 DEF PhaseInv, UpToDate
  <2> QED
    BY <1>1, <2>3, <2>5 DEF IndInv
<1>9. CASE e.Family = "bridge"
  <2>1. \A f, g \in fdb' : f.Family = "bridge" /\ (f.HardwareAddr = g.HardwareAddr => f = g)
    BY <1>3, <1>7, <1>9 DEF TableInv
  <2>2. ASSUME NEW r \in routes, r.gw # Nil
        PROVE  \E a \in arp', f \in fdb' : /\ a.IP = r.gw /\ a.HardwareAddr = mapToMAC(r.gw)
                                           /\ f.HardwareAddr = mapToMAC(r.gw)
    <3>1. PICK a \in arp, f \in fdb : /\ a.IP = r.gw /\ a.HardwareAddr = mapToMAC(r.gw)
                                      /\ f.HardwareAddr = mapToMAC(r.gw)
      BY <1>7, <2>2 DEF TableInv, Resolves
    <3>2. a \in arp' /\ e \in fdb' /\ (f.HardwareAddr # e.HardwareAddr => f \in fdb')
      BY <1>3, <1>9
    <3> QED
      BY <3>1, <3>2
  <2>3. TableInv'
    BY <1>2, <1>3, <1>7, <1>9, <2>1, <2>2 DEF TableInv, Resolves
  <2>4. Neighs(snap.view) \subseteq arp' \cup fdb' \cup todo'
    <3>1. ASSUME NEW x \in Neighs(snap.view), x \in fdb
          PROVE  x \in fdb'
      BY <1>3, <1>6, <1>7, <1>9, <3>1 DEF TableInv
    <3> QED
      BY <1>3, <1>4, <1>9, <3>1
  <2>5. PhaseInv'
    BY <1>1, <1>2, <1>3, <1>4, <2>4 DEF PhaseInv, UpToDate
  <2> QED
    BY <1>1, <2>3, <2>5 DEF IndInv
<1> QED
  BY <1>5, <1>8, <1>9

\* Routes are deleted; the ones that stay are resolved as before.
LEMMA RouteDelInd ==
    ASSUME IndInv, PlanRoutes \/ RouteDel \/ RoutesDeleted
    PROVE  IndInv'
<1> USE DEF PlanRoutes, RouteDel, RoutesDeleted, kernelVars, provVars
<1>1. MapInv' /\ Stale'
  BY InsideMap DEF IndInv
<1>2. UNCHANGED <<snap, arp, fdb>> /\ routes' \subseteq routes
  OBVIOUS
<1>3. TableInv'
  BY <1>2 DEF IndInv, TableInv, Resolves
<1>4. CASE PlanRoutes
  <2>1. Neighs(snap.view) \subseteq arp \cup fdb
    BY <1>4 DEF IndInv, PhaseInv
  <2>2. routes \subseteq Routes(snap.view) \cup todo'
    BY <1>4 DEF RouteRemove, RouteChanged, RouteExtra
  <2>3. PhaseInv'
    BY <1>1, <1>4, <2>1, <2>2 DEF PhaseInv, UpToDate
  <2> QED
    BY <1>1, <1>3, <2>3 DEF IndInv
<1>5. CASE RouteDel
  <2>1. Neighs(snap.view) \subseteq arp \cup fdb /\ routes' \subseteq Routes(snap.view) \cup todo'
    BY <1>5 DEF IndInv, PhaseInv
  <2>2. PhaseInv'
    BY <1>1, <1>5, <2>1 DEF PhaseInv, UpToDate
  <2> QED
    BY <1>1, <1>3, <2>2 DEF IndInv
<1>6. CASE RoutesDeleted
  <2>1. Neighs(snap.view) \subseteq arp \cup fdb /\ routes \subseteq Routes(snap.view)
    BY <1>6 DEF IndInv, PhaseInv
  <2>2. PhaseInv'
    BY <1>1, <1>6, <2>1 DEF PhaseInv, UpToDate, RouteCreate
  <2> QED
    BY <1>1, <1>3, <2>2 DEF IndInv
<1> QED
  BY <1>4, <1>5, <1>6

\* A route is added when the entries of its node are there.
LEMMA RouteAddInd ==
    ASSUME IndInv, RouteAdd
    PROVE  IndInv'
<1> USE DEF RouteAdd, provVars
<1>1. MapInv' /\ Stale'
  BY InsideMap DEF IndInv
<1>2. PICK r \in todo : routes' = routes \cup {r} /\ todo' = todo \ {r}
  OBVIOUS
<1>3. /\ Neighs(snap.view) \subseteq arp \cup fdb
      /\ routes \subseteq Routes(snap.view) /\ todo \subseteq Routes(snap.view)
      /\ Routes(snap.view) \subseteq routes \cup todo
  BY DEF IndInv, PhaseInv
<1>4. Resolves(r)
  <2>1. PICK n \in Remotes(snap.view) : r = RouteOf(snap.view.nodes[n])
    BY <1>3 DEF Routes
  <2> DEFINE a == ArpOf(snap.view.nodes[n])
             f == FdbOf(snap.view.nodes[n])
  <2>2. a \in Neighs(snap.view) /\ f \in Neighs(snap.view)
    BY DEF Neighs
  <2>3. a.Family = "inet" /\ f.Family = "bridge"
    BY DEF ArpOf, FdbOf
  <2>4. /\ r.gw = a.IP /\ a.HardwareAddr = mapToMAC(r.gw)
        /\ f.HardwareAddr = mapToMAC(r.gw)
    BY <2>1 DEF RouteOf, ArpOf, FdbOf
  <2> HIDE DEF a, f
  <2>5. a \in arp /\ f \in fdb
    BY <1>3, <2>2, <2>3 DEF IndInv, TableInv
  <2> QED
    BY <2>4, <2>5 DEF Resolves
<1>5. TableInv'
  BY <1>2, <1>4 DEF IndInv, TableInv, Resolves
<1>6. PhaseInv'
  BY <1>1, <1>2, <1>3 DEF PhaseInv, UpToDate
<1> QED
  BY <1>1, <1>5, <1>6 DEF IndInv

LEMMA CommitInd ==
    ASSUME IndInv, Commit
    PROVE  IndInv'
<1> USE DEF Commit, kernelVars
<1>1. MapInv' /\ snap' = snap /\ pc' = "idle"
  BY ReturnMap DEF IndInv, ReturnOK
<1>2. TableInv'
  BY DEF IndInv, TableInv, Resolves
<1>3. Neighs(snap.view) \subseteq arp \cup fdb /\ routes = Routes(snap.view)
  BY DEF IndInv, PhaseInv
<1>4. PhaseInv'
  BY <1>1, <1>3 DEF PhaseInv
<1> QED
  BY <1>1, <1>2, <1>4 DEF IndInv

LEMMA NextInd == IndInv /\ [Next]_vars => IndInv'
<1> SUFFICES ASSUME IndInv, [Next]_vars PROVE IndInv'
  OBVIOUS
<1> USE DEF kernelVars
<1>0. MapInv
  BY DEF IndInv
<1>1. CASE Change /\ UNCHANGED <<plink, todo, kernelVars>>
  <2>1. MapInv' /\ Stale' /\ UNCHANGED provVars
    BY <1>0, <1>1, ChangeMap
  <2>2. TableInv'
    BY <1>1 DEF IndInv, TableInv, Resolves
  <2>3. PhaseInv'
    BY <1>1, <2>1 DEF IndInv, PhaseInv, UpToDate, provVars
  <2> QED
    BY <2>1, <2>2, <2>3 DEF IndInv
<1>2. CASE Skip \/ UNCHANGED vars
  BY <1>2, LinkInd DEF Skip, vars, provVars
<1>3. CASE Begin
  BY <1>0, <1>3, StartMap, QuietInd DEF Begin, Start
<1>4. CASE Observe
  <2>1. MapInv' /\ Stale' /\ pc' \notin {"neigh", "del", "add"}
    BY <1>0, <1>4, SnapshotMap DEF Observe, TakeSnapshot
  <2> QED
    BY <1>4, <2>1, QuietInd DEF Observe
<1>5. CASE LinkAdd \/ LinkSetHardwareAddr \/ LinkSetMTU \/ AddrAdd \/ AddrDel \/ LinkSetUp
  <2>1. UNCHANGED <<mapVars, provVars, todo, arp, fdb, routes>>
    BY <1>5 DEF LinkAdd, LinkSetHardwareAddr, LinkSetMTU, AddrAdd, AddrDel, LinkSetUp, LinkCall
  <2> QED
    BY <2>1, LinkInd DEF provVars
<1>6. CASE SetLink
  BY <1>0, <1>6, InsideMap, QuietInd DEF SetLink, InEnsureLink
<1>7. CASE PlanNeighs
  BY <1>7, PlanNeighsInd
<1>8. CASE NeighSet
  BY <1>8, NeighSetInd
<1>9. CASE PlanRoutes \/ RouteDel \/ RoutesDeleted
  BY <1>9, RouteDelInd
<1>10. CASE RouteAdd
  BY <1>10, RouteAddInd
<1>11. CASE Commit
  BY <1>11, CommitInd
<1>12. CASE Fail
  BY <1>0, <1>12, InsideMap, QuietInd DEF Fail, ReturnError
<1>13. CASE Fatal \/ Restart
  BY <1>0, <1>13, ProcessMap, QuietInd DEF Fatal, Restart, Exit, ProcessStarts
<1> QED
  BY <1>1, <1>2, <1>3, <1>4, <1>5, <1>6, <1>7, <1>8, <1>9, <1>10, <1>11, <1>12, <1>13
     DEF Next, EnsureStep

LEMMA IndImpliesResolve == IndInv => RoutesResolve
<1> SUFFICES ASSUME IndInv, NEW r \in routes, r.gw # Nil
             PROVE  Path(r.dst) # {}
  BY DEF RoutesResolve
<1>1. PICK a \in arp, f \in fdb : a.IP = r.gw /\ a.HardwareAddr = f.HardwareAddr
  BY DEF IndInv, TableInv, Resolves
<1>2. f.IP \in Path(r.dst)
  BY <1>1 DEF Path
<1> QED
  BY <1>2

LEMMA IndImpliesForwards == IndInv => UpToDateForwards
<1> SUFFICES ASSUME IndInv, UpToDate
             PROVE  /\ \A n \in Remotes(view) :
                          Path(view.nodes[n].PodCIDR) = {view.nodes[n].Address}
                    /\ routes = Routes(view)
  BY DEF UpToDateForwards
<1>1. snap.view = view
  BY UpToDateView DEF IndInv
<1>2. Neighs(view) \subseteq arp \cup fdb /\ routes = Routes(view)
  BY <1>1 DEF IndInv, PhaseInv
<1>3. ASSUME NEW n \in Remotes(view)
      PROVE  Path(view.nodes[n].PodCIDR) = {view.nodes[n].Address}
  <2> DEFINE node == view.nodes[n]
             a == ArpOf(node)
             f == FdbOf(node)
             r == RouteOf(node)
  <2>1. a \in Neighs(view) /\ f \in Neighs(view) /\ r \in routes
    BY <1>2 DEF Neighs, Routes
  <2>2. /\ a.Family = "inet" /\ a.IP = node.PodCIDR.ip
        /\ f.Family = "bridge" /\ f.IP = node.Address /\ f.HardwareAddr = a.HardwareAddr
        /\ r.dst = node.PodCIDR /\ r.gw = node.PodCIDR.ip
    BY DEF ArpOf, FdbOf, RouteOf
  <2>3. \A s \in routes : s.gw = s.dst.ip
    BY <1>2 DEF Routes, RouteOf
  <2> HIDE DEF node, a, f, r
  <2>4. a \in arp /\ f \in fdb
    BY <1>2, <2>1, <2>2 DEF IndInv, TableInv
  <2>5. f.IP \in Path(node.PodCIDR)
    BY <2>1, <2>2, <2>4 DEF Path
  <2>6. ASSUME NEW g \in fdb, NEW s \in routes, NEW b \in arp,
               s.dst = node.PodCIDR, b.IP = s.gw, b.HardwareAddr = g.HardwareAddr
        PROVE  g = f
    <3>1. b = a
      BY <2>2, <2>3, <2>4, <2>6 DEF IndInv, TableInv
    <3> QED
      BY <2>2, <2>4, <2>6, <3>1 DEF IndInv, TableInv
  <2>7. Path(node.PodCIDR) = {node.Address}
    BY <2>2, <2>5, <2>6 DEF Path
  <2> QED
    BY <2>7 DEF node
<1> QED
  BY <1>2, <1>3

-----------------------------------------------------------------------------
(***************************************************************************)
(* The link.                                                               *)
(***************************************************************************)

Configured(ip) ==
    [mac |-> mapToMAC(ip), mtu |-> MTU, addrs |-> {HostAddr(ip)}, up |-> TRUE]

\* The link is only worked on while p.link is not set, and then has been completed.
LinkInv ==
    /\ link # Nil => IsLink(link)
    /\ pc = "link" => ~plink /\ snap.view.PodCIDR # Nil
    /\ plink => \E v \in AllViews : v.PodCIDR # Nil /\ link = Configured(v.PodCIDR.ip)

LEMMA LinkExcept ==
    ASSUME NEW l, IsLink(l), NEW e
    PROVE  /\ [l EXCEPT !.mac = e] = [mac |-> e, mtu |-> l.mtu, addrs |-> l.addrs, up |-> l.up]
           /\ [l EXCEPT !.mtu = e] = [mac |-> l.mac, mtu |-> e, addrs |-> l.addrs, up |-> l.up]
           /\ [l EXCEPT !.addrs = e] = [mac |-> l.mac, mtu |-> l.mtu, addrs |-> e, up |-> l.up]
           /\ [l EXCEPT !.up = e] = [mac |-> l.mac, mtu |-> l.mtu, addrs |-> l.addrs, up |-> e]
<1>1. l = [mac |-> l.mac, mtu |-> l.mtu, addrs |-> l.addrs, up |-> l.up]
  BY DEF IsLink
<1>2. [l EXCEPT !.mac = e] = [mac |-> e, mtu |-> l.mtu, addrs |-> l.addrs, up |-> l.up]
  <2>1. \A a, b, c, d : [[mac |-> a, mtu |-> b, addrs |-> c, up |-> d] EXCEPT !.mac = e]
                        = [mac |-> e, mtu |-> b, addrs |-> c, up |-> d]
    OBVIOUS
  <2> QED
    BY <1>1, <2>1
<1>3. [l EXCEPT !.mtu = e] = [mac |-> l.mac, mtu |-> e, addrs |-> l.addrs, up |-> l.up]
  <2>1. \A a, b, c, d : [[mac |-> a, mtu |-> b, addrs |-> c, up |-> d] EXCEPT !.mtu = e]
                        = [mac |-> a, mtu |-> e, addrs |-> c, up |-> d]
    OBVIOUS
  <2> QED
    BY <1>1, <2>1
<1>4. [l EXCEPT !.addrs = e] = [mac |-> l.mac, mtu |-> l.mtu, addrs |-> e, up |-> l.up]
  <2>1. \A a, b, c, d : [[mac |-> a, mtu |-> b, addrs |-> c, up |-> d] EXCEPT !.addrs = e]
                        = [mac |-> a, mtu |-> b, addrs |-> e, up |-> d]
    OBVIOUS
  <2> QED
    BY <1>1, <2>1
<1>5. [l EXCEPT !.up = e] = [mac |-> l.mac, mtu |-> l.mtu, addrs |-> l.addrs, up |-> e]
  <2>1. \A a, b, c, d : [[mac |-> a, mtu |-> b, addrs |-> c, up |-> d] EXCEPT !.up = e]
                        = [mac |-> a, mtu |-> b, addrs |-> c, up |-> e]
    OBVIOUS
  <2> QED
    BY <1>1, <2>1
<1> QED
  BY <1>2, <1>3, <1>4, <1>5

\* Every call of EnsureLink leaves a link with the fields of one.
LEMMA LinkCallInd ==
    ASSUME LinkInv,
           LinkAdd \/ LinkSetHardwareAddr \/ LinkSetMTU \/ AddrAdd \/ AddrDel \/ LinkSetUp
    PROVE  LinkInv'
<1>1. pc = "link" /\ UNCHANGED <<pc, snap, plink>>
  BY DEF LinkAdd, LinkSetHardwareAddr, LinkSetMTU, AddrAdd, AddrDel, LinkSetUp, LinkCall,
     InEnsureLink, provVars
<1>2. IsLink(link')
  <2>1. CASE LinkAdd
    BY <2>1 DEF LinkAdd, LinkCall, IsLink
  <2>2. CASE ~LinkAdd
    <3>1. IsLink(link)
      BY <2>2 DEF LinkInv, LinkSetHardwareAddr, LinkSetMTU, AddrAdd, AddrDel, LinkSetUp,
         AddrsSet, AddrsAdded, MtuSet, MacSet
    <3>2. \/ \E e : link' = [link EXCEPT !.mac = e]
          \/ \E e : link' = [link EXCEPT !.mtu = e]
          \/ \E e : link' = [link EXCEPT !.addrs = e]
          \/ link' = [link EXCEPT !.up = TRUE]
      BY <2>2 DEF LinkSetHardwareAddr, LinkSetMTU, AddrAdd, AddrDel, LinkSetUp, LinkCall
    <3>3. CASE \/ \E e : link' = [link EXCEPT !.mac = e]
               \/ \E e : link' = [link EXCEPT !.mtu = e]
               \/ \E e : link' = [link EXCEPT !.addrs = e]
      BY <3>1, <3>3, LinkExcept DEF IsLink
    <3>4. CASE link' = [link EXCEPT !.up = TRUE]
      <4>1. \E e \in BOOLEAN : link' = [link EXCEPT !.up = e]
        BY <3>4, Zenon
      <4> QED
        BY <3>1, <4>1, LinkExcept DEF IsLink
    <3> QED
      BY <3>2, <3>3, <3>4
  <2> QED
    BY <2>1, <2>2
<1> QED
  BY <1>1, <1>2 DEF LinkInv

\* When p.link is set, the link is as the PodCIDR wants it.
LEMMA SetLinkInd ==
    ASSUME MapInv, LinkInv, SetLink
    PROVE  LinkInv'
<1> DEFINE ip == snap.view.PodCIDR.ip
<1>1. link # Nil /\ IsLink(link)
  BY DEF SetLink, LinkEnsured, AddrsSet, AddrsAdded, MtuSet, MacSet, LinkInv
<1>2. /\ link.mac = mapToMAC(ip) /\ link.mtu = MTU /\ link.addrs = {HostAddr(ip)}
      /\ link.up = TRUE
  <2>1. link.mac = mapToMAC(ip) /\ link.mtu = MTU
    BY DEF SetLink, LinkEnsured, AddrsSet, AddrsAdded, MtuSet, MacSet, Me
  <2>2. link.addrs = {HostAddr(ip)}
    BY DEF SetLink, LinkEnsured, AddrsSet, AddrsAdded, AddrCreate, AddrRemove, LinkAddrs, Me
  <2>3. link.up = TRUE
    BY <1>1 DEF SetLink, LinkEnsured, IsLink
  <2> QED
    BY <2>1, <2>2, <2>3
<1>3. link = Configured(ip)
  BY <1>1, <1>2 DEF IsLink, Configured
<1>4. snap.view \in AllViews /\ snap.view.PodCIDR # Nil
  BY DEF MapInv, LinkInv, SetLink, InEnsureLink
<1>5. link' = link /\ pc' = "plan"
  BY DEF SetLink, kernelVars
<1> QED
  BY <1>1, <1>3, <1>4, <1>5 DEF LinkInv

LEMMA LinkNext == IndInv /\ LinkInv /\ [Next]_vars => LinkInv'
<1> SUFFICES ASSUME IndInv, LinkInv, [Next]_vars PROVE LinkInv'
  OBVIOUS
<1> USE DEF kernelVars
<1>1. CASE LinkAdd \/ LinkSetHardwareAddr \/ LinkSetMTU \/ AddrAdd \/ AddrDel \/ LinkSetUp
  BY <1>1, LinkCallInd
<1>2. CASE SetLink
  BY <1>2, SetLinkInd DEF IndInv
<1>3. CASE Observe
  BY <1>3 DEF Observe, TakeSnapshot, Usable, LinkInv
<1>4. CASE Fatal \/ Restart
  BY <1>4 DEF Fatal, Restart, Exit, ProcessStarts, LinkInv
<1>5. CASE \/ Change /\ UNCHANGED <<plink, todo, kernelVars>>
           \/ Skip \/ NeighSet \/ RouteDel \/ RouteAdd \/ UNCHANGED vars
  <2>1. UNCHANGED <<pc, snap, plink, link>>
    BY <1>5 DEF Change, Skip, NeighSet, RouteDel, RouteAdd, vars, provVars
  <2> QED
    BY <2>1 DEF LinkInv
<1>6. CASE Begin \/ PlanNeighs \/ PlanRoutes \/ RoutesDeleted \/ Commit \/ Fail
  <2>1. pc' # "link" /\ UNCHANGED <<plink, link>>
    BY <1>6 DEF Begin, Start, PlanNeighs, PlanRoutes, RoutesDeleted, Commit, ReturnOK, Fail,
       ReturnError
  <2> QED
    BY <2>1 DEF LinkInv
<1> QED
  BY <1>1, <1>2, <1>3, <1>4, <1>5, <1>6 DEF Next, EnsureStep

\* Once the provider no longer looks after its link, the link is up with the
\* MAC the other nodes compute and the one address, whatever it was when the agent
\* found it, and whichever calls failed.
THEOREM LinkConfigured == Spec => []LinkIsConfigured
<1>1. Init => IndInv /\ LinkInv
  BY InitInd, InitialKernelsAssumption DEF Init, ProviderInit, LinkInv
<1>2. IndInv /\ LinkInv /\ [Next]_vars => (IndInv /\ LinkInv)'
  BY NextInd, LinkNext
<1>3. IndInv /\ LinkInv => LinkIsConfigured
  BY PodCIDRAssumption DEF IndInv, MapInv, AllViews, LinkInv, LinkIsConfigured, Configured
<1> QED
  BY <1>1, <1>2, <1>3, PTL DEF Spec

-----------------------------------------------------------------------------
\* At no step does the kernel have a route whose gateway is not resolved, or is
\* resolved to a MAC that leads nowhere: in any cluster of nodes that share no
\* address, with any calls failing and any restarts.
THEOREM RoutesResolved == Spec => []RoutesResolve
<1>1. Init => IndInv
  BY InitInd
<1>2. IndInv /\ [Next]_vars => IndInv'
  BY NextInd
<1>3. IndInv => RoutesResolve
  BY IndImpliesResolve
<1> QED
  BY <1>1, <1>2, <1>3, PTL DEF Spec

\* Whenever the provider takes itself to be up to date, packets to a remote node's
\* PodCIDR go to that node's address alone, and nothing else enters the tunnel.
THEOREM ForwardsCorrect == Spec => []UpToDateForwards
<1>1. Init => IndInv
  BY InitInd
<1>2. IndInv /\ [Next]_vars => IndInv'
  BY NextInd
<1>3. IndInv => UpToDateForwards
  BY IndImpliesForwards
<1> QED
  BY <1>1, <1>2, <1>3, PTL DEF Spec

-----------------------------------------------------------------------------
(***************************************************************************)
(* Types.                                                                  *)
(***************************************************************************)

FormInv ==
    /\ BoundInv
    /\ pc \in PC
    /\ plink \in BOOLEAN
    /\ pc \in {"idle", "snapshot", "link", "plan"} => todo = {}
    /\ \A r \in routes : DOMAIN r = {"dst", "gw"}

LEMMA InitForm == Init => FormInv
<1> SUFFICES ASSUME Init PROVE FormInv
  OBVIOUS
<1>1. BoundInv /\ pc \in PC /\ todo = {}
  BY InitBound DEF Init, ProviderInit, PC
<1>2. plink \in BOOLEAN
  BY Zenon DEF Init
<1>3. \A r \in routes : DOMAIN r = {"dst", "gw"}
  BY InitialKernelsAssumption DEF Init
<1> QED
  BY <1>1, <1>2, <1>3 DEF FormInv

LEMMA NextForm == IndInv /\ FormInv /\ [Next]_vars => FormInv'
<1> SUFFICES ASSUME IndInv, FormInv, [Next]_vars PROVE FormInv'
  OBVIOUS
<1> USE DEF mapVars, provVars, kernelVars
<1>1. BoundInv'
  <2>1. /\ Change \/ UNCHANGED version
        /\ UNCHANGED restarts \/ (restarts < MaxRestarts /\ restarts' = restarts + 1)
    BY DEF Next, vars, Change, Skip, EnsureStep, Begin, Start, Observe, TakeSnapshot, LinkAdd,
       LinkSetHardwareAddr, LinkSetMTU, AddrAdd, AddrDel, LinkSetUp, SetLink, LinkCall, PlanNeighs,
       NeighSet, PlanRoutes, RouteDel, RoutesDeleted, RouteAdd, Commit, ReturnOK, Fatal, Fail,
       ReturnError, Restart, Exit, ProcessStarts
  <2> QED
    BY <2>1, NextBound DEF IndInv, FormInv
<1>2. pc' \in PC /\ (pc' \in {"idle", "snapshot", "link", "plan"} => todo' = {})
  BY DEF FormInv, PC, Next, vars, Change, Skip, EnsureStep, Begin, Start, Observe, TakeSnapshot,
     LinkAdd, LinkSetHardwareAddr, LinkSetMTU, AddrAdd, AddrDel, LinkSetUp, SetLink, LinkCall,
     InEnsureLink, PlanNeighs, NeighSet, PlanRoutes, RouteDel, RoutesDeleted, RouteAdd, Commit,
     ReturnOK, Fatal, Fail, ReturnError, Restart, Exit, ProcessStarts
<1>3. plink' \in BOOLEAN
  <2>1. plink' = TRUE \/ plink' = FALSE \/ plink' = plink
    BY Zenon DEF Next, vars, Change, Skip, EnsureStep, Begin, Observe, LinkAdd,
       LinkSetHardwareAddr, LinkSetMTU, AddrAdd, AddrDel, LinkSetUp, SetLink, LinkCall, PlanNeighs,
       NeighSet, PlanRoutes, RouteDel, RoutesDeleted, RouteAdd, Commit, Fatal, Fail, Restart, Exit
  <2>2. plink \in BOOLEAN
    BY Zenon DEF FormInv
  <2> QED
    BY <2>1, <2>2, Zenon
<1>4. \A r \in routes' : DOMAIN r = {"dst", "gw"}
  <2>1. \A r \in Routes(snap.view) : DOMAIN r = {"dst", "gw"}
    BY DEF Routes, RouteOf
  <2>2. pc = "add" => todo \subseteq Routes(snap.view)
    BY DEF IndInv, PhaseInv
  <2>3. \A r \in routes' : r \in routes \/ (pc = "add" /\ r \in todo)
    BY DEF Next, vars, Change, Skip, EnsureStep, Begin, Observe, LinkAdd, LinkSetHardwareAddr,
       LinkSetMTU, AddrAdd, AddrDel, LinkSetUp, SetLink, LinkCall, PlanNeighs, NeighSet, PlanRoutes,
       RouteDel, RoutesDeleted, RouteAdd, Commit, Fatal, Fail, Restart, Exit
  <2> QED
    BY <2>1, <2>2, <2>3 DEF FormInv
<1> QED
  BY <1>1, <1>2, <1>3, <1>4, Zenon DEF FormInv

\* The values of all variables, in particular that the two tables of neighbours keep
\* their families and that no call is left over when EnsureCIDRs has returned.
THEOREM TypesCorrect == Spec => []TypeOK
<1>1. Init => IndInv /\ LinkInv /\ FormInv
  <2>1. Init => LinkInv
    BY InitialKernelsAssumption DEF Init, ProviderInit, LinkInv
  <2> QED
    BY <2>1, InitInd, InitForm
<1>2. IndInv /\ LinkInv /\ FormInv /\ [Next]_vars => IndInv' /\ LinkInv' /\ FormInv'
  BY NextInd, LinkNext, NextForm
<1>3. IndInv /\ LinkInv /\ FormInv => TypeOK
  <2> SUFFICES ASSUME IndInv, LinkInv, FormInv PROVE TypeOK
    OBVIOUS
  <2>1. ProviderTypeOK
    BY ProviderTyped DEF IndInv, FormInv
  <2>2. (\A e \in arp : e.Family = "inet") /\ (\A e \in fdb : e.Family = "bridge")
    BY DEF IndInv, TableInv
  <2> QED
    BY <2>1, <2>2, Zenon DEF FormInv, LinkInv, TypeOK
<1> QED
  BY <1>1, <1>2, <1>3, PTL DEF Spec

=============================================================================
