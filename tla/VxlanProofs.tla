----------------------------- MODULE VxlanProofs ----------------------------
(***************************************************************************)
(* Provider vxlan-legacy and its monitor, in any cluster: the monitor      *)
(* answers for the overlay alone, and an up-to-date provider forwards to   *)
(* the right nodes.                                                        *)
(***************************************************************************)
EXTENDS Vxlan, ProviderProofs, SequenceTheorems

\* Every ARP entry is the answer for its address.
ArpInv ==
    \A a \in arp : /\ a = Answer(a.IP) /\ a.IP \in Seq(Nat) /\ IsIPv4(a.IP)
                   /\ Contains(Overlay, a.IP)

\* Whatever the monitor will answer is for an address of the overlay.
Harmless == {m \in AllMessages : Wanted(m) => Contains(Overlay, m.IP)}
QueueInv == queue \in Seq(Harmless)

MonitorInv == ArpInv /\ QueueInv

FdbInv == \A f, g \in fdb : f.HardwareAddr = g.HardwareAddr => f = g

\* How far the tables agree with the snapshot in each phase.
PhaseInv ==
    LET expected == Neighs(snap.view)
    IN  /\ pc = "neigh" => todo \subseteq expected /\ expected \subseteq fdb \cup todo
        /\ pc \in {"del", "done"} \/ UpToDate => expected \subseteq fdb
        /\ pc = "del" => routes \subseteq {OverlayRoute} \cup todo
        /\ pc = "done" \/ UpToDate => routes = {OverlayRoute}

IndInv == MapInv /\ MonitorInv /\ FdbInv /\ PhaseInv

LEMMA InitInd == Init => IndInv
<1> SUFFICES ASSUME Init PROVE IndInv
  OBVIOUS
<1>1. MapInv /\ Stale /\ pc = "idle"
  BY InitMap DEF Init, ProviderInit
<1>2. ArpInv /\ FdbInv
  BY InitialKernelsAssumption DEF Init, ArpInv, FdbInv
<1>3. QueueInv
  BY DEF Init, QueueInv
<1>4. PhaseInv
  BY <1>1 DEF PhaseInv, UpToDate
<1> QED
  BY <1>1, <1>2, <1>3, <1>4 DEF IndInv, MonitorInv

-----------------------------------------------------------------------------
(***************************************************************************)
(* The monitor.                                                            *)
(***************************************************************************)

LEMMA MacType ==
    ASSUME NEW ip \in Seq(Nat)
    PROVE  mapToMAC(ip) \in Seq(Nat) /\ mapToMAC(ip) # <<>>
<1>1. <<0, 83>> \in Seq(Nat) /\ Len(<<0, 83>>) = 2
  OBVIOUS
<1>2. <<0, 83>> \o ip \in Seq(Nat) /\ Len(<<0, 83>> \o ip) = 2 + Len(ip)
  BY <1>1, ConcatProperties
<1>3. Len(ip) \in Nat
  OBVIOUS
<1>4. <<0, 83>> \o ip # <<>>
  BY <1>2, <1>3
<1> QED
  BY <1>2, <1>4 DEF mapToMAC

LEMMA BytesOf ==
    ASSUME NEW ip \in Seq(Nat), Len(ip) = 4
    PROVE  \A k \in 1 .. 4 : ip[k] \in Nat
<1>1. \A k \in 1 .. Len(ip) : ip[k] \in Nat
  BY ElementOfSeq
<1> QED
  BY <1>1

LEMMA AnnouncedType ==
    ASSUME NEW q \in Seq(Harmless), NEW m \in Harmless
    PROVE  Announced(q, m) \in Seq(Harmless)
BY DEF Announced

\* A message with a MAC is not taken for a request.
LEMMA NewsHarmless ==
    ASSUME NEW state \in {"REACHABLE", "PERMANENT"},
           NEW ip \in Seq(Nat), NEW mac \in Seq(Nat), mac # <<>>
    PROVE  Message("NEWNEIGH", state, ip, mac) \in Harmless
BY DEF Message, Harmless, AllMessages, Wanted

\* A request for an address of the overlay may be answered.
LEMMA RequestHarmless ==
    ASSUME NEW type \in {"GETNEIGH", "NEWNEIGH", "DELNEIGH"},
           NEW state \in {"INCOMPLETE", "FAILED"},
           NEW ip \in Seq(Nat), Contains(Overlay, ip)
    PROVE  Message(type, state, ip, <<>>) \in Harmless
<1>1. <<>> \in Seq(Nat)
  OBVIOUS
<1> QED
  BY <1>1 DEF Message, Harmless, AllMessages

LEMMA RespondInv ==
    ASSUME MonitorInv, Respond
    PROVE  MonitorInv'
<1> DEFINE ip == Head(queue).IP
           e == Answer(ip)
<1>1. Head(queue) \in Harmless /\ Tail(queue) \in Seq(Harmless)
  BY DEF Respond, MonitorInv, QueueInv
<1>2. ip \in Seq(Nat) /\ IsIPv4(ip) /\ Contains(Overlay, ip)
  BY <1>1 DEF Respond, Wanted, Harmless, AllMessages
<1>3. /\ arp' = {a \in arp : a.IP # e.IP} \cup {e}
      /\ queue' = IF e \in arp THEN Tail(queue)
                  ELSE Announced(Tail(queue),
                          Message("NEWNEIGH", "REACHABLE", e.IP, e.HardwareAddr))
  BY DEF Respond
<1> HIDE DEF ip
<1>4. e.IP = ip /\ e.HardwareAddr \in Seq(Nat) /\ e.HardwareAddr # <<>>
  <2>1. ip[1] \in Nat /\ ip[2] \in Nat /\ ip[3] \in Nat
    BY <1>2, BytesOf DEF IsIPv4
  <2>2. <<ip[1], ip[2], ip[3], 0>> \in Seq(Nat)
    BY <2>1
  <2> QED
    BY <2>2, MacType DEF Answer
<1> HIDE DEF e
<1>5. e = Answer(e.IP)
  BY <1>4 DEF e
<1>6. ArpInv'
  BY <1>2, <1>3, <1>4, <1>5 DEF MonitorInv, ArpInv
<1>7. QueueInv'
  BY <1>1, <1>2, <1>3, <1>4, NewsHarmless, AnnouncedType DEF QueueInv
<1> QED
  BY <1>6, <1>7 DEF MonitorInv

LEMMA KernelInv ==
    ASSUME MonitorInv, KernelStep
    PROVE  MonitorInv'
<1> USE DEF MonitorInv, QueueInv
<1>1. CASE Expire
  <2>1. PICK a \in arp :
             /\ arp' = arp \ {a}
             /\ \/ queue' = Announced(queue, Message("NEWNEIGH", "FAILED", a.IP, <<>>))
                \/ queue' = Announced(queue, Message("DELNEIGH", "FAILED", a.IP, <<>>))
    BY <1>1 DEF Expire
  <2>2. ArpInv'
    BY <2>1 DEF ArpInv
  <2>3. a.IP \in Seq(Nat) /\ Contains(Overlay, a.IP)
    BY DEF ArpInv
  <2>4. QueueInv'
    BY <2>1, <2>3, RequestHarmless, AnnouncedType
  <2> QED
    BY <2>2, <2>4
<1>2. CASE Foreign
  <2>1. PICK m \in ForeignMessages : queue' = Announced(queue, m)
    BY <1>2 DEF Foreign
  <2>2. m \in Harmless
    BY TrafficAssumption DEF Harmless
  <2> QED
    BY <1>2, <2>1, <2>2, AnnouncedType DEF Foreign, ArpInv
<1>3. ASSUME NEW ip \in PodIPs, Traffic(ip)
      PROVE  MonitorInv'
  <2>1. /\ queue' = Announced(queue, Message("GETNEIGH", "INCOMPLETE", ip, <<>>))
        /\ arp' = arp
    BY <1>3 DEF Traffic, Miss
  <2>2. Message("GETNEIGH", "INCOMPLETE", ip, <<>>) \in Harmless
    BY RequestHarmless, TrafficAssumption
  <2> QED
    BY <2>1, <2>2, AnnouncedType DEF ArpInv
<1> QED
  BY <1>1, <1>2, <1>3 DEF KernelStep

LEMMA MonitorInd ==
    ASSUME IndInv, Watch \/ RespondFails \/ KernelStep,
           UNCHANGED <<mapVars, provVars, plink, todo, tunnelVars>>
    PROVE  IndInv'
<1>1. MonitorInv'
  <2>1. CASE Respond
    BY <2>1, RespondInv DEF IndInv
  <2>2. CASE KernelStep
    BY <2>2, KernelInv DEF IndInv
  <2>3. CASE Ignore \/ RespondFails
    <3>1. queue # <<>> /\ queue' = Tail(queue) /\ arp' = arp
      BY <2>3 DEF Ignore, RespondFails
    <3> QED
      BY <3>1 DEF IndInv, MonitorInv, ArpInv, QueueInv
  <2> QED
    BY <2>1, <2>2, <2>3 DEF Watch
<1>2. MapInv' /\ (Stale' <=> Stale)
  BY SameMap DEF IndInv, provVars
<1>3. FdbInv' /\ PhaseInv'
  BY <1>2 DEF IndInv, FdbInv, PhaseInv, UpToDate, tunnelVars, provVars
<1> QED
  BY <1>1, <1>2, <1>3 DEF IndInv

-----------------------------------------------------------------------------
(***************************************************************************)
(* EnsureCIDRs.                                                            *)
(***************************************************************************)

\* Steps that leave the monitor as it is, or end it.
LEMMA MonitorSame ==
    ASSUME MonitorInv, arp' = arp, queue' \in {queue, <<>>}
    PROVE  MonitorInv'
<1>1. <<>> \in Seq(Harmless)
  OBVIOUS
<1> QED
  BY <1>1 DEF MonitorInv, ArpInv, QueueInv

\* Steps outside of the loops, whatever they do to the link and its routes.
LEMMA QuietInd ==
    ASSUME IndInv, MapInv', Stale', pc' \notin {"neigh", "del", "done"},
           UNCHANGED <<arp, fdb>>, queue' \in {queue, <<>>}
    PROVE  IndInv'
<1>1. MonitorInv'
  BY MonitorSame DEF IndInv
<1>2. FdbInv'
  BY DEF IndInv, FdbInv
<1>3. PhaseInv'
  BY DEF PhaseInv, UpToDate
<1> QED
  BY <1>1, <1>2, <1>3 DEF IndInv

LEMMA LinkInd ==
    ASSUME IndInv,
           \/ LinkAdd \/ LinkSetHardwareAddr \/ LinkSetMTU \/ AddrAdd \/ AddrDel \/ LinkSetUp
           \/ ListenArp \/ MonitorStart
    PROVE  IndInv'
<1>1. /\ pc \in {"link", "mac", "mtu", "addrs", "arp", "monitor"}
      /\ pc' \notin {"neigh", "del", "done"}
      /\ UNCHANGED <<mapVars, snap, lastVersionApplied, arp, fdb, queue>>
  BY DEF LinkAdd, LinkSetHardwareAddr, LinkSetMTU, AddrAdd, AddrDel, LinkSetUp, ListenArp,
     MonitorStart, LinkCall, Enter, provVars, monitorVars, tunnelVars
<1>2. MapInv' /\ Stale'
  BY <1>1, InsideMap DEF IndInv
<1> QED
  BY <1>1, <1>2, QuietInd

LEMMA NeighsDistinct ==
    ASSUME NEW v \in AllViews, NEW e \in Neighs(v), NEW f \in Neighs(v),
           e.IP = f.IP \/ e.HardwareAddr = f.HardwareAddr
    PROVE  e = f
<1>1. v \in Views
  BY ProviderTypes DEF AllViews, Neighs, Remotes
<1> QED
  BY <1>1, DistinctNeighs

LEMMA NeighInd ==
    ASSUME IndInv, PlanNeighs \/ NeighSet
    PROVE  IndInv'
<1> USE DEF PlanNeighs, NeighSet, Enter, provVars
<1>1. MapInv' /\ Stale' /\ snap' = snap /\ pc' = "neigh" /\ snap.view \in AllViews
  BY InsideMap DEF IndInv, MapInv
<1>2. CASE PlanNeighs
  <2>1. MonitorInv' /\ FdbInv'
    BY <1>2, MonitorSame DEF IndInv, FdbInv, tunnelVars, monitorVars
  <2>2. PICK T \in OnePerKey(Neighs(snap.view), "IP") : todo' = T \ {}
    BY <1>2 DEF NeighUpserts
  <2>3. T \subseteq Neighs(snap.view) /\ \A e \in Neighs(snap.view) : \E t \in T : t.IP = e.IP
    BY <2>2 DEF OnePerKey
  <2>4. T = Neighs(snap.view)
    BY <1>1, <2>3, NeighsDistinct
  <2>5. PhaseInv'
    BY <1>1, <2>2, <2>4 DEF PhaseInv, UpToDate
  <2> QED
    BY <1>1, <2>1, <2>5 DEF IndInv
<1>3. CASE NeighSet
  <2>1. PICK e \in todo :
             /\ todo' = todo \ {e}
             /\ fdb' = {f \in fdb : f.HardwareAddr # e.HardwareAddr} \cup {e}
             /\ queue' = Announced(queue,
                            Message("NEWNEIGH", "PERMANENT", e.IP, e.HardwareAddr))
    BY <1>3
  <2>2. /\ e \in Neighs(snap.view) /\ todo \subseteq Neighs(snap.view)
        /\ Neighs(snap.view) \subseteq fdb \cup todo
    BY <1>3 DEF IndInv, PhaseInv
  <2>3. e.IP \in Seq(Nat) /\ e.HardwareAddr \in Seq(Nat) /\ e.HardwareAddr # <<>>
    <3>1. PICK n \in Remotes(snap.view) : e = FdbOf(snap.view.nodes[n])
      BY <2>2 DEF Neighs
    <3>2. snap.view \in Views
      BY <1>1, <3>1, ProviderTypes DEF AllViews, Remotes
    <3>3. snap.view.nodes[n] \in Infos
      BY <3>1, <3>2 DEF Infos
    <3> QED
      BY <3>1, <3>3, InfosAssumption, MacType DEF FdbOf
  <2>4. MonitorInv'
    <3>1. QueueInv'
      BY <2>1, <2>3, NewsHarmless, AnnouncedType DEF IndInv, MonitorInv, QueueInv
    <3> QED
      BY <1>3, <3>1 DEF IndInv, MonitorInv, ArpInv
  <2>5. FdbInv'
    BY <2>1 DEF IndInv, FdbInv
  <2>6. Neighs(snap.view) \subseteq fdb' \cup todo'
    BY <1>1, <2>1, <2>2, NeighsDistinct
  <2>7. PhaseInv'
    BY <1>1, <2>1, <2>2, <2>6 DEF PhaseInv, UpToDate
  <2> QED
    BY <1>1, <2>4, <2>5, <2>7 DEF IndInv
<1> QED
  BY <1>2, <1>3

LEMMA RouteInd ==
    ASSUME IndInv, PlanRoutes \/ RouteDel \/ RouteAdd
    PROVE  IndInv'
<1> USE DEF PlanRoutes, RouteDel, RouteAdd, Enter, provVars, tunnelVars, monitorVars
<1>1. MapInv' /\ Stale' /\ UNCHANGED <<snap, fdb, arp, queue>>
  BY InsideMap DEF IndInv
<1>2. MonitorInv' /\ FdbInv'
  BY <1>1, MonitorSame DEF IndInv, FdbInv
<1>3. Neighs(snap.view) \subseteq fdb
  BY DEF IndInv, PhaseInv
<1>4. CASE PlanRoutes
  <2>1. routes \subseteq {OverlayRoute} \cup todo'
    BY <1>4 DEF RouteRemove, RouteChanged, RouteExtra
  <2>2. PhaseInv'
    BY <1>1, <1>3, <1>4, <2>1 DEF PhaseInv, UpToDate
  <2> QED
    BY <1>1, <1>2, <2>2 DEF IndInv
<1>5. CASE RouteDel
  <2>1. routes' \subseteq {OverlayRoute} \cup todo'
    BY <1>5 DEF IndInv, PhaseInv
  <2>2. PhaseInv'
    BY <1>1, <1>3, <1>5, <2>1 DEF PhaseInv, UpToDate
  <2> QED
    BY <1>1, <1>2, <2>2 DEF IndInv
<1>6. CASE RouteAdd
  <2>1. routes \subseteq {OverlayRoute}
    BY <1>6 DEF IndInv, PhaseInv
  <2>2. routes' = {OverlayRoute}
    BY <1>6, <2>1 DEF RouteCreate
  <2>3. PhaseInv'
    BY <1>1, <1>3, <1>6, <2>2 DEF PhaseInv, UpToDate
  <2> QED
    BY <1>1, <1>2, <2>3 DEF IndInv
<1> QED
  BY <1>4, <1>5, <1>6

LEMMA CommitInd ==
    ASSUME IndInv, Commit
    PROVE  IndInv'
<1> USE DEF Commit, tunnelVars, monitorVars
<1>1. MapInv' /\ snap' = snap /\ pc' = "idle"
  BY ReturnMap DEF IndInv, ReturnOK
<1>2. MonitorInv' /\ FdbInv'
  BY MonitorSame DEF IndInv, FdbInv
<1>3. PhaseInv'
  BY <1>1 DEF IndInv, PhaseInv
<1> QED
  BY <1>1, <1>2, <1>3 DEF IndInv

LEMMA NextInd == IndInv /\ [Next]_vars => IndInv'
<1> SUFFICES ASSUME IndInv, [Next]_vars PROVE IndInv'
  OBVIOUS
<1> USE DEF tunnelVars, monitorVars
<1>0. MapInv
  BY DEF IndInv
<1>1. CASE \/ Change /\ UNCHANGED <<plink, todo, tunnelVars, monitorVars>>
           \/ Skip \/ UNCHANGED vars
  <2>1. /\ MapInv' /\ (Stale => Stale')
        /\ UNCHANGED <<provVars, todo, tunnelVars, monitorVars>>
    <3>1. CASE Change /\ UNCHANGED <<plink, todo, tunnelVars, monitorVars>>
      BY <1>0, <3>1, ChangeMap
    <3>2. CASE Skip \/ UNCHANGED vars
      BY <1>0, <3>2, SameMap DEF Skip, vars, provVars
    <3> QED
      BY <1>1, <3>1, <3>2
  <2>2. MonitorInv' /\ FdbInv'
    BY <2>1, MonitorSame DEF IndInv, FdbInv
  <2>3. PhaseInv'
    BY <2>1 DEF IndInv, PhaseInv, UpToDate, provVars
  <2> QED
    BY <2>1, <2>2, <2>3 DEF IndInv
<1>2. CASE Begin
  BY <1>0, <1>2, StartMap, QuietInd DEF Begin, Start
<1>3. CASE Observe
  <2>1. MapInv' /\ Stale' /\ pc' \notin {"neigh", "del", "done"}
    BY <1>0, <1>3, SnapshotMap DEF Observe, TakeSnapshot
  <2> QED
    BY <1>3, <2>1, QuietInd DEF Observe
<1>4. CASE \/ LinkAdd \/ LinkSetHardwareAddr \/ LinkSetMTU \/ AddrAdd \/ AddrDel
           \/ LinkSetUp \/ ListenArp \/ MonitorStart
  BY <1>4, LinkInd
<1>5. CASE PlanNeighs \/ NeighSet
  BY <1>5, NeighInd
<1>6. CASE PlanRoutes \/ RouteDel \/ RouteAdd
  BY <1>6, RouteInd
<1>7. CASE Commit
  BY <1>7, CommitInd
<1>8. CASE Fail
  BY <1>0, <1>8, InsideMap, QuietInd DEF Fail, ReturnError
<1>9. CASE Fatal \/ Restart
  BY <1>0, <1>9, ProcessMap, QuietInd DEF Fatal, Restart, Exit, ProcessStarts
<1>10. CASE /\ Watch \/ RespondFails \/ KernelStep
            /\ UNCHANGED <<mapVars, provVars, plink, todo, tunnelVars>>
  BY <1>10, MonitorInd
<1> QED
  BY <1>1, <1>2, <1>3, <1>4, <1>5, <1>6, <1>7, <1>8, <1>9, <1>10 DEF Next, EnsureStep

-----------------------------------------------------------------------------
\* The address of a /24 is that of the addresses in it, with a last byte of 0.
LEMMA NetOf ==
    ASSUME NEW i \in Infos, NEW ip \in PodIPs, Contains(i.PodCIDR, ip), i.PodCIDR.len = 24
    PROVE  i.PodCIDR.ip = <<ip[1], ip[2], ip[3], 0>>
<1> DEFINE net == i.PodCIDR.ip
<1>1. net \in Seq(Nat) /\ Len(net) = 4 /\ net[4] = 0
  BY InfosAssumption DEF Contains, IsIPv4
<1>2. ip \in Seq(Nat) /\ Len(ip) = 4
  BY TrafficAssumption DEF IsIPv4
<1>3. ASSUME NEW k \in 1 .. 3
      PROVE  ip[k] = net[k]
  <2>1. ip[k] \div 1 = net[k] \div 1
    BY <1>3 DEF Contains
  <2> HIDE DEF net
  <2>2. k \in 1 .. 4
    OBVIOUS
  <2>3. ip[k] \in Nat /\ net[k] \in Nat
    BY <1>1, <1>2, <2>2, BytesOf
  <2> QED
    BY <2>1, <2>3
<1>4. ip[1] = net[1] /\ ip[2] = net[2] /\ ip[3] = net[3]
  BY <1>3
<1> HIDE DEF net
<1>5. net = <<net[1], net[2], net[3], net[4]>>
  BY <1>1
<1>6. net = <<ip[1], ip[2], ip[3], 0>>
  BY <1>1, <1>4, <1>5
<1> QED
  BY <1>6 DEF net

LEMMA IndImpliesForwards == IndInv => UpToDateForwards
<1> SUFFICES ASSUME IndInv, UpToDate
             PROVE  /\ routes = {OverlayRoute}
                    /\ \A n \in Remotes(view), ip \in PodIPs :
                          LET node == view.nodes[n] IN
                          Contains(node.PodCIDR, ip) /\ node.PodCIDR.len = 24 /\ Resolved(ip) =>
                              Path(ip) = {node.Address}
  BY DEF UpToDateForwards
<1>1. snap.view = view /\ view \in AllViews
  BY UpToDateView DEF IndInv, MapInv
<1>2. Neighs(view) \subseteq fdb /\ routes = {OverlayRoute}
  BY <1>1 DEF IndInv, PhaseInv
<1>3. ASSUME NEW n \in Remotes(view), NEW ip \in PodIPs,
             Contains(view.nodes[n].PodCIDR, ip), view.nodes[n].PodCIDR.len = 24, Resolved(ip)
      PROVE  Path(ip) = {view.nodes[n].Address}
  <2> DEFINE node == view.nodes[n]
             f == FdbOf(node)
  <2>1. view \in Views
    BY <1>1, ProviderTypes DEF AllViews, Remotes
  <2>2. node \in Infos
    BY <2>1 DEF Infos
  <2>3. f \in fdb
    BY <1>2 DEF Neighs
  <2>4. node.PodCIDR.ip = <<ip[1], ip[2], ip[3], 0>>
    BY <1>3, <2>2, NetOf
  <2> HIDE DEF node
  <2>5. f.IP = node.Address /\ f.HardwareAddr = Answer(ip).HardwareAddr
    BY <2>4 DEF FdbOf, Answer
  <2> HIDE DEF f
  <2>6. PICK a \in arp : a.IP = ip
    BY <1>3 DEF Resolved
  <2>7. \A b \in arp : b.IP = ip => b.HardwareAddr = f.HardwareAddr
    BY <2>5 DEF IndInv, MonitorInv, ArpInv
  <2>8. \A g \in fdb : (\E b \in arp : b.IP = ip /\ b.HardwareAddr = g.HardwareAddr) <=> g = f
    BY <2>3, <2>6, <2>7 DEF IndInv, FdbInv
  <2>9. Path(ip) = {f.IP}
    BY <2>3, <2>8 DEF Path
  <2> QED
    BY <2>5, <2>9 DEF node
<1> QED
  BY <1>2, <1>3

\* The monitor never sets an ARP entry for an address outside of the overlay,
\* whichever messages the socket delivers or loses, and whatever EnsureCIDRs does.
THEOREM AnswersCorrect == Spec => []AnswersOverlayOnly
<1>1. Init => IndInv
  BY InitInd
<1>2. IndInv /\ [Next]_vars => IndInv'
  BY NextInd
<1>3. IndInv => AnswersOverlayOnly
  BY DEF IndInv, MonitorInv, ArpInv, AnswersOverlayOnly
<1> QED
  BY <1>1, <1>2, <1>3, PTL DEF Spec

\* Whenever the provider takes itself to be up to date, the overlay is routed into
\* the tunnel, and packets to a resolved address of a remote node's /24 go to that
\* node alone: for any cluster, any traffic, failures and restarts.
THEOREM ForwardsCorrect == Spec => []UpToDateForwards
<1>1. Init => IndInv
  BY InitInd
<1>2. IndInv /\ [Next]_vars => IndInv'
  BY NextInd
<1>3. IndInv => UpToDateForwards
  BY IndImpliesForwards
<1> QED
  BY <1>1, <1>2, <1>3, PTL DEF Spec

-----------------------------------------------------------------------------
(***************************************************************************)
(* The link.                                                               *)
(***************************************************************************)

\* The MAC of a PodCIDR of the local node, or one that the agent found.
KnownMac(m) ==
    \/ \E v \in AllViews : v.PodCIDR # Nil /\ m = mapToMAC(v.PodCIDR.ip)
    \/ \E k \in InitialKernels : k.link # Nil /\ m = k.link.mac

LinkOK(l) == IsLink(l) /\ KnownMac(l.mac)

\* The link is worked on only while p.link is not set; it is set once the MTU, the
\* addresses and the state are those of a view.
LinkInv ==
    /\ link # Nil => LinkOK(link)
    /\ pc \in {"link", "mac", "mtu", "addrs"} => ~plink /\ snap.view.PodCIDR # Nil
    /\ pc \in {"mac", "mtu", "addrs"} => LinkOK(link)
    /\ pc = "addrs" => link.mtu = MTU
    /\ pc = "arp" => plink
    /\ plink => /\ LinkOK(link) /\ link.up = TRUE /\ link.mtu = MTU
                /\ \E v \in AllViews : v.PodCIDR # Nil /\ link.addrs = LinkAddrs(v)

LEMMA LinkExcept ==
    ASSUME NEW l, IsLink(l), NEW e
    PROVE  /\ [l EXCEPT !.mac = e]
                = [mac |-> e, mtu |-> l.mtu, addrs |-> l.addrs, up |-> l.up, solicit |-> l.solicit]
           /\ [l EXCEPT !.mtu = e]
                = [mac |-> l.mac, mtu |-> e, addrs |-> l.addrs, up |-> l.up, solicit |-> l.solicit]
           /\ [l EXCEPT !.addrs = e]
                = [mac |-> l.mac, mtu |-> l.mtu, addrs |-> e, up |-> l.up, solicit |-> l.solicit]
           /\ [l EXCEPT !.up = e]
                = [mac |-> l.mac, mtu |-> l.mtu, addrs |-> l.addrs, up |-> e, solicit |-> l.solicit]
           /\ [l EXCEPT !.solicit = e]
                = [mac |-> l.mac, mtu |-> l.mtu, addrs |-> l.addrs, up |-> l.up, solicit |-> e]
<1>1. l = [mac |-> l.mac, mtu |-> l.mtu, addrs |-> l.addrs, up |-> l.up, solicit |-> l.solicit]
  BY DEF IsLink
<1>2. [l EXCEPT !.mac = e]
      = [mac |-> e, mtu |-> l.mtu, addrs |-> l.addrs, up |-> l.up, solicit |-> l.solicit]
  <2>1. \A a, b, c, d, f :
           [[mac |-> a, mtu |-> b, addrs |-> c, up |-> d, solicit |-> f] EXCEPT !.mac = e]
           = [mac |-> e, mtu |-> b, addrs |-> c, up |-> d, solicit |-> f]
    OBVIOUS
  <2> QED
    BY <1>1, <2>1
<1>3. [l EXCEPT !.mtu = e]
      = [mac |-> l.mac, mtu |-> e, addrs |-> l.addrs, up |-> l.up, solicit |-> l.solicit]
  <2>1. \A a, b, c, d, f :
           [[mac |-> a, mtu |-> b, addrs |-> c, up |-> d, solicit |-> f] EXCEPT !.mtu = e]
           = [mac |-> a, mtu |-> e, addrs |-> c, up |-> d, solicit |-> f]
    OBVIOUS
  <2> QED
    BY <1>1, <2>1
<1>4. [l EXCEPT !.addrs = e]
      = [mac |-> l.mac, mtu |-> l.mtu, addrs |-> e, up |-> l.up, solicit |-> l.solicit]
  <2>1. \A a, b, c, d, f :
           [[mac |-> a, mtu |-> b, addrs |-> c, up |-> d, solicit |-> f] EXCEPT !.addrs = e]
           = [mac |-> a, mtu |-> b, addrs |-> e, up |-> d, solicit |-> f]
    OBVIOUS
  <2> QED
    BY <1>1, <2>1
<1>5. [l EXCEPT !.up = e]
      = [mac |-> l.mac, mtu |-> l.mtu, addrs |-> l.addrs, up |-> e, solicit |-> l.solicit]
  <2>1. \A a, b, c, d, f :
           [[mac |-> a, mtu |-> b, addrs |-> c, up |-> d, solicit |-> f] EXCEPT !.up = e]
           = [mac |-> a, mtu |-> b, addrs |-> c, up |-> e, solicit |-> f]
    OBVIOUS
  <2> QED
    BY <1>1, <2>1
<1>6. [l EXCEPT !.solicit = e]
      = [mac |-> l.mac, mtu |-> l.mtu, addrs |-> l.addrs, up |-> l.up, solicit |-> e]
  <2>1. \A a, b, c, d, f :
           [[mac |-> a, mtu |-> b, addrs |-> c, up |-> d, solicit |-> f] EXCEPT !.solicit = e]
           = [mac |-> a, mtu |-> b, addrs |-> c, up |-> d, solicit |-> e]
    OBVIOUS
  <2> QED
    BY <1>1, <2>1
<1> QED
  BY <1>2, <1>3, <1>4, <1>5, <1>6

LEMMA LinkRecord ==
    ASSUME NEW r, NEW a, NEW b, NEW c, NEW d \in BOOLEAN, NEW e \in BOOLEAN,
           r = [mac |-> a, mtu |-> b, addrs |-> c, up |-> d, solicit |-> e]
    PROVE  IsLink(r) /\ r.mac = a /\ r.mtu = b /\ r.addrs = c /\ r.up = d
BY DEF IsLink

\* The link with another MAC, MTU or set of addresses.
LEMMA LinkSet ==
    ASSUME NEW l, IsLink(l), NEW e
    PROVE  /\ IsLink([l EXCEPT !.mac = e]) /\ IsLink([l EXCEPT !.mtu = e])
           /\ IsLink([l EXCEPT !.addrs = e])
           /\ [l EXCEPT !.mtu = e].mtu = e /\ [l EXCEPT !.addrs = e].mtu = l.mtu
           /\ [l EXCEPT !.mac = e].mac = e /\ [l EXCEPT !.mtu = e].mac = l.mac
           /\ [l EXCEPT !.addrs = e].mac = l.mac
<1>1. l.up \in BOOLEAN /\ l.solicit \in BOOLEAN
  BY Zenon DEF IsLink
<1> DEFINE m == [l EXCEPT !.mac = e]
           t == [l EXCEPT !.mtu = e]
           d == [l EXCEPT !.addrs = e]
<1>2. /\ m = [mac |-> e, mtu |-> l.mtu, addrs |-> l.addrs, up |-> l.up, solicit |-> l.solicit]
      /\ t = [mac |-> l.mac, mtu |-> e, addrs |-> l.addrs, up |-> l.up, solicit |-> l.solicit]
      /\ d = [mac |-> l.mac, mtu |-> l.mtu, addrs |-> e, up |-> l.up, solicit |-> l.solicit]
  BY LinkExcept, Zenon
<1> HIDE DEF m, t, d
<1>3. /\ IsLink(m) /\ IsLink(t) /\ IsLink(d) /\ t.mtu = e /\ d.mtu = l.mtu
      /\ m.mac = e /\ t.mac = l.mac /\ d.mac = l.mac
  BY <1>1, <1>2, LinkRecord, Zenon
<1> QED
  BY <1>3, Zenon DEF m, t, d

\* The link with a flag set.
LEMMA LinkFlag ==
    ASSUME NEW l, IsLink(l)
    PROVE  /\ IsLink([l EXCEPT !.up = TRUE]) /\ IsLink([l EXCEPT !.solicit = TRUE])
           /\ [l EXCEPT !.up = TRUE].up = TRUE /\ [l EXCEPT !.solicit = TRUE].up = l.up
           /\ [l EXCEPT !.up = TRUE].mtu = l.mtu /\ [l EXCEPT !.solicit = TRUE].mtu = l.mtu
           /\ [l EXCEPT !.up = TRUE].addrs = l.addrs
           /\ [l EXCEPT !.solicit = TRUE].addrs = l.addrs
           /\ [l EXCEPT !.up = TRUE].mac = l.mac /\ [l EXCEPT !.solicit = TRUE].mac = l.mac
<1>1. l.up \in BOOLEAN /\ l.solicit \in BOOLEAN
  BY Zenon DEF IsLink
<1>2. ASSUME NEW e \in BOOLEAN
      PROVE  /\ IsLink([l EXCEPT !.up = e]) /\ IsLink([l EXCEPT !.solicit = e])
             /\ [l EXCEPT !.up = e].up = e /\ [l EXCEPT !.solicit = e].up = l.up
             /\ [l EXCEPT !.up = e].mtu = l.mtu /\ [l EXCEPT !.solicit = e].mtu = l.mtu
             /\ [l EXCEPT !.up = e].addrs = l.addrs
             /\ [l EXCEPT !.solicit = e].addrs = l.addrs
             /\ [l EXCEPT !.up = e].mac = l.mac /\ [l EXCEPT !.solicit = e].mac = l.mac
  <2> DEFINE u == [l EXCEPT !.up = e]
             s == [l EXCEPT !.solicit = e]
  <2>1. /\ u = [mac |-> l.mac, mtu |-> l.mtu, addrs |-> l.addrs, up |-> e, solicit |-> l.solicit]
        /\ s = [mac |-> l.mac, mtu |-> l.mtu, addrs |-> l.addrs, up |-> l.up, solicit |-> e]
    BY LinkExcept, Zenon
  <2> HIDE DEF u, s
  <2>2. /\ IsLink(u) /\ u.up = e /\ u.mtu = l.mtu /\ u.addrs = l.addrs
        /\ IsLink(s) /\ s.up = l.up /\ s.mtu = l.mtu /\ s.addrs = l.addrs
        /\ u.mac = l.mac /\ s.mac = l.mac
    BY <1>1, <2>1, LinkRecord, Zenon
  <2> QED
    BY <2>2, Zenon DEF u, s
<1>3. TRUE \in BOOLEAN
  BY Zenon
<1> QED
  BY <1>2, <1>3, Zenon

\* The calls of EnsureLink before p.link is set.
LEMMA LinkCallInd ==
    ASSUME MapInv, LinkInv, LinkAdd \/ LinkSetHardwareAddr \/ LinkSetMTU \/ AddrAdd \/ AddrDel
    PROVE  LinkInv'
<1> USE DEF Enter, provVars, tunnelVars
<1>1. /\ pc \in {"link", "mac", "mtu", "addrs"} /\ UNCHANGED <<snap, plink>>
      /\ ~plink /\ snap.view.PodCIDR # Nil
  BY DEF LinkAdd, LinkSetHardwareAddr, LinkSetMTU, AddrAdd, AddrDel, LinkInv
<1>0. KnownMac(mapToMAC(Me.PodCIDR.ip))
  BY <1>1 DEF KnownMac, MapInv, Me
<1>2. LinkOK(link') /\ pc' \in {"mac", "mtu", "addrs"} /\ (pc' = "addrs" => link'.mtu = MTU)
  <2>1. CASE LinkAdd
    <3>1. CASE link = Nil
      <4>1. pc' = "mac"
        BY <2>1, <3>1 DEF LinkAdd
      <4>2. link' = [mac |-> mapToMAC(Me.PodCIDR.ip), mtu |-> MTU, addrs |-> {},
                     up |-> FALSE, solicit |-> FALSE]
        BY <2>1, <3>1 DEF LinkAdd, LinkCall
      <4> QED
        BY <1>0, <4>1, <4>2 DEF IsLink, LinkOK
    <3>2. CASE link # Nil
      <4>1. pc' = "mtu" /\ link' = link
        BY <2>1, <3>2 DEF LinkAdd
      <4>2. LinkOK(link)
        BY <3>2 DEF LinkInv
      <4> QED
        BY <4>1, <4>2
    <3> QED
      BY <3>1, <3>2
  <2>2. CASE ~LinkAdd
    <3>1. IsLink(link) /\ KnownMac(link.mac)
      BY <2>2 DEF LinkInv, LinkOK, LinkSetHardwareAddr, LinkSetMTU, AddrAdd, AddrDel
    <3>2. \/ pc' = "mtu" /\ link' = [link EXCEPT !.mac = mapToMAC(Me.PodCIDR.ip)]
          \/ pc' = "addrs" /\ link' = [link EXCEPT !.mtu = MTU]
          \/ pc = "addrs" /\ pc' = "addrs" /\ \E e : link' = [link EXCEPT !.addrs = e]
      BY <2>2 DEF LinkSetHardwareAddr, LinkSetMTU, AddrAdd, AddrDel, LinkCall
    <3>3. pc = "addrs" => link.mtu = MTU
      BY DEF LinkInv
    <3>4. CASE pc' = "mtu" /\ link' = [link EXCEPT !.mac = mapToMAC(Me.PodCIDR.ip)]
      BY <1>0, <3>1, <3>4, LinkSet, Zenon DEF LinkOK
    <3>5. CASE pc' = "addrs" /\ link' = [link EXCEPT !.mtu = MTU]
      BY <3>1, <3>5, LinkSet, Zenon DEF LinkOK
    <3>6. CASE pc = "addrs" /\ pc' = "addrs" /\ \E e : link' = [link EXCEPT !.addrs = e]
      <4>1. PICK e : link' = [link EXCEPT !.addrs = e]
        BY <3>6
      <4> QED
        BY <3>1, <3>3, <3>6, <4>1, LinkSet, Zenon DEF LinkOK
    <3> QED
      BY <3>2, <3>4, <3>5, <3>6
  <2> QED
    BY <2>1, <2>2
<1> QED
  BY <1>1, <1>2 DEF LinkInv

\* p.link is set when the link is as the view wants it, and keeps it so.
LEMMA SetLinkInd ==
    ASSUME MapInv, LinkInv, LinkSetUp \/ ListenArp
    PROVE  LinkInv'
<1> USE DEF Enter, provVars
<1>1. CASE LinkSetUp
  <2>1. /\ pc = "addrs" /\ pc' = "arp" /\ plink' /\ snap' = snap
        /\ link.addrs = LinkAddrs(snap.view) /\ link' = [link EXCEPT !.up = TRUE]
    BY <1>1 DEF LinkSetUp, LinkCall, Me
  <2>2. /\ IsLink(link) /\ KnownMac(link.mac) /\ link.mtu = MTU
        /\ snap.view \in AllViews /\ snap.view.PodCIDR # Nil
    BY <2>1 DEF LinkInv, LinkOK, MapInv
  <2>3. /\ IsLink(link') /\ link'.up = TRUE /\ link'.mac = link.mac
        /\ link'.mtu = link.mtu /\ link'.addrs = link.addrs
    BY <2>1, <2>2, LinkFlag, Zenon
  <2>4. LinkOK(link')
    BY <2>2, <2>3, Zenon DEF LinkOK
  <2> QED
    BY <2>1, <2>2, <2>3, <2>4 DEF LinkInv
<1>2. CASE ListenArp
  <2>1. /\ pc = "arp" /\ pc' = "monitor" /\ UNCHANGED <<plink, snap>>
        /\ link' = [link EXCEPT !.solicit = TRUE]
    BY <1>2 DEF ListenArp, LinkCall
  <2>2. PICK v \in AllViews : v.PodCIDR # Nil /\ link.addrs = LinkAddrs(v)
    BY <2>1 DEF LinkInv
  <2>3. plink /\ IsLink(link) /\ KnownMac(link.mac) /\ link.mtu = MTU /\ link.up = TRUE
    BY <2>1 DEF LinkInv, LinkOK
  <2>4. /\ IsLink(link') /\ link'.up = link.up /\ link'.mac = link.mac
        /\ link'.mtu = link.mtu /\ link'.addrs = link.addrs
    BY <2>1, <2>3, LinkFlag, Zenon
  <2>5. LinkOK(link')
    BY <2>3, <2>4, Zenon DEF LinkOK
  <2> QED
    BY <2>1, <2>2, <2>3, <2>4, <2>5 DEF LinkInv
<1> QED
  BY <1>1, <1>2

LEMMA InitLink == Init => LinkInv
BY InitialKernelsAssumption DEF Init, ProviderInit, LinkInv, LinkOK, KnownMac

LEMMA LinkNext == IndInv /\ LinkInv /\ [Next]_vars => LinkInv'
<1> SUFFICES ASSUME IndInv, LinkInv, [Next]_vars PROVE LinkInv'
  OBVIOUS
<1> USE DEF tunnelVars, provVars, Enter
<1>1. CASE LinkAdd \/ LinkSetHardwareAddr \/ LinkSetMTU \/ AddrAdd \/ AddrDel
  BY <1>1, LinkCallInd DEF IndInv
<1>2. CASE LinkSetUp \/ ListenArp
  BY <1>2, SetLinkInd DEF IndInv
<1>3. CASE Observe
  BY <1>3 DEF Observe, TakeSnapshot, Usable, LinkInv
<1>4. CASE Fatal \/ Restart
  BY <1>4 DEF Fatal, Restart, Exit, ProcessStarts, LinkInv
<1>5. CASE \/ Change /\ UNCHANGED <<plink, todo, tunnelVars, monitorVars>>
           \/ Skip \/ NeighSet \/ RouteDel \/ UNCHANGED vars
           \/ /\ Watch \/ RespondFails \/ KernelStep
              /\ UNCHANGED <<mapVars, provVars, plink, todo, tunnelVars>>
  <2>1. UNCHANGED <<pc, snap, plink, link>>
    BY <1>5 DEF Change, Skip, NeighSet, RouteDel, vars
  <2> QED
    BY <2>1 DEF LinkInv
<1>6. CASE Begin \/ MonitorStart \/ PlanNeighs \/ PlanRoutes \/ RouteAdd \/ Commit \/ Fail
  <2>1. pc' \notin {"link", "mac", "mtu", "addrs", "arp"} /\ UNCHANGED <<plink, link>>
    BY <1>6 DEF Begin, Start, MonitorStart, PlanNeighs, PlanRoutes, RouteAdd, Commit, ReturnOK,
       Fail, ReturnError
  <2> QED
    BY <2>1 DEF LinkInv
<1> QED
  BY <1>1, <1>2, <1>3, <1>4, <1>5, <1>6 DEF Next, EnsureStep

\* Once the provider no longer calls EnsureLink, the link is up with the right MTU
\* and the one address: whatever it was when the agent found it, whichever calls
\* failed, and although the calls that follow do not look at it again.  Its MAC is
\* the one of the PodCIDR, or the one that a link had which the agent found.
THEOREM LinkConfigured == Spec => []LinkIsConfigured
<1>1. Init => IndInv /\ LinkInv
  BY InitInd, InitLink
<1>2. IndInv /\ LinkInv /\ [Next]_vars => (IndInv /\ LinkInv)'
  BY NextInd, LinkNext
<1>3. IndInv /\ LinkInv => LinkIsConfigured
  BY PodCIDRAssumption DEF IndInv, MapInv, AllViews, LinkInv, LinkOK, KnownMac,
     LinkIsConfigured, LinkAddrs
<1> QED
  BY <1>1, <1>2, <1>3, PTL DEF Spec

-----------------------------------------------------------------------------
(***************************************************************************)
(* Types.                                                                  *)
(***************************************************************************)

\* The socket holds no more than it has room for, and nothing when it is closed.
SocketInv == Len(queue) <= MaxQueue /\ (~listening => queue = <<>>)

FormInv ==
    /\ BoundInv
    /\ pc \in PC
    /\ plink \in BOOLEAN /\ listening \in BOOLEAN
    /\ pc \notin {"neigh", "del"} => todo = {}
    /\ \A r \in routes : DOMAIN r = {"dst", "gw", "proto"}
    /\ \A f \in fdb : DOMAIN f = {"IP", "HardwareAddr"}
    /\ SocketInv

LEMMA InitForm == Init => FormInv
<1> SUFFICES ASSUME Init PROVE FormInv
  OBVIOUS
<1>1. BoundInv /\ pc \in PC /\ todo = {}
  BY InitBound DEF Init, ProviderInit, PC
<1>2. plink \in BOOLEAN /\ listening \in BOOLEAN
  BY Zenon DEF Init
<1>3. /\ \A r \in routes : DOMAIN r = {"dst", "gw", "proto"}
      /\ \A f \in fdb : DOMAIN f = {"IP", "HardwareAddr"}
  BY InitialKernelsAssumption DEF Init
<1>4. SocketInv
  BY MaxQueueAssumption DEF Init, SocketInv
<1> QED
  BY <1>1, <1>2, <1>3, <1>4, Zenon DEF FormInv

\* A message that is announced finds room, or is lost.
LEMMA AnnouncedFits ==
    ASSUME NEW q \in Seq(Harmless), Len(q) <= MaxQueue, ~listening => q = <<>>, NEW m
    PROVE  LET a == Announced(q, m)
           IN  Len(a) <= MaxQueue /\ (~listening => a = <<>>)
<1>1. CASE listening /\ Len(q) < MaxQueue
  <2>1. Len(Append(q, m)) = Len(q) + 1 /\ Len(q) \in Nat
    OBVIOUS
  <2> QED
    BY <1>1, <2>1, MaxQueueAssumption DEF Announced
<1>2. CASE ~(listening /\ Len(q) < MaxQueue)
  BY <1>2 DEF Announced
<1> QED
  BY <1>1, <1>2

LEMMA SocketNext ==
    ASSUME QueueInv, SocketInv, Watch \/ RespondFails \/ KernelStep \/ NeighSet
    PROVE  SocketInv' /\ listening' = listening
<1>1. queue \in Seq(Harmless)
  BY DEF QueueInv
<1>2. CASE KernelStep \/ NeighSet
  <2>1. listening' = listening /\ \E m : queue' = Announced(queue, m)
    BY <1>2 DEF KernelStep, NeighSet, Expire, Foreign, Traffic, Miss
  <2> QED
    BY <1>1, <2>1, AnnouncedFits DEF SocketInv
<1>3. CASE Watch \/ RespondFails
  <2> DEFINE t == Tail(queue)
  <2>1. /\ queue # <<>> /\ listening' = listening
        /\ queue' = t \/ \E m : queue' = Announced(t, m)
    BY <1>3 DEF Watch, Ignore, Respond, RespondFails
  <2>2. t \in Seq(Harmless) /\ Len(t) = Len(queue) - 1 /\ Len(queue) \in Nat
    BY <1>1, <2>1
  <2>3. Len(t) <= MaxQueue /\ listening
    BY <2>1, <2>2, MaxQueueAssumption DEF SocketInv
  <2> HIDE DEF t
  <2> QED
    BY <2>1, <2>2, <2>3, AnnouncedFits DEF SocketInv
<1> QED
  BY <1>2, <1>3

\* The routes: those the kernel makes for an address, and the one of the overlay.
LEMMA RoutesNext ==
    ASSUME \A r \in routes : DOMAIN r = {"dst", "gw", "proto"}, [Next]_vars
    PROVE  \A r \in routes' : DOMAIN r = {"dst", "gw", "proto"}
<1> DEFINE made == {OverlayRoute, [dst |-> Overlay, gw |-> Nil, proto |-> "kernel"]}
<1>1. \A r \in made : DOMAIN r = {"dst", "gw", "proto"}
  BY DEF OverlayRoute
<1>2. routes' \subseteq routes \cup made
  <2>1. \A l : Connected(l, routes) \subseteq routes \cup made
    BY DEF Connected
  <2>2. CASE \/ LinkAdd \/ LinkSetHardwareAddr \/ LinkSetMTU \/ AddrAdd \/ AddrDel \/ LinkSetUp
             \/ ListenArp
    <3>1. UNCHANGED routes \/ \E l : routes' = Connected(l, routes)
      BY <2>2 DEF LinkAdd, LinkSetHardwareAddr, LinkSetMTU, AddrAdd, AddrDel, LinkSetUp,
         ListenArp, LinkCall, tunnelVars
    <3> HIDE DEF made
    <3> QED
      BY <2>1, <3>1
  <2>3. CASE RouteDel
    BY <2>3 DEF RouteDel
  <2>4. CASE RouteAdd
    BY <2>4 DEF RouteAdd, RouteCreate
  <2>5. CASE UNCHANGED routes
    BY <2>5
  <2> QED
    BY <2>2, <2>3, <2>4, <2>5 DEF Next, vars, tunnelVars, Skip, EnsureStep, Begin, Observe,
       MonitorStart, PlanNeighs, NeighSet, PlanRoutes, Commit, Fatal, Fail, Restart, Exit
<1> HIDE DEF made
<1> QED
  BY <1>1, <1>2

LEMMA NextForm == IndInv /\ FormInv /\ [Next]_vars => FormInv'
<1> SUFFICES ASSUME IndInv, FormInv, [Next]_vars PROVE FormInv'
  OBVIOUS
<1> USE DEF mapVars, provVars, tunnelVars, monitorVars
<1>1. BoundInv'
  <2>1. /\ Change \/ UNCHANGED version
        /\ UNCHANGED restarts \/ (restarts < MaxRestarts /\ restarts' = restarts + 1)
    BY DEF Next, vars, Change, Skip, EnsureStep, Begin, Start, Observe, TakeSnapshot, Enter,
       LinkAdd, LinkSetHardwareAddr, LinkSetMTU, AddrAdd, AddrDel, LinkSetUp, ListenArp,
       MonitorStart, PlanNeighs, NeighSet, PlanRoutes, RouteDel, RouteAdd, Commit, ReturnOK,
       Fatal, Fail, ReturnError, Restart, Exit, ProcessStarts
  <2> QED
    BY <2>1, NextBound DEF IndInv, FormInv
<1>2. pc' \in PC /\ (pc' \notin {"neigh", "del"} => todo' = {})
  BY DEF FormInv, PC, Next, vars, Change, Skip, EnsureStep, Begin, Start, Observe, TakeSnapshot,
     Enter, LinkAdd, LinkSetHardwareAddr, LinkSetMTU, AddrAdd, AddrDel, LinkSetUp, ListenArp,
     LinkCall, MonitorStart, PlanNeighs, NeighSet, PlanRoutes, RouteDel, RouteAdd, Commit,
     ReturnOK, Fatal, Fail, ReturnError, Restart, Exit, ProcessStarts
<1>3. plink' \in BOOLEAN
  <2>1. plink' = TRUE \/ plink' = FALSE \/ plink' = plink
    BY Zenon DEF Next, vars, Skip, EnsureStep, Begin, Observe, LinkAdd, LinkSetHardwareAddr,
       LinkSetMTU, AddrAdd, AddrDel, LinkSetUp, ListenArp, MonitorStart, PlanNeighs, NeighSet,
       PlanRoutes, RouteDel, RouteAdd, Commit, Fatal, Fail, Restart, Exit
  <2>2. plink \in BOOLEAN
    BY Zenon DEF FormInv
  <2> QED
    BY <2>1, <2>2, Zenon
<1>4. SocketInv' /\ listening' \in BOOLEAN
  <2>1. QueueInv /\ SocketInv /\ listening \in BOOLEAN
    BY Zenon DEF IndInv, MonitorInv, FormInv
  <2>2. CASE Watch \/ RespondFails \/ KernelStep \/ NeighSet
    BY <2>1, <2>2, SocketNext, Zenon
  <2>3. CASE MonitorStart
    <3>1. listening' = TRUE /\ queue' = queue
      BY <2>3 DEF MonitorStart
    <3> QED
      BY <2>1, <3>1, Zenon DEF SocketInv
  <2>4. CASE Fatal \/ Restart
    <3>1. listening' = FALSE /\ queue' = <<>>
      BY <2>4 DEF Fatal, Restart, Exit
    <3>2. SocketInv'
      BY <3>1, MaxQueueAssumption DEF SocketInv
    <3> QED
      BY <3>1, <3>2, Zenon
  <2>5. CASE UNCHANGED <<listening, queue>>
    BY <2>1, <2>5, Zenon DEF SocketInv
  <2> QED
    BY <2>2, <2>3, <2>4, <2>5 DEF Next, vars, Skip, EnsureStep, Begin, Observe, LinkAdd,
       LinkSetHardwareAddr, LinkSetMTU, AddrAdd, AddrDel, LinkSetUp, ListenArp, LinkCall,
       PlanNeighs, PlanRoutes, RouteDel, RouteAdd, Commit, Fail
<1>5. \A r \in routes' : DOMAIN r = {"dst", "gw", "proto"}
  BY RoutesNext DEF FormInv
<1>6. \A f \in fdb' : DOMAIN f = {"IP", "HardwareAddr"}
  <2>1. \A f \in Neighs(snap.view) : DOMAIN f = {"IP", "HardwareAddr"}
    BY DEF Neighs, FdbOf
  <2>2. pc = "neigh" => todo \subseteq Neighs(snap.view)
    BY DEF IndInv, PhaseInv
  <2>3. \A f \in fdb' : f \in fdb \/ (pc = "neigh" /\ f \in todo)
    BY DEF Next, vars, Skip, EnsureStep, Begin, Observe, LinkAdd, LinkSetHardwareAddr,
       LinkSetMTU, AddrAdd, AddrDel, LinkSetUp, ListenArp, LinkCall, MonitorStart, PlanNeighs,
       NeighSet, PlanRoutes, RouteDel, RouteAdd, Commit, Fatal, Fail, Restart, Exit
  <2> QED
    BY <2>1, <2>2, <2>3 DEF FormInv
<1> QED
  BY <1>1, <1>2, <1>3, <1>4, <1>5, <1>6, Zenon DEF FormInv

\* The values of all variables, in particular that no call is left over when
\* EnsureCIDRs has returned, and that the socket of the monitor never holds more
\* than it has room for, nor anything once the process has ended.
THEOREM TypesCorrect == Spec => []TypeOK
<1>1. Init => IndInv /\ LinkInv /\ FormInv
  BY InitInd, InitLink, InitForm
<1>2. IndInv /\ LinkInv /\ FormInv /\ [Next]_vars => IndInv' /\ LinkInv' /\ FormInv'
  BY NextInd, LinkNext, NextForm
<1>3. IndInv /\ LinkInv /\ FormInv => TypeOK
  <2> SUFFICES ASSUME IndInv, LinkInv, FormInv PROVE TypeOK
    OBVIOUS
  <2>1. ProviderTypeOK
    BY ProviderTyped DEF IndInv, FormInv
  <2>2. \A a \in arp : DOMAIN a = {"IP", "HardwareAddr"}
    <3>1. \A ip : DOMAIN Answer(ip) = {"IP", "HardwareAddr"}
      BY DEF Answer
    <3>2. \A a \in arp : a = Answer(a.IP)
      BY Zenon DEF IndInv, MonitorInv, ArpInv
    <3> QED
      BY <3>1, <3>2
  <2>3. \A e \in arp \cup fdb : DOMAIN e = {"IP", "HardwareAddr"}
    BY <2>2 DEF FormInv
  <2> QED
    BY <2>1, <2>3, Zenon DEF FormInv, SocketInv, LinkInv, LinkOK, TypeOK
<1> QED
  BY <1>1, <1>2, <1>3, PTL DEF Spec

=============================================================================
