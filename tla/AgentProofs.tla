---------------------------- MODULE AgentProofs ----------------------------
(***************************************************************************)
(* Proofs about the agent, for any cluster, any texts and any bounds.      *)
(***************************************************************************)
EXTENDS Agent, SequenceTheorems, WellFoundedInduction, TLAPS

(***************************************************************************)
(* What NodeInfo.update leaves behind is a NodeInfo.                       *)
(***************************************************************************)

\* The least of a set of texts, which sort.Strings puts first, is one of them.
LEMMA MinIsMember ==
    ASSUME NEW S \in SUBSET Nat, S # {}
    PROVE  Min(S) \in S
<1> DEFINE R == {ss \in Nat \X Nat : ss[1] < ss[2]}
<1>1. IsWellFoundedOn(R, Nat)
  BY NatLessThanWellFounded, Zenon DEF OpToRel
<1>2. PICK x \in S : \A y \in S : <<y, x>> \notin R
  <2> HIDE DEF R
  <2> QED
    BY <1>1, WFMin
<1>3. ASSUME NEW y \in S PROVE x <= y
  <2>1. x \in Nat /\ y \in Nat /\ <<y, x>> \in Nat \X Nat
    OBVIOUS
  <2>2. <<y, x>>[1] = y /\ <<y, x>>[2] = x
    OBVIOUS
  <2>3. ~ (y < x)
    BY <1>2, <2>1, <2>2, Zenon
  <2> QED
    BY <2>1, <2>3
<1> QED
  BY <1>3 DEF Min

\* NodeInfo.update makes a proper NodeInfo of any Node object.
LEMMA InfoOfType ==
    ASSUME NEW src \in Source
    PROVE  InfoOf(src) \in NodeInfo /\ InfoOf(src) # Nil
<1>1. src.PodCIDR \in CidrText /\ src.InternalIPs \in SUBSET AddrText
  BY DEF Source
<1>2. ParseCIDR[src.PodCIDR] \in CIDR \cup {Nil}
  BY <1>1, ConstantTypes
<1>3. address(src) \in IP \cup {Nil}
  <2>1. CASE src.InternalIPs = {}
    BY <2>1 DEF address
  <2>2. CASE src.InternalIPs # {}
    <3>1. Min(src.InternalIPs) \in AddrText
      BY <1>1, <2>2, MinIsMember, ConstantTypes
    <3> QED
      BY <2>2, <3>1, ConstantTypes DEF address
  <2> QED
    BY <2>1, <2>2
<1>4. networkAvailable(src) \in BOOLEAN
  BY DEF networkAvailable
<1> QED
  BY <1>2, <1>3, <1>4, NilIsNoRecord DEF InfoOf, NodeInfo

-----------------------------------------------------------------------------
(***************************************************************************)
(* The inductive invariant.                                                *)
(***************************************************************************)

\* An event of the API server is about one node.
HistInv ==
    /\ Len(hist) >= 1
    /\ \A i \in 1 .. Len(hist) - 1 :
          /\ hist[i + 1].name \in Node
          /\ \A n \in Node : n # hist[i + 1].name => hist[i + 1].objs[n] = hist[i].objs[n]

\* How far the node controller has got.
PosInv ==
    /\ ready => pos > 0
    /\ cpc # "wait" => ready
    /\ wpc \in {"unready", "startwatch", "watching", "updating"} => pos > 0
    /\ wpc \in {"listed", "replacing"} => at > 0 /\ at >= pos
    /\ wpc = "updating" => pos < Len(hist) /\ Event.objs[Event.name] # Nil
    /\ wpc # "replacing" => cur = Nil
    /\ wpc = "replacing" => /\ \A n \in todo : Listed[n] # Nil
                            /\ cur # Nil => cur \in todo

\* Node n is between the two steps of updateNode(src).
Half(n, src) ==
    /\ nodes[n] # Nil
    /\ nodes[n].PodCIDR = InfoOf(src).PodCIDR
    /\ nodes[n].Address = InfoOf(src).Address

\* What agrees with the API while the mutex is held.
MirrorInv ==
    /\ MapMirrorsApi
    /\ wpc = "replacing" =>
          /\ cur # Nil => Half(cur, Listed[cur])
          /\ \A n \in Node \ todo : Listed[n] # Nil => nodes[n] = InfoOf(Listed[n])
    /\ wpc = "updating" =>
          /\ Half(Event.name, Event.objs[Event.name])
          /\ \A n \in Node : n # Event.name => nodes[n] = View(hist[pos].objs)[n]

\* The pointer to the local node leads to a NodeInfo, in the map or beside it.
MeInv ==
    /\ me = Nil => orphan = Nil
    /\ me # Nil => MeInfo # Nil

\* A version stands for one snapshot, except between the two steps of an
\* updateNode that has found a change.
VersionInv ==
    /\ changed => wpc = "updating" \/ cur # Nil
    /\ cpc = "apply" <=> snap # Nil
    /\ cpc \in {"cniwrite", "patch"} => me # Nil
    /\ lastVersionApplied <= version
    /\ lastVersionApplied # 0 /\ lastVersionApplied = version /\ ~changed
          => applied = Snapshot
    /\ cpc \in {"snapshot", "apply"} /\ lastVersionApplied # 0
          => lastVersionApplied < version
    /\ snap # Nil => /\ snap.version <= version
                     /\ snap.version = version /\ ~changed => snap = Snapshot

IndInv == TypeOK /\ HistInv /\ PosInv /\ MirrorInv /\ MeInv /\ VersionInv

-----------------------------------------------------------------------------
(***************************************************************************)
(* The operations of the node map.                                         *)
(***************************************************************************)

\* What a step of the writer owes to the readers: what Snapshot shows only
\* changes with the version, or while changed is set; a local node once found
\* stays.
MapStep ==
    /\ version' \in Nat /\ version' >= version
    /\ me # Nil => me' = me
    /\ version' = version /\ ~changed' => ~changed /\ Snapshot' = Snapshot

\* Only the entry of n changes.
OnlyEntry(n) == \A m \in Node : m # n => nodes'[m] = nodes[m]

\* The first step of updateNode leaves the entry half updated.
LEMMA UpdateSpec ==
    ASSUME MapTypeOK, MeInv, ~changed, NEW n \in Node, NEW src \in Source,
           updateNodeSpec(n, src)
    PROVE  /\ MapTypeOK' /\ MeInv' /\ MapStep
           /\ OnlyEntry(n) /\ Half(n, src)'
<1> DEFINE node == IF nodes[n] = Nil THEN newNodeInfo ELSE nodes[n]
           upd == [node EXCEPT !.PodCIDR = InfoOf(src).PodCIDR,
                               !.Address = InfoOf(src).Address]
<1>1. /\ nodes' = [nodes EXCEPT ![n] = upd]
      /\ changed' = (nodes[n] = Nil \/ upd # node)
      /\ UNCHANGED <<ready, version, me, orphan>>
  BY DEF updateNodeSpec
<1>2. newNodeInfo \in NodeInfo
  BY DEF newNodeInfo, NodeInfo
<1>3. node \in NodeInfo
  BY <1>2 DEF MapTypeOK
<1>4. /\ upd \in NodeInfo
      /\ upd.PodCIDR = InfoOf(src).PodCIDR /\ upd.Address = InfoOf(src).Address
  <2> HIDE DEF node
  <2> QED
    BY <1>3, InfoOfType DEF NodeInfo
<1>5. upd # Nil
  BY <1>4, NilIsNoRecord
<1>6. ~changed' => upd = nodes[n]
  BY <1>1
<1> HIDE DEF upd
<1>7. /\ nodes' \in [Node -> NodeInfo \cup {Nil}]
      /\ nodes'[n] = upd
      /\ OnlyEntry(n)
  BY <1>1, <1>4 DEF MapTypeOK, OnlyEntry
<1>8. MapTypeOK'
  <2>1. changed' \in BOOLEAN
    BY <1>1
  <2> QED
    BY <1>1, <1>7, <2>1 DEF MapTypeOK
<1>9. MeInv'
  BY <1>1, <1>5, <1>7, NilIsNoValue DEF MeInv, MeInfo, OnlyEntry, MapTypeOK
<1>10. MapStep
  <2>1. ~changed' => nodes' = nodes
    BY <1>1, <1>6 DEF MapTypeOK
  <2>2. ~changed' => Snapshot' = Snapshot
    BY <1>1, <2>1 DEF Snapshot, MeInfo
  <2> QED
    BY <1>1, <2>2 DEF MapStep, MapTypeOK
<1> QED
  BY <1>4, <1>5, <1>7, <1>8, <1>9, <1>10 DEF Half

\* The second step completes the entry; the version tells a reader of it.
LEMMA UpdateStatus ==
    ASSUME MapTypeOK, MeInv, NEW n \in Node, NEW src \in Source,
           Half(n, src), updateNodeStatus(n, src)
    PROVE  /\ MapTypeOK' /\ MeInv' /\ MapStep /\ ~changed'
           /\ OnlyEntry(n) /\ nodes'[n] = InfoOf(src)
<1>1. nodes[n] \in NodeInfo
  BY DEF MapTypeOK, Half
<1>2. networkAvailable(src) \in BOOLEAN
  BY DEF networkAvailable
<1> DEFINE upd == [nodes[n] EXCEPT !.NetworkAvailable = networkAvailable(src)]
<1>3. nodes' = [nodes EXCEPT ![n] = upd]
  BY DEF updateNodeStatus
<1>4. upd = InfoOf(src)
  BY <1>1, <1>2 DEF Half, NodeInfo, InfoOf
<1>5. /\ nodes' \in [Node -> NodeInfo \cup {Nil}]
      /\ nodes'[n] = InfoOf(src)
      /\ OnlyEntry(n)
  <2> HIDE DEF upd
  <2> QED
    BY <1>3, <1>4, InfoOfType DEF MapTypeOK, OnlyEntry
<1>6. /\ version' = IF bump(n, src) THEN version + 1 ELSE version
      /\ me' = IF identified(n, src) THEN n ELSE me
      /\ ~changed' /\ changed' \in BOOLEAN
      /\ UNCHANGED <<ready, orphan>>
  BY DEF updateNodeStatus
<1>7. MapTypeOK'
  BY <1>5, <1>6 DEF MapTypeOK
<1>8. MeInv'
  BY <1>5, <1>6, InfoOfType, NilIsNoValue
     DEF MeInv, MeInfo, OnlyEntry, MapTypeOK, identified
<1>9. version' = version => ~changed /\ Snapshot' = Snapshot
  <2> SUFFICES ASSUME version' = version
               PROVE  ~changed /\ Snapshot' = Snapshot
    OBVIOUS
  <2>1. ~bump(n, src)
    BY <1>6 DEF MapTypeOK
  <2>2. /\ ~changed /\ ~identified(n, src)
        /\ nodes[n].NetworkAvailable = networkAvailable(src)
    BY <2>1 DEF bump
  <2>3. upd = nodes[n]
    BY <1>1, <2>2 DEF NodeInfo
  <2>4. nodes' = nodes
    <3> HIDE DEF upd
    <3> QED
      BY <1>3, <2>3 DEF MapTypeOK
  <2> QED
    BY <1>6, <2>2, <2>4 DEF Snapshot, MeInfo
<1>10. MapStep
  BY <1>6, <1>9 DEF MapStep, MapTypeOK, identified
<1> QED
  BY <1>5, <1>6, <1>7, <1>8, <1>10

\* removeNode empties the entry; what me points to stays.
LEMMA Remove ==
    ASSUME MapTypeOK, MeInv, NEW n \in Node, removeNode(n)
    PROVE  /\ MapTypeOK' /\ MeInv' /\ MapStep /\ changed' = changed
           /\ OnlyEntry(n) /\ nodes'[n] = Nil
<1>1. /\ nodes' \in [Node -> NodeInfo \cup {Nil}]
      /\ nodes'[n] = Nil
      /\ OnlyEntry(n)
  BY DEF MapTypeOK, removeNode, OnlyEntry
<1>2. MapTypeOK'
  BY <1>1 DEF MapTypeOK, removeNode
<1>3. MeInv'
  BY <1>1, NilIsNoValue DEF MeInv, MeInfo, MapTypeOK, removeNode, OnlyEntry
<1>4. MapStep
  BY DEF MapStep, MapTypeOK, removeNode
<1> QED
  BY <1>1, <1>2, <1>3, <1>4 DEF removeNode

-----------------------------------------------------------------------------
(***************************************************************************)
(* The API server, and what its writes leave true.                         *)
(***************************************************************************)

\* The history grows, and what there was stays.
Grows ==
    /\ Len(hist') >= Len(hist)
    /\ \A i \in 1 .. Len(hist) : hist'[i] = hist[i]

\* What the history is made of.
LEMMA HistElement ==
    ASSUME WatchTypeOK, NEW i \in 1 .. Len(hist)
    PROVE  hist[i] \in [name : Node \cup {Nil}, objs : Collection]
<1> DEFINE H == [name : Node \cup {Nil}, objs : Collection]
<1>1. hist \in Seq(H)
  BY DEF WatchTypeOK
<1> HIDE DEF H
<1>2. hist[i] \in H
  BY <1>1, ElementOfSeq
<1> QED
  BY <1>2 DEF H

\* A write of one object makes a proper new resource version.
LEMMA PutGrows ==
    ASSUME WatchTypeOK, HistInv, NEW n \in Node, NEW obj \in Source \cup {Nil},
           Put(n, obj)
    PROVE  /\ hist' \in Seq([name : Node \cup {Nil}, objs : Collection])
           /\ HistInv' /\ Grows /\ Len(hist') = Len(hist) + 1
<1> DEFINE H == [name : Node \cup {Nil}, objs : Collection]
           h == [name |-> n, objs |-> [Current EXCEPT ![n] = obj]]
<1>1. hist \in Seq(H) /\ Len(hist) \in Nat /\ Len(hist) >= 1
  BY DEF WatchTypeOK, HistInv
<1>2. hist[Len(hist)] \in H
  BY <1>1, HistElement
<1>3. Current \in Collection
  BY <1>2 DEF Current
<1>4. /\ h \in H /\ h.name = n
      /\ \A m \in Node : m # n => h.objs[m] = Current[m]
  BY <1>3 DEF Collection
<1>5. hist' = Append(hist, h)
  BY DEF Put
<1> HIDE DEF h, H
<1>6. /\ hist' \in Seq(H)
      /\ Len(hist') = Len(hist) + 1
      /\ \A i \in 1 .. Len(hist) : hist'[i] = hist[i]
      /\ hist'[Len(hist) + 1] = h
  BY <1>1, <1>4, <1>5, AppendProperties
<1>7. HistInv'
  <2>1. ASSUME NEW i \in 1 .. Len(hist') - 1
        PROVE  /\ hist'[i + 1].name \in Node
               /\ \A m \in Node : m # hist'[i + 1].name =>
                     hist'[i + 1].objs[m] = hist'[i].objs[m]
    <3>1. CASE i = Len(hist)
      <4>1. hist'[i + 1] = h /\ hist'[i] = hist[Len(hist)]
        BY <1>1, <1>6, <3>1
      <4> QED
        BY <1>4, <4>1 DEF Current
    <3>2. CASE i # Len(hist)
      <4>1. i \in 1 .. Len(hist) - 1 /\ i + 1 \in 1 .. Len(hist)
        BY <1>1, <1>6, <3>2
      <4>2. hist'[i + 1] = hist[i + 1] /\ hist'[i] = hist[i]
        BY <1>1, <1>6, <4>1
      <4> QED
        BY <4>1, <4>2 DEF HistInv
    <3> QED
      BY <3>1, <3>2
  <2> QED
    BY <1>1, <1>6, <2>1 DEF HistInv
<1> QED
  BY <1>1, <1>6, <1>7 DEF Grows, H

\* A step of the API server or of the routing controller disturbs nothing that
\* holds of the node controller and its map.
LEMMA WatchKeeps ==
    ASSUME MapTypeOK, WatchTypeOK, HistInv, PosInv, MirrorInv, MeInv,
           UNCHANGED <<mapVars, watchVars>>, Grows, cpc' # "wait" => ready,
           hist' \in Seq([name : Node \cup {Nil}, objs : Collection])
    PROVE  MapTypeOK' /\ WatchTypeOK' /\ PosInv' /\ MirrorInv' /\ MeInv'
<1>1. UNCHANGED <<ready, nodes, version, me, orphan, changed, wpc, at, todo, cur, pos>>
  BY DEF mapVars, watchVars
<1>2. /\ Len(hist) \in Nat /\ Len(hist') \in Nat /\ Len(hist') >= Len(hist)
      /\ pos \in 0 .. Len(hist) /\ at \in 0 .. Len(hist)
  BY DEF WatchTypeOK, Grows
<1>3. MapTypeOK' /\ MeInv'
  BY <1>1 DEF MapTypeOK, MeInv, MeInfo
<1>4. WatchTypeOK'
  BY <1>1, <1>2 DEF WatchTypeOK
<1>5. pos > 0 => hist'[pos'] = hist[pos]
  BY <1>1, <1>2 DEF Grows
<1>6. at > 0 => Listed' = Listed
  BY <1>1, <1>2 DEF Grows, Listed
<1>7. wpc = "updating" => pos > 0 /\ pos < Len(hist) /\ Event' = Event
  BY <1>1, <1>2 DEF Grows, Event, PosInv
<1>8. PosInv'
  BY <1>1, <1>2, <1>6, <1>7 DEF PosInv
<1>9. MapMirrorsApi'
  BY <1>1, <1>5 DEF MirrorInv, MapMirrorsApi, Locked, View
<1>10. ASSUME wpc = "replacing"
       PROVE  /\ cur # Nil => Half(cur, Listed[cur])'
              /\ \A n \in Node \ todo : Listed'[n] # Nil => nodes[n] = InfoOf(Listed'[n])
  BY <1>1, <1>6, <1>10 DEF MirrorInv, PosInv, Half
<1>11. ASSUME wpc = "updating"
       PROVE  /\ Half(Event.name, Event.objs[Event.name])'
              /\ \A n \in Node : n # Event'.name => nodes[n] = View(hist'[pos'].objs)[n]
  BY <1>1, <1>5, <1>7, <1>11 DEF MirrorInv, PosInv, Half
<1>12. MirrorInv'
  BY <1>1, <1>9, <1>10, <1>11 DEF MirrorInv
<1> QED
  BY <1>3, <1>4, <1>8, <1>12

\* While the routing controller rests, every step of the writer that keeps to
\* MapStep keeps the meaning of versions.
LEMMA VersionKeeps ==
    ASSUME TypeOK, VersionInv, MapStep, UNCHANGED ctrlVars,
           changed' => wpc' = "updating" \/ cur' # Nil
    PROVE  VersionInv'
<1>1. UNCHANGED <<cpc, snap, lastVersionApplied, applied>>
  BY DEF ctrlVars, provVars
<1>2. /\ version \in Nat /\ version' \in Nat /\ version' >= version
      /\ lastVersionApplied \in Nat
      /\ snap # Nil => snap.version \in Nat
  BY DEF TypeOK, MapTypeOK, MapStep, Snapshots
<1>3. me # Nil => me' # Nil
  BY DEF MapStep
<1>4. ASSUME NEW v \in Nat, v <= version, v = version', ~changed'
      PROVE  v = version /\ ~changed /\ Snapshot' = Snapshot
  BY <1>2, <1>4 DEF MapStep
<1> QED
  BY <1>1, <1>2, <1>3, <1>4 DEF VersionInv

-----------------------------------------------------------------------------
(***************************************************************************)
(* The steps of the node controller.                                       *)
(***************************************************************************)

\* What a step of the node controller has to keep.
WatchKept ==
    /\ MapTypeOK' /\ WatchTypeOK' /\ PosInv' /\ MirrorInv' /\ MeInv' /\ MapStep
    /\ changed' => wpc' = "updating" \/ cur' # Nil

\* A step that leaves the entries alone.
LEMMA MapRests ==
    ASSUME MapTypeOK, MeInv, UNCHANGED <<nodes, version, me, orphan, changed>>
    PROVE  MapStep /\ MeInv'
BY DEF MapTypeOK, MeInv, MeInfo, MapStep, Snapshot

\* List, and the end of a watch: the map is as good as it was.
LEMMA ListKeeps ==
    ASSUME IndInv, UNCHANGED <<cpc, hist>>, List \/ Watch \/ WatchEnds
    PROVE  WatchKept
<1> USE DEF IndInv
<1>1. /\ UNCHANGED <<ready, nodes, version, me, orphan, changed, hist, todo, cur, pos>>
      /\ \/ wpc = "list" /\ wpc' = "listed" /\ at' = Len(hist)
         \/ wpc \in {"startwatch", "watching"} /\ wpc' \in {"list", "watching"} /\ at' = at
  BY DEF List, Watch, WatchEnds, mapVars
<1>2. MapStep /\ MeInv' /\ MapTypeOK'
  BY <1>1, MapRests DEF TypeOK, MapTypeOK
<1>3. Len(hist) \in Nat /\ Len(hist) >= 1 /\ pos \in 0 .. Len(hist) /\ at \in 0 .. Len(hist)
  BY DEF TypeOK, WatchTypeOK, HistInv
<1>4. WatchTypeOK'
  BY <1>1, <1>3 DEF TypeOK, WatchTypeOK, WatchPC
<1>5. PosInv'
  BY <1>1, <1>3 DEF PosInv
<1>6. MapMirrorsApi'
  BY <1>1 DEF MirrorInv, MapMirrorsApi, Locked, View
<1>7. MirrorInv'
  BY <1>1, <1>6 DEF MirrorInv
<1> QED
  BY <1>1, <1>2, <1>4, <1>5, <1>7 DEF WatchKept, VersionInv

\* What a step of ReplaceAllNodes or of an event knows of the objects.
LEMMA ListedType ==
    ASSUME IndInv, wpc \in {"listed", "replacing"}
    PROVE  /\ at \in 1 .. Len(hist) /\ Listed \in Collection
           /\ \A n \in Node : Listed[n] # Nil => Listed[n] \in Source
<1>1. at \in 1 .. Len(hist)
  BY DEF IndInv, TypeOK, WatchTypeOK, PosInv
<1>2. Listed \in Collection
  BY <1>1, HistElement DEF IndInv, TypeOK, Listed
<1> QED
  BY <1>1, <1>2 DEF Collection

\* ReplaceAllNodes takes the mutex.
LEMMA ReplaceLockKeeps ==
    ASSUME IndInv, UNCHANGED cpc, ReplaceLock
    PROVE  WatchKept
<1> USE DEF IndInv
<1>1. /\ UNCHANGED <<ready, nodes, version, me, orphan, changed, hist, at, cur, pos>>
      /\ wpc = "listed" /\ wpc' = "replacing"
      /\ todo' = {n \in Node : Listed[n] # Nil}
  BY DEF ReplaceLock, mapVars
<1>2. MapStep /\ MeInv' /\ MapTypeOK'
  BY <1>1, MapRests DEF TypeOK, MapTypeOK
<1>3. WatchTypeOK'
  BY <1>1 DEF TypeOK, WatchTypeOK, WatchPC
<1>4. cur = Nil /\ Listed' = Listed
  BY <1>1 DEF PosInv, Listed
<1>5. PosInv'
  BY <1>1, <1>4 DEF PosInv
<1>6. MirrorInv'
  BY <1>1, <1>4 DEF MirrorInv, MapMirrorsApi, Locked
<1> QED
  BY <1>1, <1>2, <1>3, <1>5, <1>6 DEF WatchKept, VersionInv

\* ReplaceAllNodes, first step for a listed node.
LEMMA ReplaceUpdateKeeps ==
    ASSUME IndInv, UNCHANGED cpc, NEW n \in Node, ReplaceUpdate(n)
    PROVE  WatchKept
<1> USE DEF IndInv
<1>1. /\ wpc = "replacing" /\ cur = Nil /\ n \in todo
      /\ updateNodeSpec(n, Listed[n])
      /\ cur' = n
      /\ UNCHANGED <<hist, wpc, at, todo, pos>>
  BY DEF ReplaceUpdate
<1>2. Listed[n] \in Source
  BY <1>1, ListedType DEF PosInv
<1>3. MapTypeOK /\ MeInv /\ ~changed
  BY <1>1 DEF TypeOK, VersionInv
<1>4. /\ MapTypeOK' /\ MeInv' /\ MapStep
      /\ OnlyEntry(n) /\ Half(n, Listed[n])'
  <2>1. Listed' = Listed
    BY <1>1 DEF Listed
  <2> QED
    BY <1>1, <1>2, <1>3, <2>1, UpdateSpec DEF Half
<1>5. ready' = ready /\ n # Nil
  BY <1>1, NilIsNoValue DEF updateNodeSpec
<1>6. WatchTypeOK'
  BY <1>1 DEF TypeOK, WatchTypeOK
<1>7. PosInv'
  BY <1>1, <1>5 DEF PosInv, Listed
<1>8. MirrorInv'
  BY <1>1, <1>4 DEF MirrorInv, MapMirrorsApi, Locked, OnlyEntry, Listed, Half
<1> QED
  BY <1>1, <1>4, <1>5, <1>6, <1>7, <1>8 DEF WatchKept

\* ReplaceAllNodes, second step.
LEMMA ReplaceUpdatedKeeps ==
    ASSUME IndInv, UNCHANGED cpc, ReplaceUpdated
    PROVE  WatchKept
<1> USE DEF IndInv
<1>1. /\ wpc = "replacing" /\ cur # Nil
      /\ updateNodeStatus(cur, Listed[cur])
      /\ cur' = Nil
      /\ todo' = todo \ {cur}
      /\ UNCHANGED <<hist, wpc, at, pos>>
  BY DEF ReplaceUpdated
<1>2. cur \in Node /\ cur \in todo /\ Listed[cur] \in Source
  BY <1>1, ListedType DEF PosInv, TypeOK, WatchTypeOK
<1>3. MapTypeOK /\ MeInv /\ Half(cur, Listed[cur])
  BY <1>1 DEF TypeOK, MirrorInv
<1>4. /\ MapTypeOK' /\ MeInv' /\ MapStep /\ ~changed'
      /\ OnlyEntry(cur) /\ nodes'[cur] = InfoOf(Listed[cur])
  BY <1>1, <1>2, <1>3, UpdateStatus
<1>5. ready' = ready
  BY <1>1 DEF updateNodeStatus
<1>6. WatchTypeOK'
  BY <1>1 DEF TypeOK, WatchTypeOK
<1>7. PosInv'
  BY <1>1, <1>5 DEF PosInv, Listed
<1>8. MirrorInv'
  BY <1>1, <1>4 DEF MirrorInv, MapMirrorsApi, Locked, OnlyEntry, Listed
<1> QED
  BY <1>4, <1>6, <1>7, <1>8 DEF WatchKept

\* ReplaceAllNodes removes a node that is not in the list.
LEMMA ReplaceRemoveKeeps ==
    ASSUME IndInv, UNCHANGED cpc, NEW n \in Node, ReplaceRemove(n)
    PROVE  WatchKept
<1> USE DEF IndInv
<1>1. /\ wpc = "replacing" /\ cur = Nil /\ todo = {}
      /\ Listed[n] = Nil
      /\ removeNode(n)
      /\ UNCHANGED <<hist, wpc, at, todo, cur, pos>>
  BY DEF ReplaceRemove, Unlisted, watchVars
<1>2. /\ MapTypeOK' /\ MeInv' /\ MapStep /\ changed' = changed
      /\ OnlyEntry(n) /\ nodes'[n] = Nil
  BY <1>1, Remove DEF TypeOK
<1>3. ready' = ready
  BY <1>1 DEF removeNode
<1>4. WatchTypeOK'
  BY <1>1 DEF TypeOK, WatchTypeOK
<1>5. PosInv'
  BY <1>1, <1>3 DEF PosInv, Listed
<1>6. MirrorInv'
  BY <1>1, <1>2 DEF MirrorInv, MapMirrorsApi, Locked, OnlyEntry, Listed
<1> QED
  BY <1>1, <1>2, <1>4, <1>5, <1>6 DEF WatchKept, VersionInv

\* ReplaceAllNodes returns: the map is what the list was.
LEMMA ReplaceUnlockKeeps ==
    ASSUME IndInv, UNCHANGED cpc, ReplaceUnlock
    PROVE  WatchKept
<1> USE DEF IndInv
<1>1. /\ wpc = "replacing" /\ cur = Nil /\ todo = {} /\ Unlisted = {}
      /\ wpc' = "unready" /\ pos' = at
      /\ UNCHANGED <<ready, nodes, version, me, orphan, changed, hist, at, todo, cur>>
  BY DEF ReplaceUnlock, mapVars
<1>2. MapStep /\ MeInv' /\ MapTypeOK'
  BY <1>1, MapRests DEF TypeOK, MapTypeOK
<1>3. at \in 1 .. Len(hist)
  BY <1>1, ListedType
<1>4. WatchTypeOK'
  BY <1>1, <1>3 DEF TypeOK, WatchTypeOK, WatchPC
<1>5. PosInv'
  BY <1>1, <1>3 DEF PosInv
<1>6. nodes = View(Listed)
  <2>1. nodes = [n \in Node |-> nodes[n]]
    BY DEF TypeOK, MapTypeOK
  <2>2. ASSUME NEW n \in Node
        PROVE  nodes[n] = IF Listed[n] = Nil THEN Nil ELSE InfoOf(Listed[n])
    BY <1>1 DEF MirrorInv, Unlisted
  <2> QED
    BY <2>1, <2>2, Zenon DEF View
<1>7. MirrorInv'
  BY <1>1, <1>6 DEF MirrorInv, MapMirrorsApi, Listed, View
<1> QED
  BY <1>1, <1>2, <1>4, <1>5, <1>7 DEF WatchKept, VersionInv

\* MarkReady.
LEMMA ReadyKeeps ==
    ASSUME IndInv, UNCHANGED cpc, Ready
    PROVE  WatchKept
<1> USE DEF IndInv
<1>1. /\ wpc = "unready" /\ wpc' = "startwatch" /\ ready' = TRUE
      /\ UNCHANGED <<nodes, version, me, orphan, changed, hist, at, todo, cur, pos>>
  BY DEF Ready, MarkReady
<1>2. MapStep /\ MeInv' /\ MapTypeOK'
  BY <1>1, MapRests DEF TypeOK, MapTypeOK
<1>3. WatchTypeOK'
  BY <1>1 DEF TypeOK, WatchTypeOK, WatchPC
<1>4. PosInv'
  BY <1>1 DEF PosInv
<1>5. MapMirrorsApi'
  BY <1>1 DEF MirrorInv, MapMirrorsApi, Locked, View
<1>6. MirrorInv'
  BY <1>1, <1>5 DEF MirrorInv
<1> QED
  BY <1>1, <1>2, <1>3, <1>4, <1>6 DEF WatchKept, VersionInv

\* What a step of the watch knows of its event.
LEMMA EventType ==
    ASSUME IndInv, wpc \in {"watching", "updating"}, pos < Len(hist)
    PROVE  /\ pos \in 1 .. Len(hist) - 1
           /\ Event.name \in Node
           /\ Event.objs[Event.name] \in Source \cup {Nil}
           /\ \A n \in Node : n # Event.name => Event.objs[n] = hist[pos].objs[n]
<1>1. pos \in 1 .. Len(hist) - 1 /\ pos + 1 \in 1 .. Len(hist)
  BY DEF IndInv, TypeOK, WatchTypeOK, PosInv
<1>2. Event.objs \in Collection
  BY <1>1, HistElement DEF IndInv, TypeOK, Event
<1>3. /\ Event.name \in Node
      /\ \A n \in Node : n # Event.name => Event.objs[n] = hist[pos].objs[n]
  BY <1>1 DEF IndInv, HistInv, Event
<1> QED
  BY <1>1, <1>2, <1>3 DEF Collection

\* An event, first step of UpdateNode.
LEMMA EventUpdateKeeps ==
    ASSUME IndInv, UNCHANGED cpc, EventUpdate
    PROVE  WatchKept
<1> USE DEF IndInv
<1> DEFINE name == Event.name
           src == Event.objs[Event.name]
<1>1. /\ wpc = "watching" /\ pos < Len(hist) /\ src # Nil
      /\ updateNodeSpec(name, src)
      /\ wpc' = "updating"
      /\ UNCHANGED <<hist, at, todo, cur, pos>>
  BY DEF EventUpdate
<1>2. name \in Node /\ src \in Source /\ Event' = Event
  BY <1>1, EventType DEF Event
<1>3. MapTypeOK /\ MeInv /\ ~changed
  BY <1>1 DEF TypeOK, VersionInv, PosInv
<1>4. /\ MapTypeOK' /\ MeInv' /\ MapStep
      /\ OnlyEntry(name) /\ Half(name, src)'
  <2> HIDE DEF name, src
  <2>1. name' = name /\ src' = src
    BY <1>2 DEF name, src
  <2> QED
    BY <1>1, <1>2, <1>3, <2>1, UpdateSpec DEF Half
<1>5. ready' = ready
  BY <1>1 DEF updateNodeSpec
<1>6. WatchTypeOK'
  BY <1>1 DEF TypeOK, WatchTypeOK, WatchPC
<1>7. PosInv'
  BY <1>1, <1>2, <1>5 DEF PosInv
<1>8. nodes = View(hist[pos].objs)
  BY <1>1 DEF MirrorInv, MapMirrorsApi, Locked, PosInv
<1>9. MirrorInv'
  BY <1>1, <1>2, <1>4, <1>8 DEF MirrorInv, MapMirrorsApi, Locked, OnlyEntry, View
<1> QED
  BY <1>1, <1>4, <1>6, <1>7, <1>9 DEF WatchKept

\* After an event the map is the view of the next resource version.
LEMMA NextView ==
    ASSUME IndInv, wpc \in {"watching", "updating"}, pos < Len(hist),
           MapTypeOK', OnlyEntry(Event.name),
           nodes'[Event.name] = View(Event.objs)[Event.name],
           \A n \in Node : n # Event.name => nodes[n] = View(hist[pos].objs)[n]
    PROVE  nodes' = View(Event.objs)
<1>1. ASSUME NEW n \in Node PROVE nodes'[n] = View(Event.objs)[n]
  BY EventType DEF OnlyEntry, View
<1>2. nodes' = [n \in Node |-> nodes'[n]]
  BY DEF MapTypeOK
<1>3. View(Event.objs) = [n \in Node |-> View(Event.objs)[n]]
  BY DEF View
<1> QED
  BY <1>1, <1>2, <1>3, Zenon

\* An event, second step of UpdateNode.
LEMMA EventUpdatedKeeps ==
    ASSUME IndInv, UNCHANGED cpc, EventUpdated
    PROVE  WatchKept
<1> USE DEF IndInv
<1>1. /\ wpc = "updating" /\ wpc' = "watching" /\ pos' = pos + 1
      /\ updateNodeStatus(Event.name, Event.objs[Event.name])
      /\ UNCHANGED <<hist, at, todo, cur>>
  BY DEF EventUpdated
<1>2. /\ pos < Len(hist) /\ pos \in 1 .. Len(hist) - 1
      /\ Event.name \in Node /\ Event.objs[Event.name] \in Source
      /\ Event.objs[Event.name] # Nil
  BY <1>1, EventType DEF PosInv
<1>3. MapTypeOK /\ MeInv /\ Half(Event.name, Event.objs[Event.name])
  BY <1>1 DEF TypeOK, MirrorInv
<1>4. /\ MapTypeOK' /\ MeInv' /\ MapStep /\ ~changed'
      /\ OnlyEntry(Event.name) /\ nodes'[Event.name] = InfoOf(Event.objs[Event.name])
  BY <1>1, <1>2, <1>3, UpdateStatus
<1>5. ready' = ready
  BY <1>1 DEF updateNodeStatus
<1>6. WatchTypeOK'
  <2>1. WatchTypeOK
    BY DEF TypeOK
  <2> HIDE DEF IndInv
  <2>2. Len(hist) \in Nat
    BY <2>1 DEF WatchTypeOK
  <2>3. pos + 1 \in 0 .. Len(hist)
    BY <1>2, <2>2
  <2>4. wpc' \in WatchPC
    BY <1>1 DEF WatchPC
  <2> QED
    BY <1>1, <2>1, <2>3, <2>4 DEF WatchTypeOK
<1>7. PosInv'
  <2>1. PosInv
    OBVIOUS
  <2> HIDE DEF IndInv
  <2>2. pos' > 0 /\ cur' = Nil
    BY <1>1, <1>2, <2>1 DEF PosInv
  <2>3. cpc' # "wait" => ready'
    BY <1>5, <2>1 DEF PosInv
  <2> QED
    BY <1>1, <2>2, <2>3 DEF PosInv
<1>8. nodes' = View(Event.objs)
  <2>1. nodes'[Event.name] = View(Event.objs)[Event.name]
    BY <1>2, <1>4 DEF View
  <2>2. \A n \in Node : n # Event.name => nodes[n] = View(hist[pos].objs)[n]
    BY <1>1 DEF MirrorInv
  <2> QED
    BY <1>1, <1>2, <1>4, <2>1, <2>2, NextView
<1>9. MirrorInv'
  BY <1>1, <1>8 DEF MirrorInv, MapMirrorsApi, Event, View
<1> QED
  BY <1>4, <1>6, <1>7, <1>9 DEF WatchKept

\* An event, RemoveNode.
LEMMA EventDeleteKeeps ==
    ASSUME IndInv, UNCHANGED cpc, EventDelete
    PROVE  WatchKept
<1> USE DEF IndInv
<1>1. /\ wpc = "watching" /\ pos < Len(hist) /\ pos' = pos + 1
      /\ Event.objs[Event.name] = Nil
      /\ removeNode(Event.name)
      /\ UNCHANGED <<hist, wpc, at, todo, cur>>
  BY DEF EventDelete
<1>2. pos \in 1 .. Len(hist) - 1 /\ Event.name \in Node
  BY <1>1, EventType
<1>3. /\ MapTypeOK' /\ MeInv' /\ MapStep /\ changed' = changed
      /\ OnlyEntry(Event.name) /\ nodes'[Event.name] = Nil
  BY <1>1, <1>2, Remove DEF TypeOK
<1>4. ready' = ready
  BY <1>1 DEF removeNode
<1>5. WatchTypeOK'
  <2>1. WatchTypeOK
    BY DEF TypeOK
  <2> HIDE DEF IndInv
  <2> QED
    BY <1>1, <1>2, <2>1 DEF WatchTypeOK
<1>6. PosInv'
  <2>1. PosInv
    OBVIOUS
  <2> HIDE DEF IndInv
  <2> QED
    BY <1>1, <1>2, <1>4, <2>1 DEF PosInv
<1>7. nodes' = View(Event.objs)
  <2>1. nodes'[Event.name] = View(Event.objs)[Event.name]
    BY <1>1, <1>2, <1>3 DEF View
  <2>2. MapMirrorsApi
    BY DEF MirrorInv
  <2>3. ~Locked /\ pos > 0
    BY <1>1, <1>2 DEF Locked
  <2>4. nodes = View(hist[pos].objs)
    BY <2>2, <2>3, Zenon DEF MapMirrorsApi
  <2> QED
    BY <1>1, <1>3, <2>1, <2>4, NextView
<1>8. MirrorInv'
  BY <1>1, <1>7 DEF MirrorInv, MapMirrorsApi, Event, View
<1> QED
  BY <1>1, <1>3, <1>5, <1>6, <1>8 DEF WatchKept, VersionInv

\* Every step of the node controller keeps the invariant.
LEMMA WatchStepKeeps ==
    ASSUME IndInv, WatchStep \/ WatchEnds, UNCHANGED <<ctrlVars, restarts>>
    PROVE  IndInv'
<1>1. UNCHANGED <<cpc, snap, lastVersionApplied, applied, arg, cni, restarts>>
  BY DEF ctrlVars, provVars
<1>2. hist' = hist
  BY DEF WatchStep, WatchEnds, List, ReplaceLock, ReplaceUpdate, ReplaceUpdated,
         ReplaceRemove, ReplaceUnlock, Ready, Watch, EventUpdate, EventUpdated,
         EventDelete
<1>3. WatchKept
  <2>1. CASE List \/ Watch \/ WatchEnds
    BY <1>1, <1>2, <2>1, ListKeeps
  <2>2. CASE ReplaceLock
    BY <1>1, <2>2, ReplaceLockKeeps
  <2>3. CASE \E n \in Node : ReplaceUpdate(n)
    BY <1>1, <2>3, ReplaceUpdateKeeps
  <2>4. CASE ReplaceUpdated
    BY <1>1, <2>4, ReplaceUpdatedKeeps
  <2>5. CASE \E n \in Node : ReplaceRemove(n)
    BY <1>1, <2>5, ReplaceRemoveKeeps
  <2>6. CASE ReplaceUnlock
    BY <1>1, <2>6, ReplaceUnlockKeeps
  <2>7. CASE Ready
    BY <1>1, <2>7, ReadyKeeps
  <2>8. CASE EventUpdate
    BY <1>1, <2>8, EventUpdateKeeps
  <2>9. CASE EventUpdated
    BY <1>1, <2>9, EventUpdatedKeeps
  <2>10. CASE EventDelete
    BY <1>1, <2>10, EventDeleteKeeps
  <2> QED
    BY <2>1, <2>2, <2>3, <2>4, <2>5, <2>6, <2>7, <2>8, <2>9, <2>10 DEF WatchStep
<1>4. TypeOK'
  BY <1>1, <1>3 DEF IndInv, TypeOK, WatchKept
<1>5. HistInv'
  BY <1>2 DEF IndInv, HistInv
<1>6. VersionInv'
  BY <1>3, VersionKeeps DEF IndInv, WatchKept
<1> QED
  BY <1>3, <1>4, <1>5, <1>6 DEF IndInv, WatchKept

-----------------------------------------------------------------------------
(***************************************************************************)
(* The steps of the API server and of the routing controller.              *)
(***************************************************************************)

\* A snapshot has the local node, complete or zero, and all nodes.
LEMMA SnapshotType ==
    ASSUME MapTypeOK, MeInv
    PROVE  Snapshot \in Snapshots /\ Snapshot # Nil /\ Snapshot.version = version
<1>1. newNodeInfo \in NodeInfo
  BY DEF newNodeInfo, NodeInfo
<1>2. me # Nil => MeInfo \in NodeInfo
  BY DEF MapTypeOK, MeInv, MeInfo
<1>3. Snapshot \in Snapshots
  BY <1>1, <1>2 DEF MapTypeOK, Snapshot, Snapshots
<1> QED
  BY <1>3, NilIsNoSnapshot DEF Snapshot

\* What a step of the routing controller has to keep.
CtrlKept ==
    /\ cpc' \in CtrlPC
    /\ snap' \in Snapshots \cup {Nil}
    /\ lastVersionApplied' \in Nat
    /\ applied' \in Snapshots \cup {Nil}
    /\ arg' \in CIDR \cup {Nil}
    /\ cni' \in Files
    /\ restarts' = restarts
    /\ cpc' # "wait" => ready
    /\ VersionInv'

\* Waiting for the map, the early return and the start of EnsureCIDRs.
LEMMA EnsureKeeps ==
    ASSUME IndInv, WaitReady \/ EnsureSkip \/ EnsureStart
    PROVE  CtrlKept
<1>1. /\ UNCHANGED <<ready, nodes, version, me, orphan, changed, wpc, cur>>
      /\ UNCHANGED <<snap, lastVersionApplied, applied, arg, cni, restarts>>
      /\ Snapshot' = Snapshot
  BY DEF WaitReady, EnsureSkip, EnsureStart, mapVars, watchVars, provVars, Snapshot, MeInfo
<1>2. /\ cpc \in {"wait", "ensure"} /\ cpc' \in {"ensure", "cni", "snapshot"}
      /\ cpc = "wait" => ready
      /\ cpc' = "snapshot" => lastVersionApplied = 0 \/ lastVersionApplied # version
  BY DEF WaitReady, EnsureSkip, EnsureStart, AlreadyApplied, IsVersion
<1>3. lastVersionApplied \in Nat /\ version \in Nat
  BY DEF IndInv, TypeOK, MapTypeOK
<1>4. VersionInv'
  <2>1. VersionInv
    BY DEF IndInv
  <2> QED
    BY <1>1, <1>2, <1>3, <2>1 DEF VersionInv
<1> QED
  BY <1>1, <1>2, <1>4 DEF CtrlKept, IndInv, TypeOK, CtrlPC, PosInv

\* Snapshot and the checks.
LEMMA TakeSnapshotKeeps ==
    ASSUME IndInv, TakeSnapshot
    PROVE  CtrlKept
<1>1. /\ UNCHANGED <<ready, nodes, version, me, orphan, changed, wpc, cur>>
      /\ UNCHANGED <<lastVersionApplied, arg, cni, restarts>>
      /\ Snapshot' = Snapshot /\ cpc = "snapshot"
      /\ \/ cpc' = "apply" /\ snap' = Snapshot /\ applied' = Nil
         \/ cpc' = "ensure" /\ snap' = snap /\ applied' = applied
  BY DEF TakeSnapshot, mapVars, watchVars, Snapshot, MeInfo
<1>2. Snapshot \in Snapshots /\ Snapshot # Nil /\ Snapshot.version = version
  BY SnapshotType DEF IndInv, TypeOK
<1>3. lastVersionApplied \in Nat /\ version \in Nat
  BY DEF IndInv, TypeOK, MapTypeOK
<1>4. VersionInv'
  BY <1>1, <1>2, <1>3 DEF IndInv, VersionInv
<1> QED
  BY <1>1, <1>2, <1>4 DEF CtrlKept, IndInv, TypeOK, CtrlPC, PosInv

\* The calls to the kernel have succeeded, or one has failed.
LEMMA ApplyKeeps ==
    ASSUME IndInv, Apply \/ ApplyFails
    PROVE  CtrlKept
<1>1. /\ UNCHANGED <<ready, nodes, version, me, orphan, changed, wpc, cur>>
      /\ UNCHANGED <<arg, cni, restarts>>
      /\ Snapshot' = Snapshot /\ cpc = "apply" /\ snap' = Nil
      /\ \/ cpc' = "cni" /\ applied' = snap /\ lastVersionApplied' = snap.version
         \/ cpc' = "ensure" /\ applied' = applied /\ lastVersionApplied' = lastVersionApplied
  BY DEF Apply, ApplyFails, mapVars, watchVars, Snapshot, MeInfo
<1>2. snap \in Snapshots /\ snap # Nil /\ snap.version \in Nat
  BY <1>1 DEF IndInv, VersionInv, TypeOK, Snapshots
<1>3. lastVersionApplied \in Nat /\ version \in Nat
  BY DEF IndInv, TypeOK, MapTypeOK
<1>4. VersionInv'
  BY <1>1, <1>2, <1>3 DEF IndInv, VersionInv
<1> QED
  BY <1>1, <1>2, <1>4 DEF CtrlKept, IndInv, TypeOK, CtrlPC, PosInv

\* The CNI config, the condition of the node and its patch.
LEMMA ReportKeeps ==
    ASSUME IndInv,
           \/ CniRead \/ CniWrite \/ CniWriteFails
           \/ Condition \/ Patch \/ PatchFails
    PROVE  CtrlKept
<1>1. /\ UNCHANGED <<ready, nodes, version, me, orphan, changed, wpc, cur>>
      /\ UNCHANGED <<snap, lastVersionApplied, applied, restarts>>
      /\ Snapshot' = Snapshot
  BY DEF CniRead, CniWrite, CniWriteFails, Condition, Patch, PatchFails,
         mapVars, watchVars, provVars, Snapshot, MeInfo
<1>2. /\ cpc \in {"cni", "cniwrite", "condition", "patch"}
      /\ cpc' \in {"cniwrite", "condition", "patch", "ensure"}
      /\ cpc' \in {"cniwrite", "patch"} => me # Nil
  BY DEF CniRead, CniWrite, CniWriteFails, Condition, Patch, PatchFails
<1>3. VersionInv'
  BY <1>1, <1>2 DEF IndInv, VersionInv
<1>4. me # Nil => MeInfo.PodCIDR \in CIDR \cup {Nil}
  BY DEF IndInv, TypeOK, MapTypeOK, MeInv, MeInfo, NodeInfo
<1>5. arg' \in CIDR \cup {Nil}
  BY <1>4 DEF CniRead, CniWrite, CniWriteFails, Condition, Patch, PatchFails,
              IndInv, TypeOK
<1>6. cni' \in Files
  BY DEF CniRead, CniWrite, CniWriteFails, Condition, Patch, PatchFails, CniTorn,
         cniConfig, IndInv, TypeOK, Files
<1> QED
  BY <1>1, <1>2, <1>3, <1>5, <1>6 DEF CtrlKept, IndInv, TypeOK, CtrlPC, PosInv

\* The history after a step of the routing controller: only a patch writes.
LEMMA CtrlGrows ==
    ASSUME IndInv, CtrlStep
    PROVE  /\ UNCHANGED <<mapVars, watchVars>>
           /\ hist' \in Seq([name : Node \cup {Nil}, objs : Collection])
           /\ HistInv' /\ Grows
<1>1. UNCHANGED <<mapVars, watchVars>>
  BY DEF CtrlStep, WaitReady, EnsureSkip, EnsureStart, TakeSnapshot, Apply, ApplyFails,
         CniRead, CniWrite, CniWriteFails, Condition, Patch, PatchFails
<1>2. CASE hist' = hist
  <2>1. WatchTypeOK /\ HistInv
    BY DEF IndInv, TypeOK
  <2>2. Grows
    BY <1>2, <2>1 DEF WatchTypeOK, Grows
  <2> QED
    BY <1>1, <1>2, <2>1, <2>2 DEF WatchTypeOK, HistInv
<1>3. CASE hist' # hist
  <2>1. /\ cpc = "patch" /\ Current[me] # Nil
        /\ Put(me, [Current[me] EXCEPT !.NetworkUnavailable = "False"])
    BY <1>3 DEF CtrlStep, WaitReady, EnsureSkip, EnsureStart, TakeSnapshot, Apply,
                ApplyFails, CniRead, CniWrite, CniWriteFails, Condition, Patch, PatchFails
  <2>2. me \in Node
    BY <2>1 DEF IndInv, VersionInv, TypeOK, MapTypeOK
  <2>3. Len(hist) \in 1 .. Len(hist)
    BY DEF IndInv, HistInv, TypeOK, WatchTypeOK
  <2>4. Current \in Collection
    BY <2>3, HistElement DEF IndInv, TypeOK, Current
  <2>5. [Current[me] EXCEPT !.NetworkUnavailable = "False"] \in Source
    BY <2>1, <2>2, <2>4 DEF Collection, Source, Status
  <2> QED
    BY <1>1, <2>1, <2>2, <2>5, PutGrows DEF IndInv, TypeOK
<1> QED
  BY <1>1, <1>2, <1>3

\* Every step of the routing controller keeps the invariant.
LEMMA CtrlStepKeeps ==
    ASSUME IndInv, CtrlStep
    PROVE  IndInv'
<1>1. CtrlKept
  BY EnsureKeeps, TakeSnapshotKeeps, ApplyKeeps, ReportKeeps DEF CtrlStep
<1>2. /\ UNCHANGED <<mapVars, watchVars>>
      /\ hist' \in Seq([name : Node \cup {Nil}, objs : Collection])
      /\ HistInv' /\ Grows
  BY CtrlGrows
<1>3. MapTypeOK' /\ WatchTypeOK' /\ PosInv' /\ MirrorInv' /\ MeInv'
  BY <1>1, <1>2, WatchKeeps DEF IndInv, TypeOK, CtrlKept
<1>4. TypeOK'
  BY <1>1, <1>3 DEF IndInv, TypeOK, CtrlKept
<1> QED
  BY <1>1, <1>2, <1>3, <1>4 DEF IndInv, CtrlKept

\* So does every write of another client of the API server.
LEMMA ApiWriteKeeps ==
    ASSUME IndInv, NEW n \in Node, ApiWrite(n), UNCHANGED <<ctrlVars, restarts>>
    PROVE  IndInv' /\ Grows /\ Len(hist') = Len(hist) + 1
<1>1. PICK obj \in Source \cup {Nil} : Put(n, obj)
  BY ApiTypes DEF ApiWrite
<1>2. UNCHANGED <<mapVars, watchVars>>
  BY DEF ApiWrite
<1>3. /\ hist' \in Seq([name : Node \cup {Nil}, objs : Collection])
      /\ HistInv' /\ Grows /\ Len(hist') = Len(hist) + 1
  BY <1>1, PutGrows DEF IndInv, TypeOK
<1>4. UNCHANGED <<cpc, snap, lastVersionApplied, applied, arg, cni, restarts>>
  BY DEF ctrlVars, provVars
<1>5. MapTypeOK' /\ WatchTypeOK' /\ PosInv' /\ MirrorInv' /\ MeInv'
  BY <1>2, <1>3, <1>4, WatchKeeps DEF IndInv, TypeOK, PosInv
<1>6. TypeOK'
  BY <1>4, <1>5 DEF IndInv, TypeOK
<1>7. VersionInv'
  <2>1. UNCHANGED <<nodes, version, me, orphan, changed, wpc, cur>>
    BY <1>2 DEF mapVars, watchVars
  <2>2. MapStep
    BY <2>1, MapRests DEF IndInv, TypeOK
  <2> QED
    BY <2>1, <2>2, VersionKeeps DEF IndInv, VersionInv
<1> QED
  BY <1>3, <1>5, <1>6, <1>7 DEF IndInv

\* The invariant holds of a process that has just started, whatever it finds.
LEMMA StartHolds ==
    ASSUME NewNodeMap, WatchInit, cpc = "wait", snap = Nil, lastVersionApplied = 0,
           arg = Nil, restarts \in 0 .. MaxRestarts, HistInv,
           hist \in Seq([name : Node \cup {Nil}, objs : Collection]),
           applied \in Snapshots \cup {Nil}, cni \in Files
    PROVE  IndInv
<1>1. TypeOK
  <2>1. Len(hist) \in Nat
    OBVIOUS
  <2>2. MapTypeOK
    BY DEF NewNodeMap, MapTypeOK
  <2>3. WatchTypeOK
    BY <2>1 DEF WatchInit, WatchTypeOK, WatchPC
  <2> QED
    BY <2>2, <2>3 DEF TypeOK, CtrlPC
<1>2. PosInv /\ MirrorInv /\ MeInv
  <2>1. PosInv
    BY DEF NewNodeMap, WatchInit, PosInv
  <2>2. MirrorInv
    <3>1. pos = 0 /\ wpc = "list"
      BY DEF WatchInit
    <3>2. MapMirrorsApi
      BY <3>1 DEF MapMirrorsApi
    <3> QED
      BY <3>1, <3>2 DEF MirrorInv
  <2>3. MeInv
    BY DEF NewNodeMap, MeInv
  <2> QED
    BY <2>1, <2>2, <2>3
<1>3. VersionInv
  BY DEF NewNodeMap, VersionInv
<1> QED
  BY <1>1, <1>2, <1>3 DEF IndInv

\* The invariant holds at first.
LEMMA InitHolds == Init => IndInv
<1> SUFFICES ASSUME Init PROVE IndInv
  OBVIOUS
<1>1. PICK objs \in InitialObjects : hist = <<[name |-> Nil, objs |-> objs]>>
  BY DEF Init, ApiInit
<1>2. objs \in Collection
  BY <1>1, ApiTypes
<1>3. HistInv /\ hist \in Seq([name : Node \cup {Nil}, objs : Collection])
  <2> DEFINE H == [name : Node \cup {Nil}, objs : Collection]
             h == [name |-> Nil, objs |-> objs]
  <2>1. h \in H
    BY <1>2
  <2>2. hist = <<h>>
    BY <1>1
  <2> HIDE DEF H, h
  <2>3. hist \in Seq(H) /\ Len(hist) = 1
    BY <2>1, <2>2
  <2>4. HistInv
    BY <2>3 DEF HistInv
  <2> QED
    BY <2>3, <2>4 DEF H
<1>4. 0 \in 0 .. MaxRestarts
  BY AgentTypes
<1> QED
  BY <1>3, <1>4, StartHolds DEF Init, Files

\* A restart brings it back.
LEMMA RestartKeeps ==
    ASSUME IndInv, Restart
    PROVE  IndInv'
<1>1. /\ NewNodeMap' /\ WatchInit' /\ cpc' = "wait" /\ snap' = Nil
      /\ lastVersionApplied' = 0 /\ arg' = Nil
      /\ hist' = hist /\ applied' = applied
  BY DEF Restart, NewNodeMap, WatchInit
<1>2. restarts' \in 0 .. MaxRestarts
  BY AgentTypes DEF Restart, IndInv, TypeOK
<1>3. cni' \in Files
  <2>1. cni \in Files
    BY DEF IndInv, TypeOK
  <2> QED
    BY <2>1 DEF Restart, CniTorn, Files
<1>4. HistInv'
  BY <1>1 DEF IndInv, HistInv
<1>5. /\ hist' \in Seq([name : Node \cup {Nil}, objs : Collection])
      /\ applied' \in Snapshots \cup {Nil}
  BY <1>1 DEF IndInv, TypeOK, WatchTypeOK
<1>6. TypeOK'
  <2>1. Len(hist') \in Nat
    BY <1>5
  <2>2. MapTypeOK'
    BY <1>1 DEF NewNodeMap, MapTypeOK
  <2>3. WatchTypeOK'
    BY <1>1, <1>5, <2>1 DEF WatchInit, WatchTypeOK, WatchPC
  <2> QED
    BY <1>1, <1>2, <1>3, <1>5, <2>2, <2>3 DEF TypeOK, CtrlPC
<1>7. PosInv' /\ MirrorInv' /\ MeInv'
  <2>1. PosInv'
    BY <1>1 DEF NewNodeMap, WatchInit, PosInv
  <2>2. MirrorInv'
    <3>1. pos' = 0 /\ wpc' = "list"
      BY <1>1 DEF WatchInit
    <3>2. MapMirrorsApi'
      BY <3>1 DEF MapMirrorsApi
    <3> QED
      BY <3>1, <3>2 DEF MirrorInv
  <2>3. MeInv'
    BY <1>1 DEF NewNodeMap, MeInv
  <2> QED
    BY <2>1, <2>2, <2>3
<1>8. VersionInv'
  BY <1>1 DEF NewNodeMap, VersionInv
<1> QED
  BY <1>4, <1>6, <1>7, <1>8 DEF IndInv

-----------------------------------------------------------------------------
(***************************************************************************)
(* The theorems.                                                           *)
(***************************************************************************)

\* Every step of the agent and of its environment keeps the invariant.
LEMMA NextKeeps == IndInv /\ [Next]_vars => IndInv'
<1> SUFFICES ASSUME IndInv, [Next]_vars PROVE IndInv'
  OBVIOUS
<1>1. CASE \E n \in Node : ApiWrite(n) /\ UNCHANGED <<ctrlVars, restarts>>
  BY <1>1, ApiWriteKeeps
<1>2. CASE (WatchStep \/ WatchEnds) /\ UNCHANGED <<ctrlVars, restarts>>
  BY <1>2, WatchStepKeeps
<1>3. CASE CtrlStep
  BY <1>3, CtrlStepKeeps
<1>4. CASE Restart
  BY <1>4, RestartKeeps
<1>5. CASE UNCHANGED vars
  <2>1. UNCHANGED <<ready, nodes, version, me, orphan, changed, hist, wpc, at, todo,
                    cur, pos, cpc, snap, lastVersionApplied, applied, arg, cni, restarts>>
    BY <1>5 DEF vars, mapVars, watchVars, ctrlVars, provVars
  <2>2. TypeOK'
    BY <2>1 DEF IndInv, TypeOK, MapTypeOK, WatchTypeOK
  <2>3. HistInv' /\ PosInv'
    BY <2>1 DEF IndInv, HistInv, PosInv, Event, Listed
  <2>4. MirrorInv'
    BY <2>1 DEF IndInv, MirrorInv, MapMirrorsApi, Locked, Half, Event, Listed, View
  <2>5. MeInv' /\ VersionInv'
    BY <2>1 DEF IndInv, MeInv, MeInfo, VersionInv, Snapshot
  <2> QED
    BY <2>2, <2>3, <2>4, <2>5 DEF IndInv
<1> QED
  BY <1>1, <1>2, <1>3, <1>4, <1>5 DEF Next

\* The agent never leaves the states the invariant describes.
THEOREM Invariance == Spec => []IndInv
BY InitHolds, NextKeeps, PTL DEF Spec

\* Every variable of the agent stays in its type: no entry of the map, no
\* snapshot and no file is ever anything but complete (type correctness).
THEOREM TypeCorrect == Spec => []TypeOK
<1>1. IndInv => TypeOK
  BY DEF IndInv
<1> QED
  BY <1>1, Invariance, PTL

\* Whenever the mutex is free the node map is the view of one resource version,
\* for every history of the API server and every way the watch ends.
THEOREM Mirror == Spec => []MapMirrorsApi
<1>1. IndInv => MapMirrorsApi
  BY DEF IndInv, MirrorInv
<1> QED
  BY <1>1, Invariance, PTL

\* The early return of EnsureCIDRs never skips a change: if the version is the
\* one applied last, the kernel was configured for what the map has now.
THEOREM SkipSafe == Spec => []SkipIsSafe
<1>1. IndInv => SkipIsSafe
  <2> SUFFICES ASSUME IndInv, lastVersionApplied # 0, ~Locked, IsVersion(lastVersionApplied)
               PROVE  applied = Snapshot
    BY DEF SkipIsSafe, AlreadyApplied
  <2>1. ~changed
    BY DEF IndInv, VersionInv, PosInv, Locked
  <2> QED
    BY <2>1 DEF IndInv, VersionInv, IsVersion
<1> QED
  BY <1>1, Invariance, PTL

\* The unlocked uses of NodeMap.me never meet a nil pointer.
THEOREM MeValid == Spec => []MeStaysValid
<1>1. IndInv => MeStaysValid
  BY DEF IndInv, MeInv, VersionInv, MeStaysValid
<1> QED
  BY <1>1, Invariance, PTL

-----------------------------------------------------------------------------
(***************************************************************************)
(* The agent implements NodeSync.                                          *)
(***************************************************************************)

\* A step that only moves the node controller forward advances NodeSync.
LEMMA AdvanceRefines ==
    ASSUME IndInv, UNCHANGED <<hist, snap>>, pos' \in pos .. Len(hist)
    PROVE  [Sync!Next]_(Sync!syncVars)
<1>1. pos \in Nat /\ Len(hist) \in Nat
  BY DEF IndInv, TypeOK, WatchTypeOK
<1>2. CASE pos' = pos
  BY <1>2 DEF Sync!syncVars
<1>3. CASE pos' # pos
  BY <1>1, <1>3 DEF Sync!Next, Sync!Advance
<1> QED
  BY <1>2, <1>3

\* A write to the API server is a Write of NodeSync.
LEMMA WriteRefines ==
    ASSUME Grows, Len(hist') = Len(hist) + 1, UNCHANGED <<pos, snap>>
    PROVE  Sync!Next
BY DEF Grows, Sync!Next, Sync!Write

\* Steps of the node controller.
LEMMA WatchRefines ==
    ASSUME IndInv, WatchStep \/ WatchEnds, UNCHANGED <<ctrlVars, restarts>>
    PROVE  [Sync!Next]_(Sync!syncVars)
<1>1. snap' = snap
  BY DEF ctrlVars, provVars
<1>2. hist' = hist
  BY DEF WatchStep, WatchEnds, List, ReplaceLock, ReplaceUpdate, ReplaceUpdated,
         ReplaceRemove, ReplaceUnlock, Ready, Watch, EventUpdate, EventUpdated,
         EventDelete
<1>3. /\ pos \in 0 .. Len(hist) /\ Len(hist) \in Nat /\ at \in 0 .. Len(hist)
      /\ wpc = "replacing" => at >= pos
      /\ wpc = "updating" => pos < Len(hist)
  <2>1. WatchTypeOK /\ PosInv
    BY DEF IndInv, TypeOK
  <2> QED
    BY <2>1 DEF WatchTypeOK, PosInv
<1>4. \/ pos' = pos
      \/ wpc = "replacing" /\ pos' = at
      \/ pos' = pos + 1 /\ (wpc = "updating" \/ pos < Len(hist))
  <2>1. CASE ReplaceUnlock
    BY <2>1 DEF ReplaceUnlock
  <2>2. CASE EventUpdated \/ EventDelete
    BY <2>2 DEF EventUpdated, EventDelete
  <2>3. CASE \/ List \/ ReplaceLock \/ ReplaceUpdated \/ Ready \/ Watch
             \/ EventUpdate \/ WatchEnds
    BY <2>3 DEF List, ReplaceLock, ReplaceUpdated, Ready, Watch, EventUpdate, WatchEnds
  <2>4. CASE \E n \in Node : ReplaceUpdate(n) \/ ReplaceRemove(n)
    BY <2>4 DEF ReplaceUpdate, ReplaceRemove, watchVars
  <2> QED
    BY <2>1, <2>2, <2>3, <2>4 DEF WatchStep
<1>5. pos' \in pos .. Len(hist)
  BY <1>3, <1>4
<1> QED
  BY <1>1, <1>2, <1>5, AdvanceRefines

\* Steps of the routing controller: a snapshot is the view of one version.
LEMMA CtrlRefines ==
    ASSUME IndInv, CtrlStep
    PROVE  [Sync!Next]_(Sync!syncVars)
<1>1. pos' = pos
  BY CtrlGrows DEF watchVars
<1>2. CASE TakeSnapshot /\ snap' = Snapshot
  <2>1. hist' = hist
    BY <1>2 DEF TakeSnapshot
  <2>2. pos > 0 /\ nodes = View(hist[pos].objs)
    BY <1>2 DEF TakeSnapshot, IndInv, PosInv, MirrorInv, MapMirrorsApi
  <2>3. Snapshot # Nil /\ Snapshot.nodes = nodes
    BY SnapshotType DEF IndInv, TypeOK, Snapshot
  <2>4. Sync!Observe
    BY <1>1, <1>2, <2>1, <2>2, <2>3 DEF Sync!Observe
  <2> QED
    BY <2>4 DEF Sync!Next
<1>3. CASE Apply \/ ApplyFails
  <2>1. hist' = hist /\ snap' = Nil
    BY <1>3 DEF Apply, ApplyFails
  <2>2. Sync!Return
    BY <1>1, <2>1 DEF Sync!Return
  <2> QED
    BY <2>2 DEF Sync!Next
<1>4. CASE Patch
  <2>1. snap' = snap
    BY <1>4 DEF Patch, provVars
  <2>2. CASE hist' = hist
    BY <1>1, <2>1, <2>2 DEF Sync!syncVars
  <2>3. CASE hist' # hist
    <3>1. Len(hist') = Len(hist) + 1
      <4> DEFINE H == [name : Node \cup {Nil}, objs : Collection]
      <4>1. PICK h : hist' = Append(hist, h)
        BY <1>4, <2>3 DEF Patch, Put
      <4>2. hist \in Seq(H)
        BY DEF IndInv, TypeOK, WatchTypeOK
      <4> HIDE DEF H
      <4> QED
        BY <4>1, <4>2
    <3> QED
      BY <1>1, <2>1, <3>1, CtrlGrows, WriteRefines
  <2> QED
    BY <2>2, <2>3
<1>5. CASE UNCHANGED <<hist, snap>>
  BY <1>1, <1>5 DEF Sync!syncVars
<1>6. \/ TakeSnapshot /\ snap' = Snapshot
      \/ Apply \/ ApplyFails \/ Patch
      \/ UNCHANGED <<hist, snap>>
  BY DEF CtrlStep, WaitReady, EnsureSkip, EnsureStart, TakeSnapshot, CniRead, CniWrite,
         CniWriteFails, Condition, PatchFails, provVars
<1> QED
  BY <1>2, <1>3, <1>4, <1>5, <1>6

\* The agent implements NodeSync: what a provider works with is always the view
\* of one whole resource version, and never of an earlier one than before.
THEOREM Refinement == Spec => ImplementsNodeSync
<1>1. Init => Sync!Init
  BY DEF Init, ApiInit, WatchInit, Sync!Init
<1>2. IndInv /\ [Next]_vars => [Sync!Next]_(Sync!syncVars)
  <2> SUFFICES ASSUME IndInv, [Next]_vars PROVE [Sync!Next]_(Sync!syncVars)
    OBVIOUS
  <2>1. CASE \E n \in Node : ApiWrite(n) /\ UNCHANGED <<ctrlVars, restarts>>
    <3>1. UNCHANGED <<pos, snap>>
      BY <2>1 DEF ApiWrite, watchVars, ctrlVars, provVars
    <3> QED
      BY <2>1, <3>1, ApiWriteKeeps, WriteRefines
  <2>2. CASE (WatchStep \/ WatchEnds) /\ UNCHANGED <<ctrlVars, restarts>>
    BY <2>2, WatchRefines
  <2>3. CASE CtrlStep
    BY <2>3, CtrlRefines
  <2>4. CASE Restart
    BY <2>4 DEF Restart, Sync!Next, Sync!Restart
  <2>5. CASE UNCHANGED vars
    BY <2>5 DEF vars, watchVars, ctrlVars, provVars, Sync!syncVars
  <2> QED
    BY <2>1, <2>2, <2>3, <2>4, <2>5 DEF Next
<1> QED
  BY <1>1, <1>2, Invariance, PTL DEF Spec, ImplementsNodeSync, Sync!Spec

=============================================================================
