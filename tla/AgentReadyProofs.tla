-------------------------- MODULE AgentReadyProofs --------------------------
(***************************************************************************)
(* Proofs about what the agent reports: the node is marked ready, and the  *)
(* CNI config written, for the PodCIDR that the kernel was configured with *)
(* and that the local node still has, although the routing controller      *)
(* reads NodeMap.me again, without the mutex, long after its snapshot.     *)
(***************************************************************************)
EXTENDS AgentProofs

(***************************************************************************)
(* The inductive invariant, on top of IndInv.                              *)
(***************************************************************************)

\* The nodes whose object stays once it is there.
Kept == Node \ Deletable

\* What a PodCIDR a parses to stays when it is a network.
Keeps(a, b) == a # Nil => b = a

\* At a later version a kept node is still there, with the PodCIDR it had.
Stays(old, new) ==
    old # Nil => new # Nil /\ Keeps(InfoOf(old).PodCIDR, InfoOf(new).PodCIDR)

\* The versions of the API server, of any distance.
KeptInv ==
    /\ \A i, j \in 1 .. Len(hist) : i <= j =>
          \A n \in Kept : Stays(hist[i].objs[n], hist[j].objs[n])
    /\ \A i \in 1 .. Len(hist) : \A n \in Deletable :
          hist[i].objs[n] # Nil => ~mePredicate(hist[i].objs[n])

\* The newest version that any entry of the map was taken from.
Front == IF wpc = "replacing" THEN at ELSE IF wpc = "updating" THEN pos + 1 ELSE pos

\* An entry has the PodCIDR of an object of a version up to Front: also in the
\* middle of ReplaceAllNodes, when the entries are of different versions.
EntryInv ==
    \A n \in Kept : nodes[n] # Nil =>
        \E i \in 1 .. Front : /\ hist[i].objs[n] # Nil
                              /\ nodes[n].PodCIDR = InfoOf(hist[i].objs[n]).PodCIDR

\* The local node is a kept one, so NodeMap.me never leaves the map.
SelfInv == orphan = Nil /\ (me # Nil => me \in Kept)

\* The PodCIDR c is that of the local node.
Mine(c) == c # Nil /\ me # Nil /\ MeInfo.PodCIDR = c

\* What the routing controller works with, from its snapshot on.
ConfiguredInv ==
    RequireSelf =>
        /\ snap # Nil => Mine(snap.me.PodCIDR)
        /\ lastVersionApplied # 0 /\ applied # Nil => Mine(applied.me.PodCIDR)
        /\ cpc \in {"cni", "cniwrite", "condition", "patch"} =>
              applied # Nil /\ Mine(applied.me.PodCIDR)
        /\ cpc = "cniwrite" => Mine(arg)
        /\ cpc \in {"condition", "patch"} /\ HasCNI => cni = cniConfig(MeInfo.PodCIDR)
        /\ cni.state = "written" => cni.subnet # Nil

ReadyInv == KeptInv /\ EntryInv /\ SelfInv /\ ConfiguredInv

-----------------------------------------------------------------------------
(***************************************************************************)
(* The API server: a Node object that stays keeps its PodCIDR.             *)
(***************************************************************************)

LEMMA StaysTransitive ==
    ASSUME NEW a, NEW b, NEW c, Stays(a, b), Stays(b, c)
    PROVE  Stays(a, c)
BY DEF Stays, Keeps

\* A write that keeps to what the API server admits.
LEMMA PutKept ==
    ASSUME WatchTypeOK, HistInv, KeptInv, NEW m \in Node, NEW obj \in Source \cup {Nil},
           Put(m, obj),
           m \in Kept => Stays(Current[m], obj),
           m \in Deletable /\ obj # Nil => ~mePredicate(obj)
    PROVE  KeptInv'
<1> DEFINE L == Len(hist)
<1>1. /\ Grows /\ Len(hist') = L + 1 /\ L \in Nat /\ L >= 1
  BY PutGrows DEF WatchTypeOK, HistInv
<1>2. Current \in Collection
  BY <1>1, HistElement DEF Current
<1>3. hist'[L + 1].objs = [Current EXCEPT ![m] = obj]
  <2> DEFINE h == [name |-> m, objs |-> [Current EXCEPT ![m] = obj]]
  <2>1. hist' = Append(hist, h) /\ h.objs = [Current EXCEPT ![m] = obj]
    BY DEF Put
  <2> HIDE DEF h
  <2>2. hist'[L + 1] = h
    BY <1>1, <2>1, AppendProperties DEF WatchTypeOK
  <2> QED
    BY <2>1, <2>2
<1>4. \A n \in Node : hist'[L + 1].objs[n] = IF n = m THEN obj ELSE hist[L].objs[n]
  BY <1>2, <1>3 DEF Collection, Current
<1>5. \A n \in Kept : Stays(hist[L].objs[n], hist'[L + 1].objs[n])
  BY <1>4 DEF Kept, Stays, Keeps, Current
<1>6. \A n \in Deletable : hist'[L + 1].objs[n] # Nil => ~mePredicate(hist'[L + 1].objs[n])
  BY <1>1, <1>4, ApiTypes DEF KeptInv
<1>7. ASSUME NEW i \in 1 .. L + 1, NEW j \in 1 .. L + 1, i <= j, NEW n \in Kept
      PROVE  Stays(hist'[i].objs[n], hist'[j].objs[n])
  <2>1. CASE j # L + 1
    <3>1. i \in 1 .. L /\ j \in 1 .. L
      BY <1>1, <1>7, <2>1
    <3> QED
      BY <1>7, <3>1, <1>1 DEF KeptInv, Grows
  <2>2. CASE i = L + 1
    <3>1. j = L + 1
      BY <1>1, <1>7, <2>2
    <3> QED
      BY <2>2, <3>1 DEF Stays, Keeps
  <2>3. CASE j = L + 1 /\ i # L + 1
    <3>1. i \in 1 .. L /\ i <= L /\ L \in 1 .. L
      BY <1>1, <2>3
    <3>2. Stays(hist[i].objs[n], hist[L].objs[n]) /\ hist'[i] = hist[i]
      BY <1>1, <3>1 DEF KeptInv, Grows
    <3> QED
      BY <1>5, <2>3, <3>2, StaysTransitive
  <2> QED
    BY <2>1, <2>2, <2>3
<1>8. ASSUME NEW i \in 1 .. L + 1, NEW n \in Deletable, hist'[i].objs[n] # Nil
      PROVE  ~mePredicate(hist'[i].objs[n])
  <2>1. CASE i = L + 1
    BY <1>6, <1>8, <2>1
  <2>2. CASE i # L + 1
    <3>1. i \in 1 .. L /\ hist'[i] = hist[i]
      BY <1>1, <2>2 DEF Grows
    <3> QED
      BY <1>8, <3>1 DEF KeptInv
  <2> QED
    BY <2>1, <2>2
<1> QED
  BY <1>1, <1>7, <1>8 DEF KeptInv

\* The kubelets, the CIDR allocator and operators.
LEMMA ApiWriteKept ==
    ASSUME LocalNodeKept, IndInv, KeptInv, NEW n \in Node, ApiWrite(n)
    PROVE  KeptInv'
<1>0. WatchTypeOK /\ HistInv
  BY DEF IndInv, TypeOK
<1>1. CASE \E obj \in Objects[n] : Admissible(Current[n], obj) /\ Put(n, obj)
  <2>1. PICK obj \in Objects[n] : Admissible(Current[n], obj) /\ Put(n, obj)
    BY <1>1
  <2>2. obj \in Source /\ obj # Nil
    BY <2>1, ApiTypes, NilIsNoRecord
  <2>3. Stays(Current[n], obj)
    BY <2>1, <2>2 DEF Stays, Keeps, Admissible, InfoOf
  <2>4. n \in Deletable => ~mePredicate(obj)
    BY <2>1 DEF LocalNodeKept
  <2> QED
    BY <1>0, <2>1, <2>2, <2>3, <2>4, PutKept
<1>2. CASE n \in Deletable /\ Put(n, Nil)
  BY <1>0, <1>2, PutKept DEF Kept
<1> QED
  BY <1>1, <1>2 DEF ApiWrite

\* The patch of the node's condition: only a status changes.
LEMMA PatchKept ==
    ASSUME IndInv, KeptInv, Patch
    PROVE  KeptInv'
<1>0. WatchTypeOK /\ HistInv
  BY DEF IndInv, TypeOK
<1>1. CASE hist' = hist
  BY <1>1 DEF KeptInv
<1>2. CASE hist' # hist
  <2> DEFINE obj == [Current[me] EXCEPT !.NetworkUnavailable = "False"]
  <2>1. cpc = "patch" /\ Current[me] # Nil /\ Put(me, obj)
    BY <1>2 DEF Patch
  <2>2. me \in Node
    BY <2>1 DEF IndInv, VersionInv, TypeOK, MapTypeOK
  <2>3. Len(hist) \in 1 .. Len(hist)
    BY <1>0 DEF HistInv, WatchTypeOK
  <2>4. Current[me] \in Source
    BY <1>0, <2>1, <2>2, <2>3, HistElement DEF Current, Collection
  <2>5. /\ obj \in Source /\ obj # Nil
        /\ obj.PodCIDR = Current[me].PodCIDR /\ obj.Identity = Current[me].Identity
    BY <2>4, NilIsNoRecord DEF Source, Status
  <2> HIDE DEF obj
  <2>6. Stays(Current[me], obj)
    BY <2>5 DEF Stays, Keeps, InfoOf
  <2>7. me \in Deletable => ~mePredicate(obj)
    BY <2>1, <2>3, <2>5 DEF KeptInv, Current, mePredicate
  <2> QED
    BY <1>0, <2>1, <2>2, <2>5, <2>6, <2>7, PutKept
<1> QED
  BY <1>1, <1>2

-----------------------------------------------------------------------------
(***************************************************************************)
(* The node map: the local node keeps its entry, and its PodCIDR once it   *)
(* has one, in every state that an unlocked read can see.                  *)
(***************************************************************************)

\* What a reader of NodeMap.me may rely on from one step to the next.
MeStep == me # Nil => me' = me /\ Keeps(MeInfo.PodCIDR, MeInfo'.PodCIDR)

MapKept == EntryInv' /\ SelfInv' /\ MeStep

LEMMA FrontType ==
    ASSUME IndInv
    PROVE  Front \in 0 .. Len(hist) /\ Len(hist) \in Nat
BY DEF IndInv, TypeOK, WatchTypeOK, PosInv, Front

\* A step that leaves the entries alone.
LEMMA EntriesRest ==
    ASSUME IndInv, EntryInv, SelfInv, UNCHANGED <<nodes, me, orphan>>, Grows,
           Front' \in Nat, Front' >= Front
    PROVE  MapKept
<1>1. EntryInv'
  <2> SUFFICES ASSUME NEW n \in Kept, nodes[n] # Nil
               PROVE  \E i \in 1 .. Front' :
                         /\ hist'[i].objs[n] # Nil
                         /\ nodes[n].PodCIDR = InfoOf(hist'[i].objs[n]).PodCIDR
    BY DEF EntryInv
  <2>1. PICK i \in 1 .. Front : /\ hist[i].objs[n] # Nil
                                /\ nodes[n].PodCIDR = InfoOf(hist[i].objs[n]).PodCIDR
    BY DEF EntryInv
  <2>2. i \in 1 .. Front' /\ hist'[i] = hist[i]
    BY FrontType DEF Grows
  <2> QED
    BY <2>1, <2>2
<1> QED
  BY <1>1 DEF MapKept, SelfInv, MeStep, MeInfo, Keeps

\* A step of updateNode: the PodCIDR of an entry is that of an object no older
\* than what it was taken from before.
LEMMA EntryWritten ==
    ASSUME IndInv, KeptInv, EntryInv, SelfInv, hist' = hist, orphan' = orphan,
           Front' \in 1 .. Len(hist), Front' >= Front,
           NEW n \in Node, OnlyEntry(n), nodes'[n] # Nil,
           hist[Front'].objs[n] # Nil,
           nodes'[n].PodCIDR = InfoOf(hist[Front'].objs[n]).PodCIDR,
           \/ me' = me
           \/ me = Nil /\ me' = n /\ mePredicate(hist[Front'].objs[n])
    PROVE  MapKept
<1>1. EntryInv'
  <2> SUFFICES ASSUME NEW m \in Kept, nodes'[m] # Nil
               PROVE  \E i \in 1 .. Front' :
                         /\ hist[i].objs[m] # Nil
                         /\ nodes'[m].PodCIDR = InfoOf(hist[i].objs[m]).PodCIDR
    BY DEF EntryInv
  <2>1. CASE m = n
    <3>1. Front' \in 1 .. Front'
      OBVIOUS
    <3> QED
      BY <2>1, <3>1
  <2>2. CASE m # n
    <3>1. nodes'[m] = nodes[m]
      BY <2>2 DEF OnlyEntry, Kept
    <3>2. PICK i \in 1 .. Front : /\ hist[i].objs[m] # Nil
                                  /\ nodes[m].PodCIDR = InfoOf(hist[i].objs[m]).PodCIDR
      BY <3>1 DEF EntryInv
    <3>3. i \in 1 .. Front'
      BY FrontType
    <3> QED
      BY <3>1, <3>2, <3>3
  <2> QED
    BY <2>1, <2>2
<1>2. SelfInv'
  BY DEF SelfInv, KeptInv, Kept
<1>3. ASSUME n \in Kept, nodes[n] # Nil
      PROVE  Keeps(nodes[n].PodCIDR, nodes'[n].PodCIDR)
  <2>1. PICK i \in 1 .. Front : /\ hist[i].objs[n] # Nil
                                /\ nodes[n].PodCIDR = InfoOf(hist[i].objs[n]).PodCIDR
    BY <1>3 DEF EntryInv
  <2>2. i \in 1 .. Len(hist) /\ i <= Front'
    BY FrontType
  <2>3. Stays(hist[i].objs[n], hist[Front'].objs[n])
    BY <1>3, <2>2 DEF KeptInv
  <2> QED
    BY <2>1, <2>3 DEF Stays
<1>4. MeStep
  <2> SUFFICES ASSUME me # Nil
               PROVE  me' = me /\ Keeps(MeInfo.PodCIDR, MeInfo'.PodCIDR)
    BY DEF MeStep
  <2>1. me' = me /\ orphan = Nil /\ orphan' = Nil /\ me \in Kept /\ me \in Node
    BY DEF SelfInv, Kept
  <2>2. MeInfo = nodes[me] /\ MeInfo' = nodes'[me] /\ nodes[me] # Nil
    BY <2>1 DEF MeInfo, IndInv, MeInv
  <2>3. CASE me = n
    BY <1>3, <2>1, <2>2, <2>3
  <2>4. CASE me # n
    BY <2>1, <2>2, <2>4 DEF OnlyEntry, Keeps
  <2> QED
    BY <2>1, <2>3, <2>4
<1> QED
  BY <1>1, <1>2, <1>4 DEF MapKept

\* removeNode: the entry that goes is not that of a kept node.
LEMMA EntryRemoved ==
    ASSUME IndInv, KeptInv, EntryInv, SelfInv, hist' = hist,
           Front' \in 1 .. Len(hist), Front' >= Front,
           NEW n \in Node, removeNode(n), hist[Front'].objs[n] = Nil
    PROVE  MapKept
<1>1. OnlyEntry(n) /\ nodes'[n] = Nil /\ me' = me
  BY Remove DEF IndInv, TypeOK, removeNode
<1>2. n \in Kept => nodes[n] = Nil
  <2> SUFFICES ASSUME n \in Kept, nodes[n] # Nil PROVE FALSE
    OBVIOUS
  <2>1. PICK i \in 1 .. Front : hist[i].objs[n] # Nil
    BY DEF EntryInv
  <2>2. i \in 1 .. Len(hist) /\ i <= Front'
    BY FrontType
  <2> QED
    BY <2>1, <2>2 DEF KeptInv, Stays
<1>3. EntryInv'
  <2> SUFFICES ASSUME NEW m \in Kept, nodes'[m] # Nil
               PROVE  \E i \in 1 .. Front' :
                         /\ hist[i].objs[m] # Nil
                         /\ nodes'[m].PodCIDR = InfoOf(hist[i].objs[m]).PodCIDR
    BY DEF EntryInv
  <2>1. nodes'[m] = nodes[m]
    BY <1>1 DEF OnlyEntry, Kept
  <2>2. PICK i \in 1 .. Front : /\ hist[i].objs[m] # Nil
                                /\ nodes[m].PodCIDR = InfoOf(hist[i].objs[m]).PodCIDR
    BY <2>1 DEF EntryInv
  <2>3. i \in 1 .. Front'
    BY FrontType
  <2> QED
    BY <2>1, <2>2, <2>3
<1>4. me # n
  <2> SUFFICES ASSUME me = n PROVE FALSE
    OBVIOUS
  <2>1. me # Nil
    BY NilIsNoValue
  <2>2. MeInfo = nodes[n] /\ MeInfo # Nil /\ n \in Kept
    BY <2>1 DEF SelfInv, MeInfo, IndInv, MeInv
  <2> QED
    BY <1>2, <2>2
<1>5. orphan' = Nil /\ orphan = Nil
  BY <1>4 DEF SelfInv, removeNode
<1>6. me # Nil => nodes'[me] = nodes[me]
  BY <1>1, <1>4 DEF OnlyEntry, SelfInv, Kept
<1> QED
  BY <1>1, <1>3, <1>5, <1>6 DEF MapKept, SelfInv, MeStep, MeInfo, Keeps

-----------------------------------------------------------------------------
(***************************************************************************)
(* The steps of the node controller.                                       *)
(***************************************************************************)

\* The steps between the writes: List, the ends of the locked region, Watch.
LEMMA RestMap ==
    ASSUME IndInv, EntryInv, SelfInv,
           List \/ ReplaceLock \/ ReplaceUnlock \/ Ready \/ Watch \/ WatchEnds
    PROVE  MapKept
<1>1. UNCHANGED <<nodes, me, orphan>> /\ hist' = hist
  BY DEF List, ReplaceLock, ReplaceUnlock, Ready, MarkReady, Watch, WatchEnds, mapVars
<1>2. /\ Len(hist) \in Nat /\ pos \in 0 .. Len(hist) /\ at \in 0 .. Len(hist)
      /\ wpc \in {"listed", "replacing"} => at >= pos
  BY DEF IndInv, TypeOK, WatchTypeOK, PosInv
<1>3. Front' \in Nat /\ Front' >= Front
  BY <1>2 DEF List, ReplaceLock, ReplaceUnlock, Ready, Watch, WatchEnds, Front
<1>4. Grows
  BY <1>1, <1>2 DEF Grows
<1> QED
  BY <1>1, <1>3, <1>4, EntriesRest

\* ReplaceAllNodes updates a listed node, in two steps.
LEMMA ReplaceUpdateMap ==
    ASSUME IndInv, KeptInv, EntryInv, SelfInv, NEW n \in Node, ReplaceUpdate(n)
    PROVE  MapKept
<1>1. /\ wpc = "replacing" /\ cur = Nil /\ n \in todo
      /\ updateNodeSpec(n, Listed[n])
      /\ UNCHANGED <<hist, wpc, at, pos>>
  BY DEF ReplaceUpdate
<1>2. Listed[n] \in Source /\ Listed[n] # Nil /\ at \in 1 .. Len(hist)
  BY <1>1, ListedType DEF IndInv, PosInv
<1>3. MapTypeOK /\ MeInv /\ ~changed
  BY <1>1 DEF IndInv, TypeOK, VersionInv
<1>4. OnlyEntry(n) /\ Half(n, Listed[n])'
  <2>1. Listed' = Listed
    BY <1>1 DEF Listed
  <2> QED
    BY <1>1, <1>2, <1>3, <2>1, UpdateSpec DEF Half
<1>5. me' = me /\ orphan' = orphan
  BY <1>1 DEF updateNodeSpec
<1>6. Front = at /\ Front' = at
  BY <1>1 DEF Front
<1>7. nodes'[n] # Nil /\ nodes'[n].PodCIDR = InfoOf(hist[Front'].objs[n]).PodCIDR
  BY <1>1, <1>4, <1>6 DEF Half, Listed
<1> QED
  BY <1>1, <1>2, <1>4, <1>5, <1>6, <1>7, EntryWritten DEF Listed

LEMMA ReplaceUpdatedMap ==
    ASSUME IndInv, KeptInv, EntryInv, SelfInv, ReplaceUpdated
    PROVE  MapKept
<1>1. /\ wpc = "replacing" /\ cur # Nil
      /\ updateNodeStatus(cur, Listed[cur])
      /\ UNCHANGED <<hist, wpc, at, pos>>
  BY DEF ReplaceUpdated
<1>2. cur \in Node /\ Listed[cur] \in Source /\ Listed[cur] # Nil /\ at \in 1 .. Len(hist)
  BY <1>1, ListedType DEF IndInv, PosInv, TypeOK, WatchTypeOK
<1>3. MapTypeOK /\ MeInv /\ Half(cur, Listed[cur])
  BY <1>1 DEF IndInv, TypeOK, MirrorInv
<1>4. OnlyEntry(cur) /\ nodes'[cur] = InfoOf(Listed[cur]) /\ nodes'[cur] # Nil
  BY <1>1, <1>2, <1>3, UpdateStatus, InfoOfType
<1>5. /\ orphan' = orphan
      /\ me' = me \/ (me = Nil /\ me' = cur /\ mePredicate(Listed[cur]))
  BY <1>1 DEF updateNodeStatus, identified
<1>6. Front = at /\ Front' = at
  BY <1>1 DEF Front
<1> QED
  BY <1>1, <1>2, <1>4, <1>5, <1>6, EntryWritten DEF Listed

\* ReplaceAllNodes removes a node that is not listed.
LEMMA ReplaceRemoveMap ==
    ASSUME IndInv, KeptInv, EntryInv, SelfInv, NEW n \in Node, ReplaceRemove(n)
    PROVE  MapKept
<1>1. /\ wpc = "replacing" /\ Listed[n] = Nil /\ removeNode(n)
      /\ UNCHANGED <<hist, wpc, at, pos>>
  BY DEF ReplaceRemove, Unlisted, watchVars
<1>2. at \in 1 .. Len(hist)
  BY <1>1, ListedType
<1>3. Front = at /\ Front' = at
  BY <1>1 DEF Front
<1> QED
  BY <1>1, <1>2, <1>3, EntryRemoved DEF Listed

\* An event: UpdateNode, in two steps, or RemoveNode.
LEMMA EventUpdateMap ==
    ASSUME IndInv, KeptInv, EntryInv, SelfInv, EventUpdate
    PROVE  MapKept
<1> DEFINE name == Event.name
           src == Event.objs[Event.name]
<1>1. /\ wpc = "watching" /\ wpc' = "updating" /\ pos < Len(hist) /\ src # Nil
      /\ updateNodeSpec(name, src)
      /\ UNCHANGED <<hist, at, pos>>
  BY DEF EventUpdate
<1>2. name \in Node /\ src \in Source /\ Event' = Event /\ pos \in 1 .. Len(hist) - 1
  BY <1>1, EventType DEF Event
<1>3. MapTypeOK /\ MeInv /\ ~changed
  BY <1>1 DEF IndInv, TypeOK, VersionInv, PosInv
<1>4. OnlyEntry(name) /\ Half(name, src)'
  <2> HIDE DEF name, src
  <2>1. name' = name /\ src' = src
    BY <1>2 DEF name, src
  <2> QED
    BY <1>1, <1>2, <1>3, <2>1, UpdateSpec DEF Half
<1>5. me' = me /\ orphan' = orphan
  BY <1>1 DEF updateNodeSpec
<1>6. Front = pos /\ Front' = pos + 1 /\ Front' \in 1 .. Len(hist) /\ Front' >= Front
  BY <1>1, <1>2, FrontType DEF Front
<1>7. nodes'[name] # Nil /\ nodes'[name].PodCIDR = InfoOf(src).PodCIDR
  BY <1>2, <1>4 DEF Half
<1>8. src = hist[Front'].objs[name]
  BY <1>6 DEF Event
<1> HIDE DEF name, src
<1> QED
  BY <1>1, <1>2, <1>4, <1>5, <1>6, <1>7, <1>8, EntryWritten

LEMMA EventUpdatedMap ==
    ASSUME IndInv, KeptInv, EntryInv, SelfInv, EventUpdated
    PROVE  MapKept
<1> DEFINE name == Event.name
           src == Event.objs[Event.name]
<1>1. /\ wpc = "updating" /\ wpc' = "watching" /\ pos' = pos + 1
      /\ updateNodeStatus(name, src)
      /\ UNCHANGED <<hist, at>>
  BY DEF EventUpdated
<1>2. /\ pos \in 1 .. Len(hist) - 1
      /\ name \in Node /\ src \in Source /\ src # Nil
  BY <1>1, EventType DEF IndInv, PosInv
<1>3. MapTypeOK /\ MeInv /\ Half(name, src)
  BY <1>1 DEF IndInv, TypeOK, MirrorInv
<1>4. Front = pos + 1 /\ Front' = pos + 1 /\ Front' \in 1 .. Len(hist) /\ Front' >= Front
  BY <1>1, <1>2, FrontType DEF Front
<1>5. src = hist[Front'].objs[name]
  BY <1>4 DEF Event
<1> HIDE DEF name, src
<1>6. OnlyEntry(name) /\ nodes'[name] = InfoOf(src) /\ nodes'[name] # Nil
  BY <1>1, <1>2, <1>3, UpdateStatus, InfoOfType
<1>7. /\ orphan' = orphan
      /\ me' = me \/ (me = Nil /\ me' = name /\ mePredicate(src))
  BY <1>1 DEF updateNodeStatus, identified
<1> QED
  BY <1>1, <1>2, <1>4, <1>5, <1>6, <1>7, EntryWritten

LEMMA EventDeleteMap ==
    ASSUME IndInv, KeptInv, EntryInv, SelfInv, EventDelete
    PROVE  MapKept
<1>1. /\ wpc = "watching" /\ wpc' = "watching" /\ pos < Len(hist) /\ pos' = pos + 1
      /\ Event.objs[Event.name] = Nil /\ removeNode(Event.name)
      /\ UNCHANGED <<hist, at>>
  BY DEF EventDelete
<1>2. pos \in 1 .. Len(hist) - 1 /\ Event.name \in Node
  BY <1>1, EventType
<1>3. Front = pos /\ Front' = pos + 1 /\ Front' \in 1 .. Len(hist) /\ Front' >= Front
  BY <1>1, <1>2, FrontType DEF Front
<1>4. hist[Front'].objs[Event.name] = Nil
  BY <1>1, <1>3 DEF Event
<1> QED
  BY <1>1, <1>2, <1>3, <1>4, EntryRemoved

LEMMA WatchStepMap ==
    ASSUME IndInv, KeptInv, EntryInv, SelfInv, WatchStep \/ WatchEnds
    PROVE  MapKept
BY RestMap, ReplaceUpdateMap, ReplaceUpdatedMap, ReplaceRemoveMap, EventUpdateMap,
   EventUpdatedMap, EventDeleteMap DEF WatchStep

-----------------------------------------------------------------------------
(***************************************************************************)
(* The routing controller.                                                 *)
(***************************************************************************)

\* While the routing controller rests, what it has read stays true.
LEMMA ReadStaysTrue ==
    ASSUME ConfiguredInv, MeStep, UNCHANGED ctrlVars
    PROVE  ConfiguredInv'
<1>1. UNCHANGED <<cpc, snap, lastVersionApplied, applied, arg, cni>>
  BY DEF ctrlVars, provVars
<1>2. ASSUME NEW c, Mine(c) PROVE Mine(c)' /\ MeInfo'.PodCIDR = MeInfo.PodCIDR
  BY <1>2 DEF Mine, MeStep, Keeps
<1>3. SUFFICES ASSUME RequireSelf
               PROVE  /\ snap # Nil => Mine(snap.me.PodCIDR)'
                      /\ lastVersionApplied # 0 /\ applied # Nil => Mine(applied.me.PodCIDR)'
                      /\ cpc \in {"cni", "cniwrite", "condition", "patch"} =>
                            applied # Nil /\ Mine(applied.me.PodCIDR)'
                      /\ cpc = "cniwrite" => Mine(arg)'
                      /\ cpc \in {"condition", "patch"} /\ HasCNI =>
                            cni = cniConfig(MeInfo'.PodCIDR)
                      /\ cni.state = "written" => cni.subnet # Nil
  BY <1>1 DEF ConfiguredInv
<1>4. /\ snap # Nil => Mine(snap.me.PodCIDR)
      /\ lastVersionApplied # 0 /\ applied # Nil => Mine(applied.me.PodCIDR)
      /\ cpc \in {"cni", "cniwrite", "condition", "patch"} =>
            applied # Nil /\ Mine(applied.me.PodCIDR)
      /\ cpc = "cniwrite" => Mine(arg)
      /\ cpc \in {"condition", "patch"} /\ HasCNI => cni = cniConfig(MeInfo.PodCIDR)
      /\ cni.state = "written" => cni.subnet # Nil
  BY <1>3 DEF ConfiguredInv
<1> QED
  BY <1>1, <1>2, <1>4

\* The early return of EnsureCIDRs, its snapshot and its success each leave the
\* kernel's PodCIDR, or the one it is being configured for, the local node's.
LEMMA EnsureConfigured ==
    ASSUME IndInv, ConfiguredInv,
           \/ WaitReady \/ EnsureSkip \/ EnsureStart \/ TakeSnapshot
           \/ Apply \/ ApplyFails
    PROVE  ConfiguredInv'
<1>1. UNCHANGED <<nodes, me, orphan, arg, cni>> /\ MeInfo' = MeInfo
  BY DEF WaitReady, EnsureSkip, EnsureStart, TakeSnapshot, Apply, ApplyFails, mapVars, MeInfo
<1>2. \A c : Mine(c)' <=> Mine(c)
  BY <1>1 DEF Mine
<1> SUFFICES ASSUME RequireSelf PROVE ConfiguredInv'
  BY DEF ConfiguredInv
<1>3. CASE WaitReady \/ EnsureStart \/ ApplyFails
  BY <1>1, <1>2, <1>3 DEF WaitReady, EnsureStart, ApplyFails, provVars, ConfiguredInv
<1>4. CASE EnsureSkip
  <2>1. applied = Snapshot /\ lastVersionApplied # 0
    <3>1. lastVersionApplied # 0 /\ ~Locked /\ version = lastVersionApplied
      BY <1>4 DEF EnsureSkip, AlreadyApplied, IsVersion
    <3>2. ~changed
      BY <3>1 DEF IndInv, VersionInv, PosInv, Locked
    <3> QED
      BY <3>1, <3>2 DEF IndInv, VersionInv
  <2>2. applied # Nil
    BY <2>1, SnapshotType DEF IndInv, TypeOK
  <2>3. Mine(applied.me.PodCIDR)
    BY <2>1, <2>2 DEF ConfiguredInv
  <2> QED
    BY <1>1, <1>2, <1>4, <2>2, <2>3 DEF EnsureSkip, provVars, ConfiguredInv
<1>5. CASE TakeSnapshot
  <2>1. CASE Usable(Snapshot)
    <3>1. me # Nil
      BY <2>1 DEF Usable, Snapshot, newNodeInfo
    <3>2. Mine(Snapshot.me.PodCIDR)
      BY <2>1, <3>1 DEF Usable, Snapshot, Mine
    <3> QED
      BY <1>1, <1>2, <1>5, <2>1, <3>2 DEF TakeSnapshot, ConfiguredInv
  <2>2. CASE ~Usable(Snapshot)
    BY <1>1, <1>2, <1>5, <2>2 DEF TakeSnapshot, ConfiguredInv
  <2> QED
    BY <2>1, <2>2
<1>6. CASE Apply
  <2>1. snap # Nil
    BY <1>6 DEF Apply, IndInv, VersionInv
  <2> QED
    BY <1>1, <1>2, <1>6, <2>1 DEF Apply, ConfiguredInv
<1> QED
  BY <1>3, <1>4, <1>5, <1>6

\* The CNI config is written with that PodCIDR, and so is the report made.
LEMMA ReportConfigured ==
    ASSUME IndInv, ConfiguredInv,
           \/ CniRead \/ CniWrite \/ CniWriteFails
           \/ Condition \/ Patch \/ PatchFails
    PROVE  ConfiguredInv'
<1>1. /\ UNCHANGED <<nodes, me, orphan, snap, lastVersionApplied, applied>>
      /\ MeInfo' = MeInfo
  BY DEF CniRead, CniWrite, CniWriteFails, Condition, Patch, PatchFails, mapVars,
         provVars, MeInfo
<1>2. \A c : Mine(c)' <=> Mine(c)
  BY <1>1 DEF Mine
<1> SUFFICES ASSUME RequireSelf PROVE ConfiguredInv'
  BY DEF ConfiguredInv
<1>3. CASE CniRead
  <2>1. applied # Nil /\ Mine(applied.me.PodCIDR) /\ me # Nil
    BY <1>3 DEF CniRead, ConfiguredInv, Mine
  <2>2. Mine(MeInfo.PodCIDR)
    BY <2>1 DEF Mine
  <2> QED
    BY <1>1, <1>2, <1>3, <2>1, <2>2 DEF CniRead, ConfiguredInv
<1>4. CASE CniWrite
  <2>1. applied # Nil /\ Mine(applied.me.PodCIDR) /\ Mine(arg)
    BY <1>4 DEF CniWrite, ConfiguredInv
  <2>2. /\ cpc' = "condition" /\ cni' = cniConfig(MeInfo.PodCIDR)
        /\ cni'.subnet # Nil
    BY <1>4, <2>1 DEF CniWrite, Mine, cniConfig
  <2> QED
    BY <1>1, <1>2, <2>1, <2>2 DEF ConfiguredInv
<1>5. CASE CniWriteFails
  <2>1. cpc' = "ensure" /\ (cni'.state = "written" => cni' = cni)
    BY <1>5 DEF CniWriteFails, CniTorn
  <2> QED
    BY <1>1, <1>2, <2>1 DEF ConfiguredInv
<1>6. CASE Condition \/ Patch \/ PatchFails
  BY <1>1, <1>2, <1>6 DEF Condition, Patch, PatchFails, ConfiguredInv
<1> QED
  BY <1>3, <1>4, <1>5, <1>6

-----------------------------------------------------------------------------
(***************************************************************************)
(* The theorems.                                                           *)
(***************************************************************************)

LEMMA InitReady ==
    ASSUME LocalNodeKept, Init
    PROVE  ReadyInv
<1>1. PICK objs \in InitialObjects : hist = <<[name |-> Nil, objs |-> objs]>>
  BY DEF Init, ApiInit
<1>2. Len(hist) = 1 /\ hist[1].objs = objs
  BY <1>1
<1>3. KeptInv
  BY <1>2 DEF KeptInv, Stays, Keeps, LocalNodeKept
<1>4. EntryInv /\ SelfInv
  BY DEF Init, NewNodeMap, EntryInv, SelfInv, Kept
<1>5. ConfiguredInv
  BY DEF Init, ConfiguredInv
<1> QED
  BY <1>3, <1>4, <1>5 DEF ReadyInv

LEMMA RestartReady ==
    ASSUME ReadyInv, Restart
    PROVE  ReadyInv'
<1>1. KeptInv'
  BY DEF ReadyInv, Restart, KeptInv
<1>2. EntryInv' /\ SelfInv'
  BY DEF Restart, EntryInv, SelfInv, Kept
<1>3. ConfiguredInv'
  <2>1. cni'.state = "written" => cni' = cni
    BY DEF Restart, CniTorn
  <2> QED
    BY <2>1 DEF ReadyInv, Restart, ConfiguredInv
<1> QED
  BY <1>1, <1>2, <1>3 DEF ReadyInv

LEMMA NextReady ==
    ASSUME LocalNodeKept, IndInv, ReadyInv, [Next]_vars
    PROVE  ReadyInv'
<1>0. KeptInv /\ EntryInv /\ SelfInv /\ ConfiguredInv
  BY DEF ReadyInv
<1>1. CASE \E n \in Node : ApiWrite(n) /\ UNCHANGED <<ctrlVars, restarts>>
  <2>1. PICK n \in Node : ApiWrite(n) /\ UNCHANGED <<ctrlVars, restarts>>
    BY <1>1
  <2>2. KeptInv'
    BY <1>0, <2>1, ApiWriteKept
  <2>3. MapKept
    <3>1. UNCHANGED <<nodes, me, orphan, wpc, at, pos>>
      BY <2>1 DEF ApiWrite, mapVars, watchVars
    <3>2. Front' = Front /\ Front' \in Nat /\ Front' >= Front
      BY <3>1, FrontType DEF Front
    <3> QED
      BY <1>0, <2>1, <3>1, <3>2, ApiWriteKeeps, EntriesRest
  <2> QED
    BY <1>0, <2>1, <2>2, <2>3, ReadStaysTrue DEF MapKept, ReadyInv
<1>2. CASE (WatchStep \/ WatchEnds) /\ UNCHANGED <<ctrlVars, restarts>>
  <2>1. MapKept
    BY <1>0, <1>2, WatchStepMap
  <2>2. hist' = hist
    BY <1>2 DEF WatchStep, WatchEnds, List, ReplaceLock, ReplaceUpdate, ReplaceUpdated,
                ReplaceRemove, ReplaceUnlock, Ready, Watch, EventUpdate, EventUpdated,
                EventDelete
  <2>3. KeptInv'
    BY <1>0, <2>2 DEF KeptInv
  <2> QED
    BY <1>0, <1>2, <2>1, <2>3, ReadStaysTrue DEF MapKept, ReadyInv
<1>3. CASE CtrlStep
  <2>1. KeptInv'
    <3>1. CASE Patch
      BY <1>0, <3>1, PatchKept
    <3>2. CASE hist' = hist
      BY <1>0, <3>2 DEF KeptInv
    <3> QED
      BY <1>3, <3>1, <3>2 DEF CtrlStep, WaitReady, EnsureSkip, EnsureStart, TakeSnapshot,
         Apply, ApplyFails, CniRead, CniWrite, CniWriteFails, Condition, PatchFails
  <2>2. MapKept
    <3>1. UNCHANGED <<nodes, me, orphan, wpc, at, pos>> /\ Grows
      BY <1>3, CtrlGrows DEF mapVars, watchVars
    <3>2. Front' = Front /\ Front' \in Nat /\ Front' >= Front
      BY <3>1, FrontType DEF Front
    <3> QED
      BY <1>0, <3>1, <3>2, EntriesRest
  <2>3. ConfiguredInv'
    BY <1>0, <1>3, EnsureConfigured, ReportConfigured DEF CtrlStep
  <2> QED
    BY <2>1, <2>2, <2>3 DEF MapKept, ReadyInv
<1>4. CASE Restart
  BY <1>4, RestartReady
<1>5. CASE UNCHANGED vars
  <2>1. UNCHANGED <<nodes, me, orphan, hist, wpc, at, pos, ctrlVars>>
    BY <1>5 DEF vars, mapVars, watchVars
  <2>2. KeptInv' /\ EntryInv' /\ SelfInv' /\ MeStep
    BY <1>0, <2>1 DEF KeptInv, EntryInv, SelfInv, Front, MeStep, MeInfo, Keeps
  <2> QED
    BY <1>0, <2>1, <2>2, ReadStaysTrue DEF ReadyInv
<1> QED
  BY <1>1, <1>2, <1>3, <1>4, <1>5 DEF Next

\* The invariant, wherever the local Node object stays.
LEMMA ReadyInvariance ==
    ASSUME LocalNodeKept
    PROVE  Spec => [](IndInv /\ ReadyInv)
<1>1. Init => IndInv /\ ReadyInv
  BY InitHolds, InitReady
<1>2. IndInv /\ ReadyInv /\ [Next]_vars => (IndInv /\ ReadyInv)'
  BY NextKeeps, NextReady
<1> QED
  BY <1>1, <1>2, PTL DEF Spec

\* Unless the local Node object is deleted, the agent reports its node as
\* available only when the kernel was configured for, and the CNI config names,
\* the PodCIDR the local node has: for any cluster, any sequence of writes, any
\* interleaving of the node controller's writes with the unlocked reads, any
\* failures and restarts.
THEOREM ReadyConfigured ==
    ASSUME LocalNodeKept
    PROVE  Spec => []ReadyMeansConfigured
<1>1. IndInv /\ ReadyInv => ReadyMeansConfigured
  BY DEF ReadyInv, ConfiguredInv, Mine, ReadyMeansConfigured
<1> QED
  BY <1>1, ReadyInvariance, PTL

\* Under the same condition WriteCNIConfig never writes an empty subnet, although
\* its argument is read when EnsureCIDRs has long made its checks.
THEOREM CniSubnet ==
    ASSUME LocalNodeKept
    PROVE  Spec => []CniSubnetNeverEmpty
<1>1. IndInv /\ ReadyInv => CniSubnetNeverEmpty
  BY DEF ReadyInv, ConfiguredInv, CniSubnetNeverEmpty
<1> QED
  BY <1>1, ReadyInvariance, PTL

=============================================================================
