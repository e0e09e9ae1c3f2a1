--------------------------- MODULE NodeController ---------------------------
(***************************************************************************)
(* The node controller (pkg/watchers/nodecontroller.go): lists the Node    *)
(* objects, replaces the node map by them, and applies the events of a     *)
(* watch that starts at the resource version of the list, until the watch  *)
(* ends and everything starts again.                                       *)
(*                                                                         *)
(* The API server is external.  Its state is the sequence hist of the      *)
(* collections of Node objects it has held, one per resource version; the  *)
(* event of a resource version is the object its write touched.  It sends  *)
(* the events after the version a watch names, in order, and ends a watch  *)
(* at any time.                                                            *)
(*                                                                         *)
(* A call that fails and is retried after a sleep changes nothing: a       *)
(* failed List, a bookmark and the sleeps are stuttering steps.            *)
(***************************************************************************)
EXTENDS NodeMap, Sequences

CONSTANTS
    InitialObjects,  \* collections the API server may hold at first
    Objects,         \* Objects[n]: the objects that are written for node n
    Deletable,       \* the nodes whose object may be deleted
    MaxWrites        \* bound: writes by others happen up to this length of hist

Collection == [Node -> Source \cup {Nil}]

ASSUME ApiTypes ==
    /\ InitialObjects \subseteq Collection
    /\ Objects \in [Node -> SUBSET Source]
    /\ Deletable \subseteq Node
    /\ MaxWrites \in Nat

VARIABLES
    hist,  \* API server: [name, objs] for every resource version so far
    wpc,   \* where runOnce is
    at,    \* nodeList.ResourceVersion, 0 before the first list
    todo,  \* ReplaceAllNodes: listed nodes that are still to be updated
    cur,   \* ReplaceAllNodes: the node between the two steps of updateNode
    pos    \* the resource version the map was last made to agree with

watchVars == <<wpc, at, todo, cur, pos>>

ApiInit == \E objs \in InitialObjects : hist = <<[name |-> Nil, objs |-> objs]>>

WatchInit ==
    /\ wpc = "list"
    /\ at = 0
    /\ todo = {}
    /\ cur = Nil
    /\ pos = 0

WatchPC == {"list", "listed", "replacing", "unready", "startwatch",
            "watching", "updating"}

Locked == wpc \in {"replacing", "updating"}

WatchTypeOK ==
    /\ hist \in Seq([name : Node \cup {Nil}, objs : Collection])
    /\ wpc \in WatchPC
    /\ at \in 0 .. Len(hist)
    /\ todo \in SUBSET Node
    /\ cur \in Node \cup {Nil}
    /\ pos \in 0 .. Len(hist)

-----------------------------------------------------------------------------
(***************************************************************************)
(* The API server.                                                         *)
(***************************************************************************)

Current == hist[Len(hist)].objs

\* A write by the resource version after the last.
Put(n, obj) ==
    hist' = Append(hist, [name |-> n, objs |-> [Current EXCEPT ![n] = obj]])

\* The PodCIDR of a Node object can be set, and not be changed once it is set.
Admissible(old, new) ==
    old # Nil /\ ParseCIDR[old.PodCIDR] # Nil => new.PodCIDR = old.PodCIDR

\* Kubelets, the CIDR allocator or an operator write or delete a Node object.
ApiWrite(n) ==
    /\ Len(hist) <= MaxWrites
    /\ \/ \E obj \in Objects[n] : Admissible(Current[n], obj) /\ Put(n, obj)
       \/ n \in Deletable /\ Current[n] # Nil /\ Put(n, Nil)
    /\ UNCHANGED <<mapVars, watchVars>>

-----------------------------------------------------------------------------
(***************************************************************************)
(* runOnce, up to the watch: List, ReplaceAllNodes, MarkReady, Watch.      *)
(***************************************************************************)

\* The list is of the newest version when the server answers.
List ==
    /\ wpc = "list"
    /\ wpc' = "listed"
    /\ at' = Len(hist)
    /\ UNCHANGED <<mapVars, hist, todo, cur, pos>>

Listed == hist[at].objs

ReplaceLock ==
    /\ wpc = "listed"
    /\ wpc' = "replacing"
    /\ todo' = {n \in Node : Listed[n] # Nil}
    /\ UNCHANGED <<mapVars, hist, at, cur, pos>>

ReplaceUpdate(n) ==
    /\ wpc = "replacing" /\ cur = Nil /\ n \in todo
    /\ updateNodeSpec(n, Listed[n])
    /\ cur' = n
    /\ UNCHANGED <<hist, wpc, at, todo, pos>>

ReplaceUpdated ==
    /\ wpc = "replacing" /\ cur # Nil
    /\ updateNodeStatus(cur, Listed[cur])
    /\ cur' = Nil
    /\ todo' = todo \ {cur}
    /\ UNCHANGED <<hist, wpc, at, pos>>

\* Mutant: nodes that are not in the list stay.
UnlistedStay == {}

\* The entries ReplaceAllNodes removes.
Unlisted == {n \in Node : nodes[n] # Nil /\ Listed[n] = Nil}

ReplaceRemove(n) ==
    /\ wpc = "replacing" /\ cur = Nil /\ todo = {}
    /\ n \in Unlisted
    /\ removeNode(n)
    /\ UNCHANGED <<hist, watchVars>>

\* Mutant: the version after that of the list is taken for applied.
ReplaceUnlockPast ==
    /\ wpc = "replacing" /\ cur = Nil /\ todo = {}
    /\ Unlisted = {}
    /\ wpc' = "unready"
    /\ pos' = at + 1
    /\ UNCHANGED <<mapVars, hist, at, todo, cur>>

ReplaceUnlock ==
    /\ wpc = "replacing" /\ cur = Nil /\ todo = {}
    /\ Unlisted = {}
    /\ wpc' = "unready"
    /\ pos' = at
    /\ UNCHANGED <<mapVars, hist, at, todo, cur>>

Ready ==
    /\ wpc = "unready"
    /\ MarkReady
    /\ wpc' = "startwatch"
    /\ UNCHANGED <<hist, at, todo, cur, pos>>

Watch ==
    /\ wpc = "startwatch"
    /\ wpc' = "watching"
    /\ UNCHANGED <<mapVars, hist, at, todo, cur, pos>>

-----------------------------------------------------------------------------
(***************************************************************************)
(* The loop over the events of the watch.                                  *)
(***************************************************************************)

Event == hist[pos + 1]

\* Added or Modified: UpdateNode, in the two steps of updateNode.
EventUpdate ==
    /\ wpc = "watching" /\ pos < Len(hist)
    /\ Event.objs[Event.name] # Nil
    /\ updateNodeSpec(Event.name, Event.objs[Event.name])
    /\ wpc' = "updating"
    /\ UNCHANGED <<hist, at, todo, cur, pos>>

EventUpdated ==
    /\ wpc = "updating"
    /\ updateNodeStatus(Event.name, Event.objs[Event.name])
    /\ wpc' = "watching"
    /\ pos' = pos + 1
    /\ UNCHANGED <<hist, at, todo, cur>>

\* Deleted: RemoveNode.
EventDelete ==
    /\ wpc = "watching" /\ pos < Len(hist)
    /\ Event.objs[Event.name] = Nil
    /\ removeNode(Event.name)
    /\ pos' = pos + 1
    /\ UNCHANGED <<hist, wpc, at, todo, cur>>

\* Watch fails, or the channel is closed, carries an Error event (the version
\* is too old, say) or an object that is no Node: runOnce returns.
WatchEnds ==
    /\ wpc \in {"startwatch", "watching"}
    /\ wpc' = "list"
    /\ UNCHANGED <<mapVars, hist, at, todo, cur, pos>>

WatchStep ==
    \/ List \/ ReplaceLock \/ ReplaceUpdated \/ ReplaceUnlock \/ Ready \/ Watch
    \/ EventUpdate \/ EventUpdated \/ EventDelete
    \/ \E n \in Node : ReplaceUpdate(n) \/ ReplaceRemove(n)

=============================================================================
