------------------------------ MODULE NodeMap ------------------------------
(***************************************************************************)
(* The node map of the agent (pkg/routing/nodes.go): what the agent knows  *)
(* of the cluster, written by the node controller and read by the routing  *)
(* controller.                                                             *)
(*                                                                         *)
(* NodeMap.mutex is held by the writer over several steps (an update of    *)
(* one node writes its fields one after the other, ReplaceAllNodes updates *)
(* many nodes); the readers IsVersion, IsReady and Snapshot hold it for    *)
(* one step.  The routing controller also reads NodeMap.me and the fields  *)
(* of *me WITHOUT the mutex, so the steps of a writer are visible to it.   *)
(*                                                                         *)
(* The pointer NodeMap.me aliases the map's entry of the local node until  *)
(* that entry is deleted; from then on it points to an object that is in   *)
(* no map, which the variable orphan holds.                                *)
(*                                                                         *)
(* Abstractions: a string that is parsed is a member of CidrText or        *)
(* AddrText and ParseCIDR, ParseIP say what it parses to (Nil: an error;   *)
(* the empty PodCIDR is a text that parses to Nil).  A text of an address  *)
(* is a number, its rank in the order of sort.Strings.  A list of          *)
(* addresses is the set of its InternalIP texts (the code sorts it), the   *)
(* list of conditions the status of its only NetworkUnavailable entry (the *)
(* API merges conditions by type).  Fields of a Node that the code never   *)
(* reads are left out.                                                     *)
(***************************************************************************)
EXTENDS Integers, FiniteSetsExt

CONSTANTS
    Node,        \* names of nodes
    CidrText,    \* values of Node.Spec.PodCIDR
    CIDR,        \* parsed networks (*net.IPNet)
    ParseCIDR,   \* net.ParseCIDR
    AddrText,    \* values of an address of Node.Status, by rank
    IP,          \* parsed addresses (net.IP)
    ParseIP,     \* net.ParseIP
    Identity,    \* values a node reports as its name, machine or boot ID
    MyIdentity,  \* the value the agent reads from its own machine
    Nil

ASSUME ConstantTypes ==
    /\ ParseCIDR \in [CidrText -> CIDR \cup {Nil}]
    /\ AddrText \subseteq Nat
    /\ ParseIP \in [AddrText -> IP \cup {Nil}]
    /\ MyIdentity \in Identity

\* Nil is the nil pointer: it is no network, no address, no node and no record.
ASSUME NilIsNoValue ==
    /\ Nil \notin CIDR
    /\ Nil \notin IP
    /\ Nil \notin Node

Status == {"True", "False", "Unknown", "none"}

\* corev1.Node, as far as the agent reads it.
Source == [PodCIDR : CidrText, InternalIPs : SUBSET AddrText,
           NetworkUnavailable : Status, Identity : Identity]

\* NodeInfo (its Name is its key in the map).
NodeInfo == [PodCIDR : CIDR \cup {Nil}, Address : IP \cup {Nil},
             NetworkAvailable : BOOLEAN]

ASSUME NilIsNoRecord == Nil \notin Source /\ Nil \notin NodeInfo

VARIABLES
    ready,    \* NodeMap.ready
    nodes,    \* NodeMap.nodes; Nil where the map has no entry
    version,  \* NodeMap.version
    me,       \* the name NodeMap.me points to; Nil for the nil pointer
    orphan,   \* *NodeMap.me when it is no longer an entry of the map, or Nil
    changed   \* the local variable of updateNode, between its two steps

mapVars == <<ready, nodes, version, me, orphan, changed>>

NewNodeMap ==
    /\ ready = FALSE
    /\ nodes = [n \in Node |-> Nil]
    /\ version = 0
    /\ me = Nil
    /\ orphan = Nil
    /\ changed = FALSE

MapTypeOK ==
    /\ ready \in BOOLEAN
    /\ nodes \in [Node -> NodeInfo \cup {Nil}]
    /\ version \in Nat
    /\ me \in Node \cup {Nil}
    /\ orphan \in NodeInfo \cup {Nil}
    /\ changed \in BOOLEAN

-----------------------------------------------------------------------------
(***************************************************************************)
(* NodeInfo.update: what a Node object says of a node.                     *)
(***************************************************************************)

\* The first InternalIP in the order of sort.Strings, parsed; Nil if there is
\* none or if that one does not parse.
address(src) ==
    IF src.InternalIPs = {} THEN Nil ELSE ParseIP[Min(src.InternalIPs)]

\* Every status but True, a missing condition included, counts as available.
networkAvailable(src) == src.NetworkUnavailable # "True"

\* The value NodeInfo.update leaves behind.
InfoOf(src) ==
    [PodCIDR |-> ParseCIDR[src.PodCIDR], Address |-> address(src),
     NetworkAvailable |-> networkAvailable(src)]

\* The map that mirrors the objects objs of an API server.
View(objs) == [n \in Node |-> IF objs[n] = Nil THEN Nil ELSE InfoOf(objs[n])]

\* The predicate main.go passes to NewNodeMap: a comparison of the name, the
\* machine, system or boot ID of a Node object with that of this machine.
mePredicate(src) == src.Identity = MyIdentity

-----------------------------------------------------------------------------
(***************************************************************************)
(* Operations of NodeMap.                                                  *)
(***************************************************************************)

\* &NodeInfo{Name: name}
newNodeInfo == [PodCIDR |-> Nil, Address |-> Nil, NetworkAvailable |-> FALSE]

\* *NodeMap.me, for me # Nil.
MeInfo == IF orphan # Nil THEN orphan ELSE nodes[me]

\* First step of updateNode(src) for the node n: the entry is made if the map
\* has none, PodCIDR and Address are written.
updateNodeSpec(n, src) ==
    LET node == IF nodes[n] = Nil THEN newNodeInfo ELSE nodes[n]
        upd  == [node EXCEPT !.PodCIDR = InfoOf(src).PodCIDR,
                             !.Address = InfoOf(src).Address]
    IN  /\ nodes' = [nodes EXCEPT ![n] = upd]
        /\ changed' = (nodes[n] = Nil \/ upd # node)
        /\ UNCHANGED <<ready, version, me, orphan>>

\* Whether updateNode takes n for the local node.
identified(n, src) == me = Nil /\ mePredicate(src)

\* Whether updateNode increments the version.
bump(n, src) ==
    \/ changed
    \/ nodes[n].NetworkAvailable # networkAvailable(src)
    \/ identified(n, src)

\* Second step of updateNode(src): NetworkAvailable, the pointer to the local
\* node, the version.
updateNodeStatus(n, src) ==
    /\ nodes' = [nodes EXCEPT ![n].NetworkAvailable = networkAvailable(src)]
    /\ me' = IF identified(n, src) THEN n ELSE me
    /\ version' = IF bump(n, src) THEN version + 1 ELSE version
    /\ changed' = FALSE
    /\ UNCHANGED <<ready, orphan>>

\* Mutant: the pointer to the local node is reset with the entry.
removeNodeResetsMe(n) ==
    /\ nodes' = [nodes EXCEPT ![n] = Nil]
    /\ version' = version + 1
    /\ me' = IF me = n THEN Nil ELSE me
    /\ UNCHANGED <<ready, orphan, changed>>

\* removeNode: the entry goes and the version is incremented; the object
\* NodeMap.me points to stays.
removeNode(n) ==
    /\ nodes' = [nodes EXCEPT ![n] = Nil]
    /\ version' = version + 1
    /\ orphan' = IF me = n /\ orphan = Nil THEN nodes[n] ELSE orphan
    /\ UNCHANGED <<ready, me, changed>>

MarkReady == ready' = TRUE /\ UNCHANGED <<nodes, version, me, orphan, changed>>

\* Snapshot of a map that is ready.  The pointer it returns is never nil: while
\* the local node is unknown it points to a zero NodeInfo, whose Name is "".
Snapshot ==
    [Name |-> me, me |-> IF me = Nil THEN newNodeInfo ELSE MeInfo,
     nodes |-> nodes, version |-> version]

IsVersion(v) == version = v

=============================================================================
