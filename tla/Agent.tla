------------------------------- MODULE Agent -------------------------------
(***************************************************************************)
(* The networking agent: the routing controller                            *)
(* (pkg/routing/providercontroller.go) beside the node controller, over    *)
(* the node map they share.                                                *)
(*                                                                         *)
(* The provider is modelled by what the EnsureCIDRs of all five have in    *)
(* common: the early return when the version is the one applied last, the  *)
(* snapshot, the checks of the local node, kernel calls of which any may   *)
(* fail, the assignment of lastVersionApplied.  The variable applied is    *)
(* the snapshot the kernel was made to agree with, Nil while or after the  *)
(* calls for one are incomplete; the provider modules have the calls.      *)
(*                                                                         *)
(* The sleeps are stuttering steps, and so are iterations that find        *)
(* nothing to do.  A restart (a signal, a crash, an update of the          *)
(* daemonset) may happen at any step; the kernel, the CNI file and the API *)
(* server keep their state.                                                *)
(***************************************************************************)
EXTENDS NodeController

CONSTANTS
    RequireSelf,  \* whether the provider insists on a PodCIDR and an Address
                  \* of the local node (vxlan, vxlan-legacy, ipsec: TRUE;
                  \* layer2, gre: FALSE)
    HasCNI,       \* whether a CNI config path is set
    MaxRestarts   \* bound: restarts of the agent

ASSUME AgentTypes ==
    /\ RequireSelf \in BOOLEAN
    /\ HasCNI \in BOOLEAN
    /\ MaxRestarts \in Nat

VARIABLES
    cpc,                 \* where runWatcher of the routing controller is
    snap,                \* me, allNodes, version of the running EnsureCIDRs
    lastVersionApplied,  \* of the provider
    applied,             \* the snapshot the kernel agrees with, or Nil
    arg,                 \* the argument of the running WriteCNIConfig
    cni,                 \* the CNI config file
    restarts             \* restarts so far

provVars == <<snap, lastVersionApplied, applied>>
ctrlVars == <<cpc, provVars, arg, cni>>
vars == <<mapVars, hist, watchVars, ctrlVars, restarts>>

\* What Snapshot returns.
Snapshots == [Name : Node \cup {Nil}, me : NodeInfo,
              nodes : [Node -> NodeInfo \cup {Nil}], version : Nat]

ASSUME NilIsNoSnapshot == Nil \notin Snapshots

CtrlPC == {"wait", "ensure", "snapshot", "apply", "cni", "cniwrite",
           "condition", "patch"}

Files == [state : {"absent", "torn", "written"}, subnet : CIDR \cup {Nil}]

Init ==
    /\ NewNodeMap /\ ApiInit /\ WatchInit
    /\ cpc = "wait"
    /\ snap = Nil
    /\ lastVersionApplied = 0
    /\ applied = Nil
    /\ arg = Nil
    /\ cni = [state |-> "absent", subnet |-> Nil]
    /\ restarts = 0

-----------------------------------------------------------------------------
(***************************************************************************)
(* Waiting for the node map, and EnsureCIDRs.                              *)
(***************************************************************************)

WaitReady ==
    /\ cpc = "wait" /\ ~Locked /\ ready
    /\ cpc' = "ensure"
    /\ UNCHANGED <<mapVars, hist, watchVars, provVars, arg, cni, restarts>>

\* The version is the one applied last; 0 means that none was.
AlreadyApplied == lastVersionApplied # 0 /\ IsVersion(lastVersionApplied)

\* IsVersion takes the mutex; it is not called while nothing was applied.
EnsureSkip ==
    /\ cpc = "ensure"
    /\ ~Locked /\ AlreadyApplied
    /\ cpc' = "cni"
    /\ UNCHANGED <<mapVars, hist, watchVars, provVars, arg, cni, restarts>>

EnsureStart ==
    /\ cpc = "ensure"
    /\ lastVersionApplied = 0 \/ ~Locked
    /\ ~AlreadyApplied
    /\ cpc' = "snapshot"
    /\ UNCHANGED <<mapVars, hist, watchVars, provVars, arg, cni, restarts>>

\* Mutant: the PodCIDR of the local node is not checked.
UsableWithoutCIDR(s) == RequireSelf => s.me.Address # Nil

\* The snapshot passes the checks of the provider.
Usable(s) == RequireSelf => s.me.PodCIDR # Nil /\ s.me.Address # Nil

\* Mutant: the map is read without the mutex.
TakeSnapshotUnlocked ==
    /\ cpc = "snapshot"
    /\ IF Usable(Snapshot)
       THEN cpc' = "apply" /\ snap' = Snapshot /\ applied' = Nil
       ELSE cpc' = "ensure" /\ UNCHANGED <<snap, applied>>
    /\ UNCHANGED <<mapVars, hist, watchVars, lastVersionApplied, arg, cni, restarts>>

\* Snapshot and the checks; with a usable one the calls to the kernel begin.
TakeSnapshot ==
    /\ cpc = "snapshot" /\ ~Locked
    /\ IF Usable(Snapshot)
       THEN cpc' = "apply" /\ snap' = Snapshot /\ applied' = Nil
       ELSE cpc' = "ensure" /\ UNCHANGED <<snap, applied>>
    /\ UNCHANGED <<mapVars, hist, watchVars, lastVersionApplied, arg, cni, restarts>>

\* Mutant: the version is read again when the calls are done.
ApplyLaterVersion ==
    /\ cpc = "apply"
    /\ cpc' = "cni"
    /\ applied' = snap
    /\ lastVersionApplied' = version
    /\ snap' = Nil
    /\ UNCHANGED <<mapVars, hist, watchVars, arg, cni, restarts>>

\* Every call to the kernel succeeds.
Apply ==
    /\ cpc = "apply"
    /\ cpc' = "cni"
    /\ applied' = snap
    /\ lastVersionApplied' = snap.version
    /\ snap' = Nil
    /\ UNCHANGED <<mapVars, hist, watchVars, arg, cni, restarts>>

\* Mutant: the error is logged, and the controller goes on.
ApplyFailsUnnoticed ==
    /\ cpc = "apply"
    /\ cpc' = "cni"
    /\ snap' = Nil
    /\ UNCHANGED <<mapVars, hist, watchVars, lastVersionApplied, applied, arg, cni, restarts>>

\* Mutant: the version is recorded before the calls are made.
ApplyFailsRecorded ==
    /\ cpc = "apply"
    /\ cpc' = "ensure"
    /\ lastVersionApplied' = snap.version
    /\ snap' = Nil
    /\ UNCHANGED <<mapVars, hist, watchVars, applied, arg, cni, restarts>>

\* One of them fails: EnsureCIDRs returns its error and is called again.
ApplyFails ==
    /\ cpc = "apply"
    /\ cpc' = "ensure"
    /\ snap' = Nil
    /\ UNCHANGED <<mapVars, hist, watchVars, lastVersionApplied, applied, arg, cni, restarts>>

-----------------------------------------------------------------------------
(***************************************************************************)
(* The CNI config and the node's condition: NodeMap.me is read without the *)
(* mutex, at every mention of it anew.                                     *)
(***************************************************************************)

CniRead ==
    /\ cpc = "cni"
    /\ IF HasCNI /\ me # Nil
       THEN cpc' = "cniwrite" /\ arg' = MeInfo.PodCIDR
       ELSE cpc' = "condition" /\ UNCHANGED arg
    /\ UNCHANGED <<mapVars, hist, watchVars, provVars, cni, restarts>>

\* The file with the template's text for a PodCIDR.
cniConfig(podCIDR) == [state |-> "written", subnet |-> podCIDR]

\* Mutant: a file that is there is taken for good.
CniWriteOnce ==
    /\ cpc = "cniwrite"
    /\ cpc' = "condition"
    /\ cni' = IF cni.state = "absent" THEN cniConfig(arg) ELSE cni
    /\ UNCHANGED <<mapVars, hist, watchVars, provVars, arg, restarts>>

\* WriteCNIConfig: afterwards the file has the expected text, whether or not it
\* had it before.  A nil PodCIDR is written as an empty subnet.
CniWrite ==
    /\ cpc = "cniwrite"
    /\ cpc' = "condition"
    /\ cni' = cniConfig(arg)
    /\ UNCHANGED <<mapVars, hist, watchVars, provVars, arg, restarts>>

\* A file that differs is truncated before it is written.
CniTorn ==
    /\ cni # cniConfig(arg)
    /\ cni' = [state |-> "torn", subnet |-> Nil]

\* The file cannot be read, or not be written to the end.
CniWriteFails ==
    /\ cpc = "cniwrite"
    /\ cpc' = "ensure"
    /\ UNCHANGED cni \/ CniTorn
    /\ UNCHANGED <<mapVars, hist, watchVars, provVars, arg, restarts>>

Condition ==
    /\ cpc = "condition"
    /\ cpc' = IF me # Nil /\ ~MeInfo.NetworkAvailable THEN "patch" ELSE "ensure"
    /\ UNCHANGED <<mapVars, hist, watchVars, provVars, arg, cni, restarts>>

\* setNodeCondition: the patch sets NetworkUnavailable to False (a patch that
\* changes no more than the heartbeat time makes no version here).
Patch ==
    /\ cpc = "patch" /\ Current[me] # Nil
    /\ cpc' = "ensure"
    /\ IF Current[me].NetworkUnavailable = "False"
       THEN UNCHANGED hist
       ELSE Put(me, [Current[me] EXCEPT !.NetworkUnavailable = "False"])
    /\ UNCHANGED <<mapVars, watchVars, provVars, arg, cni, restarts>>

\* The patch fails, for want of the object or otherwise: the error is logged.
PatchFails ==
    /\ cpc = "patch"
    /\ cpc' = "ensure"
    /\ UNCHANGED <<mapVars, hist, watchVars, provVars, arg, cni, restarts>>

-----------------------------------------------------------------------------
\* The process ends and is started again.  A write of the CNI file may be cut.
Restart ==
    /\ restarts < MaxRestarts
    /\ restarts' = restarts + 1
    /\ ready' = FALSE
    /\ nodes' = [n \in Node |-> Nil]
    /\ version' = 0
    /\ me' = Nil
    /\ orphan' = Nil
    /\ changed' = FALSE
    /\ wpc' = "list" /\ at' = 0 /\ todo' = {} /\ cur' = Nil /\ pos' = 0
    /\ cpc' = "wait" /\ snap' = Nil /\ lastVersionApplied' = 0 /\ arg' = Nil
    /\ UNCHANGED cni \/ (cpc = "cniwrite" /\ CniTorn)
    /\ UNCHANGED <<hist, applied>>

CtrlStep ==
    \/ WaitReady \/ EnsureSkip \/ EnsureStart \/ TakeSnapshot
    \/ Apply \/ ApplyFails
    \/ CniRead \/ CniWrite \/ CniWriteFails
    \/ Condition \/ Patch \/ PatchFails

Next ==
    \/ \E n \in Node : ApiWrite(n) /\ UNCHANGED <<ctrlVars, restarts>>
    \/ (WatchStep \/ WatchEnds) /\ UNCHANGED <<ctrlVars, restarts>>
    \/ CtrlStep
    \/ Restart

Spec == Init /\ [][Next]_vars

-----------------------------------------------------------------------------
(***************************************************************************)
(* Safety.                                                                 *)
(***************************************************************************)

TypeOK ==
    /\ MapTypeOK /\ WatchTypeOK
    /\ cpc \in CtrlPC
    /\ snap \in Snapshots \cup {Nil}
    /\ lastVersionApplied \in Nat
    /\ applied \in Snapshots \cup {Nil}
    /\ arg \in CIDR \cup {Nil}
    /\ cni \in Files
    /\ restarts \in 0 .. MaxRestarts

\* Whenever the mutex is free, the node map is exactly the collection of Node
\* objects of one resource version, across lists, events, watches that end and
\* are restarted, and nodes that come and go (ReplaceAllNodes: "replaces the
\* existing map", UpdateNode, RemoveNode).
MapMirrorsApi == ~Locked /\ pos > 0 => nodes = View(hist[pos].objs)

\* The early return of EnsureCIDRs is safe: when lastVersionApplied is the
\* version of the map, the kernel agrees with the local node and all the nodes
\* the map has now.  Every change that Snapshot could show must therefore
\* increment the version, and nothing may be recorded for a snapshot other than
\* the one that was applied.
SkipIsSafe ==
    ~Locked /\ AlreadyApplied => applied = Snapshot

\* The unlocked uses of NodeMap.me in runWatcher: once a check has found it not
\* nil it stays so, and it points to a complete NodeInfo, also after the entry
\* of the local node was removed from the map.
MeStaysValid == cpc \in {"cniwrite", "patch"} => me # Nil /\ MeInfo # Nil

\* No Node object that the agent could take for its own is ever deleted.
LocalNodeKept ==
    \A n \in Deletable :
        /\ \A obj \in Objects[n] : ~mePredicate(obj)
        /\ \A objs \in InitialObjects : objs[n] # Nil => ~mePredicate(objs[n])

\* When the controller reports the network of its node as available, the
\* kernel was configured for a snapshot in which the local node had a PodCIDR,
\* and the CNI file names that PodCIDR, which the local node still has.  (For
\* a provider that insists on a PodCIDR, if LocalNodeKept.)
ReadyMeansConfigured ==
    cpc = "patch" /\ RequireSelf =>
        /\ applied # Nil /\ applied.me.PodCIDR # Nil
        /\ applied.me.PodCIDR = MeInfo.PodCIDR
        /\ HasCNI => cni = cniConfig(MeInfo.PodCIDR)

\* The CNI config never gets an empty subnet, although WriteCNIConfig is given
\* the PodCIDR of the local node as it is at the time of the call, not as it
\* was when EnsureCIDRs checked it.  (Same conditions.)
CniSubnetNeverEmpty == RequireSelf /\ cni.state = "written" => cni.subnet # Nil

\* README.md: "it uses the Kubernetes API to manage state (no second source of
\* truth)".  What the agent takes for its own node is what the map, and so the
\* API, has for it.
MeIsCurrent == ~Locked /\ me # Nil /\ nodes[me] # Nil => MeInfo = nodes[me]

-----------------------------------------------------------------------------
(***************************************************************************)
(* Refinement and liveness.                                                *)
(***************************************************************************)

Sync == INSTANCE NodeSync WITH
            snapshot <- IF snap = Nil THEN Nil ELSE snap.nodes

\* The agent implements NodeSync: the nodes an EnsureCIDRs works with are those
\* of one resource version, and later ones are of no earlier version.
ImplementsNodeSync == Sync!Spec

\* Both goroutines keep running; sync.Mutex starves no reader; a call that is
\* retried forever succeeds in the end.
Fairness ==
    /\ WF_vars(WatchStep /\ UNCHANGED <<ctrlVars, restarts>>)
    /\ SF_vars(WaitReady)
    /\ SF_vars(EnsureSkip \/ EnsureStart)
    /\ SF_vars(TakeSnapshot)
    /\ SF_vars(Apply)
    /\ WF_vars(CniRead)
    /\ SF_vars(CniWrite)
    /\ WF_vars(Condition)
    /\ SF_vars(Patch)

FairSpec == Spec /\ Fairness

\* The API has a local node with a PodCIDR and an address.
SelfUsable ==
    \E n \in Node : /\ Current[n] # Nil /\ mePredicate(Current[n])
                    /\ InfoOf(Current[n]).PodCIDR # Nil
                    /\ InfoOf(Current[n]).Address # Nil

\* Once the Node objects stay as they are, with a local node among them, the
\* kernel is made to agree with all of them, and stays so, whatever calls
\* failed before ("Unexpected error in provider controller, will retry") and
\* however often the watch ended.
RoutesConverge ==
    <>[]SelfUsable => <>[](applied # Nil /\ applied.nodes = View(Current))

\* In the same circumstances the local node ends up reported as available, and
\* the CNI config has its PodCIDR.
NodeBecomesReady ==
    <>[]SelfUsable =>
        <>[](\A n \in Node : Current[n] # Nil /\ mePredicate(Current[n]) =>
                /\ networkAvailable(Current[n])
                /\ HasCNI => cni = cniConfig(InfoOf(Current[n]).PodCIDR))

=============================================================================
