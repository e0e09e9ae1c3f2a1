------------------------------ MODULE Provider ------------------------------
(***************************************************************************)
(* What the five routing providers have in common, and the node map as     *)
(* they see it.                                                            *)
(*                                                                         *)
(* A provider reaches the node map through IsVersion and Snapshot only.    *)
(* Module Agent shows what these give: one view of the cluster per         *)
(* version, and a new version whenever the view changes.  Here the view    *)
(* changes to any member of Views.                                         *)
(*                                                                         *)
(* A view is [Name, PodCIDR, Address, nodes]: name (Nil if the local node  *)
(* is not identified), PodCIDR and Address of the local node, and for each *)
(* node of the map its PodCIDR and Address.  A network is [ip, len], an    *)
(* IPv4 address a sequence of four bytes.                                  *)
(***************************************************************************)
EXTENDS Integers, Sequences, FiniteSets

CONSTANTS
    Node,        \* names of nodes
    Views,       \* what the node map may hold
    EmptyView,   \* the view of version 0: the list of nodes was empty
    MaxVersion,  \* bound: changes of the node map
    MaxRestarts, \* bound: restarts of the agent
    Nil

ASSUME ProviderTypes ==
    /\ \A v \in Views \cup {EmptyView} :
          /\ v.Name \in Node \cup {Nil}
          /\ DOMAIN v.nodes = Node
    /\ \A n \in Node : EmptyView.nodes[n] = Nil
    /\ MaxVersion \in Nat
    /\ MaxRestarts \in Nat

VARIABLES
    version, view,       \* the node map
    pc,                  \* where EnsureCIDRs is
    snap,                \* its local view, and the version of it
    lastVersionApplied,
    restarts

mapVars == <<version, view>>
provVars == <<pc, snap, lastVersionApplied, restarts>>

ProviderInit ==
    /\ version = 0 /\ view = EmptyView
    /\ pc = "idle"
    /\ snap = [view |-> EmptyView, version |-> 0]
    /\ lastVersionApplied = 0
    /\ restarts = 0

ProviderTypeOK ==
    /\ version \in 0 .. MaxVersion
    /\ view \in Views \cup {EmptyView}
    /\ snap \in [view : Views \cup {EmptyView}, version : 0 .. version]
    /\ lastVersionApplied \in 0 .. version
    /\ restarts \in 0 .. MaxRestarts

\* The node map changes.
Change ==
    /\ version < MaxVersion
    /\ view' \in Views \ {view}
    /\ version' = version + 1
    /\ UNCHANGED provVars

\* The early return is not taken.
Stale == lastVersionApplied = 0 \/ lastVersionApplied # version

\* EnsureCIDRs is called and does not return at once.
Start ==
    /\ pc = "idle" /\ Stale
    /\ pc' = "snapshot"
    /\ UNCHANGED <<mapVars, snap, lastVersionApplied, restarts>>

\* Snapshot, and the checks of the local node; what follows starts at first.
TakeSnapshot(usable, first) ==
    /\ pc = "snapshot"
    /\ snap' = [view |-> view, version |-> version]
    /\ pc' = IF usable THEN first ELSE "idle"
    /\ UNCHANGED <<mapVars, lastVersionApplied, restarts>>

\* The loop over allNodes: nodes other than the local one, with an address and
\* a PodCIDR.
Remotes(v) ==
    {n \in Node : /\ v.nodes[n] # Nil /\ n # v.Name
                  /\ v.nodes[n].Address # Nil /\ v.nodes[n].PodCIDR # Nil}

\* EnsureCIDRs returns an error, or its last assignment is made and it returns.
ReturnError ==
    /\ pc' = "idle"
    /\ UNCHANGED <<mapVars, snap, lastVersionApplied, restarts>>

\* Mutant: the recorded version is one ahead of the snapshot.
ReturnOKAhead ==
    /\ pc' = "idle"
    /\ lastVersionApplied' = snap.version + 1
    /\ UNCHANGED <<mapVars, snap, restarts>>

\* Mutant: no version is recorded.
ReturnOKUnrecorded ==
    /\ pc' = "idle"
    /\ UNCHANGED <<mapVars, snap, lastVersionApplied, restarts>>

ReturnOK ==
    /\ pc' = "idle"
    /\ lastVersionApplied' = snap.version
    /\ UNCHANGED <<mapVars, snap, restarts>>

\* The agent starts anew; what it lists is what the old one had, or newer.
ProcessStarts ==
    /\ pc' = "idle"
    /\ lastVersionApplied' = 0
    /\ snap' = [view |-> EmptyView, version |-> 0]
    /\ UNCHANGED mapVars

\* The early return would be taken: the provider claims to be up to date.
UpToDate == ~Stale

=============================================================================
