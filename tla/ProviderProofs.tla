--------------------------- MODULE ProviderProofs ---------------------------
(***************************************************************************)
(* Facts about module Provider that the proofs of the providers share:     *)
(* how versions, the snapshot and the recorded version hang together.      *)
(***************************************************************************)
EXTENDS Provider, TLAPS

AllViews == Views \cup {EmptyView}

\* The snapshot is the view of its version, what was applied is not newer, and
\* EnsureCIDRs runs only on a stale version.
MapInv ==
    /\ version \in Nat /\ lastVersionApplied \in Nat
    /\ view \in AllViews
    /\ snap \in [view : AllViews, version : Nat]
    /\ lastVersionApplied <= snap.version /\ snap.version <= version
    /\ snap.version = version => snap.view = view
    /\ version = 0 => view = EmptyView
    /\ pc # "idle" => Stale

LEMMA InitMap ==
    ASSUME ProviderInit
    PROVE  MapInv /\ Stale
BY DEF ProviderInit, MapInv, AllViews, Stale

\* A change makes what was applied stale.
LEMMA ChangeMap ==
    ASSUME MapInv, Change
    PROVE  MapInv' /\ Stale' /\ UNCHANGED provVars
<1> USE DEF Change, provVars, MapInv
<1>1. version' \in Nat /\ version' > version /\ view' \in AllViews
  BY DEF AllViews
<1>2. Stale'
  BY <1>1 DEF Stale
<1> QED
  BY <1>1, <1>2

\* Steps of EnsureCIDRs before its return, and a return with an error.
LEMMA InsideMap ==
    ASSUME MapInv, pc # "idle", UNCHANGED <<mapVars, snap, lastVersionApplied>>
    PROVE  MapInv' /\ Stale /\ Stale'
BY DEF MapInv, mapVars, Stale

LEMMA StartMap ==
    ASSUME MapInv, Start
    PROVE  MapInv' /\ Stale /\ Stale'
BY DEF MapInv, Start, mapVars, Stale

LEMMA SnapshotMap ==
    ASSUME MapInv, NEW usable, NEW first, TakeSnapshot(usable, first)
    PROVE  MapInv' /\ Stale /\ Stale' /\ snap'.view = view
<1> USE DEF TakeSnapshot, MapInv, mapVars
<1>1. Stale /\ Stale'
  BY DEF Stale
<1>2. snap' \in [view : AllViews, version : Nat] /\ snap'.view = view /\ snap'.version = version
  OBVIOUS
<1> QED
  BY <1>1, <1>2

LEMMA ReturnMap ==
    ASSUME MapInv, pc # "idle", ReturnOK
    PROVE  MapInv' /\ snap' = snap
BY DEF MapInv, ReturnOK, mapVars, Stale

LEMMA ProcessMap ==
    ASSUME MapInv, ProcessStarts
    PROVE  MapInv' /\ Stale'
BY DEF MapInv, ProcessStarts, mapVars, Stale, AllViews

LEMMA SameMap ==
    ASSUME MapInv, UNCHANGED <<mapVars, pc, snap, lastVersionApplied>>
    PROVE  MapInv' /\ (Stale' <=> Stale)
BY DEF MapInv, mapVars, Stale

\* An up-to-date provider has applied the view the map has now.
LEMMA UpToDateView ==
    ASSUME MapInv, UpToDate
    PROVE  snap.view = view /\ pc = "idle"
BY DEF MapInv, UpToDate, Stale

-----------------------------------------------------------------------------
\* The bounds of the model.
BoundInv == version <= MaxVersion /\ restarts \in 0 .. MaxRestarts

LEMMA InitBound ==
    ASSUME ProviderInit
    PROVE  BoundInv
BY ProviderTypes DEF ProviderInit, BoundInv

\* The node map changes by Change alone, and restarts are counted.
LEMMA NextBound ==
    ASSUME MapInv, BoundInv, Change \/ UNCHANGED version,
           UNCHANGED restarts \/ (restarts < MaxRestarts /\ restarts' = restarts + 1)
    PROVE  BoundInv'
BY ProviderTypes DEF MapInv, BoundInv, Change

LEMMA ProviderTyped ==
    ASSUME MapInv, BoundInv
    PROVE  ProviderTypeOK
<1>1. version \in 0 .. MaxVersion /\ lastVersionApplied \in 0 .. version
  BY ProviderTypes DEF MapInv, BoundInv
<1>2. snap \in [view : Views \cup {EmptyView}, version : 0 .. version]
  <2>1. /\ snap = [view |-> snap.view, version |-> snap.version]
        /\ snap.view \in Views \cup {EmptyView} /\ snap.version \in 0 .. version
    BY DEF MapInv, AllViews
  <2> QED
    BY <2>1
<1> QED
  BY <1>1, <1>2 DEF ProviderTypeOK, MapInv, BoundInv, AllViews

=============================================================================
