---------------------------- MODULE Layer2Proofs ----------------------------
(***************************************************************************)
(* An up-to-date layer2 provider has the right routes, in any cluster.     *)
(***************************************************************************)
EXTENDS Layer2, ProviderProofs

\* Nothing is removed and nothing doubled; while routes are added, those of the
\* snapshot are there or still to come.
RouteInv ==
    /\ \A r, s \in routes : r.dst = s.dst => r = s
    /\ pc = "add" => Routes(snap.view) \subseteq routes \cup todo
    /\ UpToDate => Routes(snap.view) \subseteq routes

IndInv == MapInv /\ RouteInv

LEMMA InitInd == Init => IndInv
BY InitMap, InitialRoutesAssumption DEF Init, ProviderInit, IndInv, RouteInv, UpToDate

LEMMA NextInd == IndInv /\ [Next]_vars => IndInv'
<1> SUFFICES ASSUME IndInv, [Next]_vars PROVE IndInv'
  OBVIOUS
<1>0. MapInv /\ RouteInv
  BY DEF IndInv
<1>1. CASE Change /\ UNCHANGED <<todo, routes>>
  <2>1. MapInv' /\ Stale' /\ UNCHANGED provVars
    BY <1>0, <1>1, ChangeMap
  <2> QED
    BY <1>0, <1>1, <2>1 DEF IndInv, RouteInv, UpToDate, provVars, Routes, RouteOf, Remotes
<1>2. CASE Skip \/ UNCHANGED vars
  <2>1. UNCHANGED <<mapVars, pc, snap, lastVersionApplied, todo, routes>>
    BY <1>2 DEF Skip, vars, provVars, mapVars
  <2>2. MapInv' /\ (Stale' <=> Stale)
    BY <1>0, <2>1, SameMap
  <2> QED
    BY <1>0, <2>1, <2>2 DEF IndInv, RouteInv, UpToDate
<1>3. CASE Begin
  <2>1. MapInv' /\ Stale' /\ pc' = "snapshot" /\ UNCHANGED routes
    BY <1>0, <1>3, StartMap DEF Begin, Start
  <2> QED
    BY <1>0, <2>1 DEF IndInv, RouteInv, UpToDate
<1>4. CASE Observe
  <2>1. MapInv' /\ Stale' /\ pc' # "add" /\ UNCHANGED routes
    BY <1>0, <1>4, SnapshotMap DEF Observe, TakeSnapshot
  <2> QED
    BY <1>0, <2>1 DEF IndInv, RouteInv, UpToDate
<1>5. CASE PlanRoutes
  <2>1. MapInv' /\ Stale'
    BY <1>0, <1>5, InsideMap DEF PlanRoutes
  <2>2. Routes(snap.view) \subseteq routes \cup todo'
    BY <1>5 DEF PlanRoutes, RouteCreate
  <2> QED
    BY <1>0, <1>5, <2>1, <2>2 DEF IndInv, RouteInv, UpToDate, PlanRoutes
<1>6. CASE RouteAdd
  <2>1. MapInv' /\ Stale'
    BY <1>0, <1>6, InsideMap DEF RouteAdd, provVars
  <2>2. PICK r \in todo : ~Refused(r) /\ routes' = routes \cup {r} /\ todo' = todo \ {r}
    BY <1>6 DEF RouteAdd
  <2>3. \A s, t \in routes' : s.dst = t.dst => s = t
    BY <1>0, <2>2 DEF RouteInv, Refused
  <2>4. Routes(snap.view) \subseteq routes' \cup todo'
    BY <1>0, <1>6, <2>2 DEF RouteInv, RouteAdd
  <2> QED
    BY <1>6, <2>1, <2>3, <2>4 DEF IndInv, RouteInv, UpToDate, RouteAdd, provVars
<1>7. CASE RouteRefused \/ Fail
  <2>1. pc # "idle" /\ ReturnError /\ UNCHANGED routes
    BY <1>7 DEF RouteRefused, Fail, Return
  <2>2. MapInv' /\ Stale' /\ pc' = "idle"
    BY <1>0, <2>1, InsideMap DEF ReturnError
  <2> QED
    BY <1>0, <2>1, <2>2 DEF IndInv, RouteInv, UpToDate
<1>8. CASE Commit
  <2>1. pc = "add" /\ todo = {} /\ ReturnOK /\ UNCHANGED routes
    BY <1>8 DEF Commit, Return
  <2>2. MapInv' /\ snap' = snap /\ pc' = "idle"
    BY <1>0, <2>1, ReturnMap DEF ReturnOK
  <2> QED
    BY <1>0, <2>1, <2>2 DEF IndInv, RouteInv
<1>9. CASE Restart
  <2>1. ProcessStarts /\ UNCHANGED routes
    BY <1>9 DEF Restart, Return
  <2>2. MapInv' /\ Stale' /\ pc' = "idle"
    BY <1>0, <2>1, ProcessMap DEF ProcessStarts
  <2> QED
    BY <1>0, <2>1, <2>2 DEF IndInv, RouteInv, UpToDate
<1> QED
  BY <1>1, <1>2, <1>3, <1>4, <1>5, <1>6, <1>7, <1>8, <1>9 DEF Next, EnsureStep

LEMMA IndImpliesRoutes == IndInv => UpToDateRoutes
<1> SUFFICES ASSUME IndInv, UpToDate, NEW n \in Remotes(view)
             PROVE  {r.gw : r \in {s \in routes : s.dst = view.nodes[n].PodCIDR}}
                        = {view.nodes[n].Address}
  BY DEF UpToDateRoutes
<1> DEFINE route == RouteOf(view.nodes[n])
<1>1. snap.view = view
  BY UpToDateView DEF IndInv
<1>2. route \in routes
  BY <1>1 DEF IndInv, RouteInv, Routes
<1>3. route.dst = view.nodes[n].PodCIDR /\ route.gw = view.nodes[n].Address
  BY DEF RouteOf
<1>4. \A s \in routes : s.dst = route.dst => s = route
  BY <1>2 DEF IndInv, RouteInv
<1> HIDE DEF route
<1> QED
  BY <1>2, <1>3, <1>4

\* Whenever the provider takes itself to be up to date, every remote node's
\* PodCIDR is routed to that node's address alone: in any cluster, from any
\* routing table, whatever calls failed or were refused.
THEOREM RoutesCorrect == Spec => []UpToDateRoutes
<1>1. Init => IndInv
  BY InitInd
<1>2. IndInv /\ [Next]_vars => IndInv'
  BY NextInd
<1>3. IndInv => UpToDateRoutes
  BY IndImpliesRoutes
<1> QED
  BY <1>1, <1>2, <1>3, PTL DEF Spec

-----------------------------------------------------------------------------
(***************************************************************************)
(* Types.                                                                  *)
(***************************************************************************)

FormInv ==
    /\ BoundInv
    /\ pc \in {"idle", "snapshot", "plan", "add"}
    /\ \A r \in routes \cup todo : DOMAIN r = {"dst", "gw"}
    /\ pc # "add" => todo = {}

LEMMA InitForm == Init => FormInv
BY InitBound, InitialRoutesAssumption DEF Init, ProviderInit, FormInv

LEMMA NextForm == IndInv /\ FormInv /\ [Next]_vars => FormInv'
<1> SUFFICES ASSUME IndInv, FormInv, [Next]_vars PROVE FormInv'
  OBVIOUS
<1> USE DEF mapVars, provVars
<1>1. BoundInv'
  <2>1. /\ Change \/ UNCHANGED version
        /\ UNCHANGED restarts \/ (restarts < MaxRestarts /\ restarts' = restarts + 1)
    BY DEF Next, vars, Change, Skip, EnsureStep, Begin, Start, Observe, TakeSnapshot, PlanRoutes,
       RouteAdd, RouteRefused, Commit, ReturnOK, Fail, ReturnError, Restart, ProcessStarts, Return
  <2> QED
    BY <2>1, NextBound DEF IndInv, FormInv
<1>2. pc' \in {"idle", "snapshot", "plan", "add"} /\ (pc' # "add" => todo' = {})
  BY DEF FormInv, Next, vars, Change, Skip, EnsureStep, Begin, Start, Observe, TakeSnapshot,
     PlanRoutes, RouteAdd, RouteRefused, Commit, ReturnOK, Fail, ReturnError, Restart,
     ProcessStarts, Return
<1>3. \A r \in routes' \cup todo' : DOMAIN r = {"dst", "gw"}
  <2>1. \A r \in Routes(snap.view) : DOMAIN r = {"dst", "gw"}
    BY DEF Routes, RouteOf
  <2>2. \A r \in routes' \cup todo' : r \in routes \cup todo \cup Routes(snap.view)
    BY DEF Next, vars, Change, Skip, EnsureStep, Begin, Observe, PlanRoutes, RouteCreate,
       RouteAdd, RouteRefused, Commit, Fail, Restart, Return
  <2> QED
    BY <2>1, <2>2 DEF FormInv
<1> QED
  BY <1>1, <1>2, <1>3 DEF FormInv

\* The values of all variables, in particular that no route is left to be created
\* when EnsureCIDRs has returned.
THEOREM TypesCorrect == Spec => []TypeOK
<1>1. Init => IndInv /\ FormInv
  BY InitInd, InitForm
<1>2. IndInv /\ FormInv /\ [Next]_vars => IndInv' /\ FormInv'
  BY NextInd, NextForm
<1>3. IndInv /\ FormInv => TypeOK
  BY ProviderTyped DEF IndInv, FormInv, TypeOK
<1> QED
  BY <1>1, <1>2, <1>3, PTL DEF Spec

=============================================================================
