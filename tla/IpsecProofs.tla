---------------------------- MODULE IpsecProofs -----------------------------
(***************************************************************************)
(* What holds of provider ipsec for any cluster and any options.           *)
(*                                                                         *)
(* UpToDateStates is not inductive.  That the kernel's states agree with   *)
(* the expected ones in SPI, protocol and destination follows from the     *)
(* phases of EnsureCIDRs: XfrmStateUpdate fails unless it finds such a     *)
(* state.  That they agree in the rest, but for the source, follows from   *)
(* the fact that every state was made for some view by the running         *)
(* process, for which the flush at its start is needed.                    *)
(***************************************************************************)
EXTENDS Ipsec, ProviderProofs, SequenceTheorems, FiniteSetTheorems

\* State e is one that a process with strategies s makes, up to its addresses.
Kind(e, s) ==
    /\ e = [Proto |-> e.Proto, Spi |-> e.Spi, Src |-> e.Src, Dst |-> e.Dst,
            Algo |-> e.Algo, Encap |-> e.Encap]
    /\ \/ e.Proto = "AH" /\ e.Spi % 4 = 0 /\ e.Algo = s.Auth /\ e.Encap = "none"
       \/ e.Proto = "ESP" /\ e.Spi % 4 = 1 /\ e.Algo = s.Crypt /\ e.Encap = s.Encap

\* The states agree with those of view v in SPI, protocol and destination.
Settled(v) ==
    /\ \A e \in States(v, strategy) : Located(states, e)
    /\ StateRemove(states, States(v, strategy)) = {}

TypeInv ==
    /\ version \in Nat /\ lastVersionApplied \in Nat
    /\ view \in AllViews
    /\ snap \in [view : AllViews, version : Nat]

\* The snapshot is the view of its version; what was applied is not newer.
VersionInv ==
    /\ lastVersionApplied <= snap.version /\ snap.version <= version
    /\ snap.version = version => snap.view = view
    /\ version = 0 => view = EmptyView

\* EnsureCIDRs runs only in a process that has started, on a stale version.
RunInv ==
    /\ pc # "idle" => Stale /\ boot = "done"
    /\ boot # "done" => lastVersionApplied = 0
    /\ pc \in {"states", "update", "policies"} => Usable(snap.view)

\* The running process made state s for a view.
Made(s) == \E v \in AllViews : Usable(v) /\ s \in States(v, strategy)

\* No two states have one SPI; after the flush all are of the running process.
StateInv ==
    /\ \A s, t \in states : s.Spi = t.Spi => s = t
    /\ boot = "done" => \A s \in states : Made(s)

\* States that have been looked at have the expected destination.
PhaseInv ==
    /\ pc = "update" => \A e \in ExpectedStates : e \in todo \/ Located(states, e)
    /\ pc = "policies" => Settled(snap.view)
    /\ UpToDate => Usable(snap.view) /\ Settled(snap.view)

IndInv == TypeInv /\ VersionInv /\ RunInv /\ StateInv /\ PhaseInv

-----------------------------------------------------------------------------
(***************************************************************************)
(* SPIs.                                                                   *)
(***************************************************************************)

\* Arithmetic of the three parts of an SPI.
LEMMA SpiParts ==
    ASSUME NEW x \in Int, NEW y \in Int, NEW b \in Int
    PROVE  x * 65536 + y * 4 + b = 4 * (x * 16384 + y) + b
OBVIOUS

LEMMA SpiPartsNat ==
    ASSUME NEW x \in Nat, NEW y \in Nat
    PROVE  x * 16384 + y \in Nat
OBVIOUS

LEMMA LowBits ==
    ASSUME NEW m \in Nat, NEW b \in 0 .. 1
    PROVE  (4 * m + b) % 4 = b
OBVIOUS

LEMMA Digits4 ==
    ASSUME NEW x \in Int, NEW u \in Int, NEW m \in Int, NEW n \in Int,
           0 <= m, m < 4, 0 <= n, n < 4, 4 * x + m = 4 * u + n
    PROVE  x = u /\ m = n
OBVIOUS

LEMMA Digits16384 ==
    ASSUME NEW x \in Int, NEW u \in Int, NEW m \in Int, NEW n \in Int,
           0 <= m, m < 16384, 0 <= n, n < 16384, x * 16384 + m = u * 16384 + n
    PROVE  x = u /\ m = n
OBVIOUS

LEMMA Mod16384 ==
    ASSUME NEW q \in Int
    PROVE  q % 16384 \in Nat /\ q % 16384 < 16384
OBVIOUS

\* computeNodeNumeral gives a number of 14 bits for every IPv4 network.
LEMMA NumeralType ==
    ASSUME NEW net, Net4(net)
    PROVE  computeNodeNumeral(net) \in Nat /\ computeNodeNumeral(net) < 16384
<1> DEFINE p == 2 ^ (32 - net.len)
           v == Number(net.ip)
<1>1. p \in Nat \ {0}
  <2> DEFINE k == 32 - net.len
  <2>1. p = 2 ^ k
    OBVIOUS
  <2>2. net.len \in 2 .. 32
    BY Zenon DEF Net4
  <2> HIDE DEF p
  <2>3. k \in 0 .. 30
    BY <2>2, SMTT(30)
  <2> HIDE DEF k
  <2>4. 2 ^ k \in Nat \ {0}
    BY <2>3, PowersOfTwo, Zenon
  <2> QED
    BY <2>1, <2>4, Zenon
<1>2. v \in Int
  <2> HIDE DEF p
  <2>1. net.ip \in [1 .. 4 -> 0 .. 255]
    BY Zenon DEF Net4
  <2>2. net.ip[1] \in Int /\ net.ip[2] \in Int /\ net.ip[3] \in Int /\ net.ip[4] \in Int
    BY <2>1, SMTT(30)
  <2> QED
    BY <2>2, SMTT(30) DEF Number
<1>3. v \div p \in Int
  <2> HIDE DEF p, v
  <2> QED
    BY <1>1, <1>2
<1>4. (v \div p) % 16384 \in Nat /\ (v \div p) % 16384 < 16384
  <2> HIDE DEF p, v
  <2> QED
    BY <1>3, Mod16384
<1>5. computeNodeNumeral(net) = (v \div p) % 16384
  BY DEF computeNodeNumeral, NumeralBits
<1> QED
  BY <1>4, <1>5

\* EnsureCIDRs gives each ordered pair of nodes and each protocol an SPI of its
\* own, as long as the numerals of the nodes differ: the fields do not overlap.
THEOREM SpiInjective ==
    ASSUME NEW a, NEW b, NEW c, NEW d, NEW i \in 0 .. 1, NEW j \in 0 .. 1,
           Net4(a.PodCIDR), Net4(b.PodCIDR), Net4(c.PodCIDR), Net4(d.PodCIDR),
           Spi(a, b, i) = Spi(c, d, j)
    PROVE  /\ computeNodeNumeral(a.PodCIDR) = computeNodeNumeral(c.PodCIDR)
           /\ computeNodeNumeral(b.PodCIDR) = computeNodeNumeral(d.PodCIDR)
           /\ i = j
<1> DEFINE x == computeNodeNumeral(a.PodCIDR)
           y == computeNodeNumeral(b.PodCIDR)
           u == computeNodeNumeral(c.PodCIDR)
           w == computeNodeNumeral(d.PodCIDR)
<1>1. x \in Nat /\ y \in Nat /\ u \in Nat /\ w \in Nat /\ y < 16384 /\ w < 16384
  BY NumeralType
<1>2. x * 65536 + y * 4 + i = u * 65536 + w * 4 + j
  BY DEF Spi
<1> HIDE DEF x, y, u, w
<1>3. x \in Int /\ y \in Int /\ u \in Int /\ w \in Int /\ i \in Int /\ j \in Int
  BY <1>1
<1>4. 4 * (x * 16384 + y) + i = 4 * (u * 16384 + w) + j
  <2>1. x * 65536 + y * 4 + i = 4 * (x * 16384 + y) + i
    BY <1>3, SpiParts
  <2>2. u * 65536 + w * 4 + j = 4 * (u * 16384 + w) + j
    BY <1>3, SpiParts
  <2> QED
    BY <1>2, <2>1, <2>2
<1>5. x * 16384 + y = u * 16384 + w /\ i = j
  <2> DEFINE m == x * 16384 + y
             n == u * 16384 + w
  <2>1. m \in Int /\ n \in Int
    BY <1>3
  <2>2. 4 * m + i = 4 * n + j
    BY <1>4
  <2>3. 0 <= i /\ i < 4 /\ 0 <= j /\ j < 4
    OBVIOUS
  <2> HIDE DEF m, n
  <2>4. m = n /\ i = j
    BY <1>3, <2>1, <2>2, <2>3, Digits4
  <2> QED
    BY <2>4 DEF m, n
<1>6. 0 <= y /\ y < 16384 /\ 0 <= w /\ w < 16384
  BY <1>1
<1>7. x = u /\ y = w
  BY <1>3, <1>5, <1>6, Digits16384
<1> QED
  BY <1>5, <1>7 DEF x, y, u, w

\* The agents of two nodes with the same options have the same states for each
\* other: what is outbound for one is inbound for the other.
THEOREM EndsAgree ==
    ASSUME NEW me, NEW remote, NEW s
    PROVE  StatesFor(me, remote, s) = StatesFor(remote, me, s)
BY DEF StatesFor

\* The last bits of an SPI tell the protocol.
LEMMA SpiKind ==
    ASSUME NEW a, NEW b, NEW i \in 0 .. 1, Net4(a.PodCIDR), Net4(b.PodCIDR)
    PROVE  Spi(a, b, i) % 4 = i
<1> DEFINE x == computeNodeNumeral(a.PodCIDR)
           y == computeNodeNumeral(b.PodCIDR)
<1>1. x \in Nat /\ y \in Nat
  BY NumeralType
<1>2. Spi(a, b, i) = x * 65536 + y * 4 + i
  BY DEF Spi
<1> HIDE DEF x, y
<1>3. Spi(a, b, i) = 4 * (x * 16384 + y) + i
  <2>1. x \in Int /\ y \in Int /\ i \in Int
    BY <1>1
  <2> QED
    BY <1>2, <2>1, SpiParts
<1>4. x * 16384 + y \in Nat
  BY <1>1, SpiPartsNat
<1> QED
  BY <1>3, <1>4, LowBits

\* All states that EnsureCIDRs expects are of the kind of the process.
LEMMA ExpectedKind ==
    ASSUME NEW v \in AllViews, Usable(v), NEW s, NEW e \in States(v, s)
    PROVE  Kind(e, s)
<1>1. PICK n \in Remotes(v) : e \in StatesFor(Local(v), v.nodes[n], s)
  BY DEF States
<1> DEFINE me == Local(v)
           remote == v.nodes[n]
<1>2. Net4(me.PodCIDR) /\ Net4(remote.PodCIDR)
  BY PodCIDRTypes DEF AllViews, Local
<1>3. e \in StatesFor(me, remote, s)
  BY <1>1
<1> HIDE DEF me, remote
<1>4. ASSUME NEW x, NEW y, Net4(x.PodCIDR), Net4(y.PodCIDR)
      PROVE  Kind(StateAH(x, y, s), s) /\ Kind(StateESP(x, y, s), s)
  <2>1. Spi(x, y, 0) % 4 = 0 /\ Spi(x, y, 1) % 4 = 1
    BY <1>4, SpiKind
  <2> QED
    BY <2>1 DEF Kind, StateAH, StateESP
<1> QED
  BY <1>2, <1>3, <1>4 DEF StatesFor

LEMMA SameKind ==
    ASSUME NEW s, NEW a, NEW e, Kind(a, s), Kind(e, s), a.Spi = e.Spi, a.Dst = e.Dst
    PROVE  SameButSource(a, e)
<1>1. a.Proto = e.Proto
  BY DEF Kind
<1>2. a.Algo = e.Algo /\ a.Encap = e.Encap
  BY <1>1 DEF Kind
<1>3. /\ a = [Proto |-> a.Proto, Spi |-> a.Spi, Src |-> a.Src, Dst |-> a.Dst,
             Algo |-> a.Algo, Encap |-> a.Encap]
      /\ e = [Proto |-> e.Proto, Spi |-> e.Spi, Src |-> e.Src, Dst |-> e.Dst,
              Algo |-> e.Algo, Encap |-> e.Encap]
  BY DEF Kind
<1>4. [e EXCEPT !.Src = a.Src] =
         [Proto |-> e.Proto, Spi |-> e.Spi, Src |-> a.Src, Dst |-> e.Dst,
          Algo |-> e.Algo, Encap |-> e.Encap]
  BY <1>3
<1> QED
  BY <1>1, <1>2, <1>3, <1>4 DEF SameButSource

LEMMA MadeKind ==
    ASSUME StateInv, boot = "done"
    PROVE  \A s \in states : Kind(s, strategy)
BY ExpectedKind DEF StateInv, Made

\* States that agree in SPI and destination with the expected ones are those, but
\* for their sources.
LEMMA SettledSame ==
    ASSUME NEW v \in AllViews, Usable(v), Settled(v), StateInv, boot = "done"
    PROVE  /\ \A e \in States(v, strategy) : \E s \in states : SameButSource(s, e)
           /\ \A s \in states : \E e \in States(v, strategy) : SameButSource(s, e)
<1>1. ASSUME NEW e \in States(v, strategy)
      PROVE  \E a \in states : a.Spi = e.Spi /\ SameButSource(a, e)
  <2>1. PICK a \in states : a.Spi = e.Spi /\ a.Dst = e.Dst
    BY DEF Settled, Located
  <2>2. Kind(a, strategy) /\ Kind(e, strategy)
    BY MadeKind, ExpectedKind
  <2>3. SameButSource(a, e)
    BY <2>1, <2>2, SameKind
  <2> QED
    BY <2>1, <2>3
<1>2. ASSUME NEW s \in states
      PROVE  \E e \in States(v, strategy) : SameButSource(s, e)
  <2>1. PICK e \in States(v, strategy) : e.Spi = s.Spi
    BY DEF Settled, StateRemove
  <2>2. PICK a \in states : a.Spi = e.Spi /\ SameButSource(a, e)
    BY <1>1
  <2>3. a = s
    BY <2>1, <2>2 DEF StateInv
  <2> QED
    BY <2>2, <2>3
<1> QED
  BY <1>1, <1>2

-----------------------------------------------------------------------------
(***************************************************************************)
(* The inductive invariant.                                                *)
(***************************************************************************)

LEMMA InitInd == Init => IndInv
<1> SUFFICES ASSUME Init PROVE IndInv
  OBVIOUS
<1> USE DEF Init, ProviderInit
<1>1. TypeInv /\ VersionInv
  BY DEF TypeInv, VersionInv, AllViews
<1>2. RunInv /\ StateInv
  BY DEF RunInv, StateInv, Stale
<1>3. PhaseInv
  BY DEF PhaseInv, UpToDate, Stale
<1> QED
  BY <1>1, <1>2, <1>3 DEF IndInv

\* A step that leaves the provider's process and the kernel's states alone.
LEMMA ChangeInd ==
    ASSUME IndInv, Change, UNCHANGED <<boot, strategy, expected, todo, xfrmVars>>
    PROVE  IndInv'
<1> USE DEF Change, provVars, xfrmVars
<1>0. TypeInv /\ VersionInv /\ RunInv /\ StateInv /\ PhaseInv
  BY DEF IndInv
<1>1. TypeInv' /\ version' > version /\ version' # 0
  BY <1>0 DEF TypeInv, AllViews
<1>2. VersionInv'
  BY <1>0, <1>1 DEF VersionInv, TypeInv
<1>3. Stale'
  BY <1>0, <1>1 DEF Stale, VersionInv, TypeInv
<1>4. RunInv'
  BY <1>0, <1>3 DEF RunInv, Usable, AllIPv4, Remotes
<1>5. StateInv'
  BY <1>0 DEF StateInv, Made
<1>6. PhaseInv'
  BY <1>0, <1>3 DEF PhaseInv, UpToDate, Settled, ExpectedStates
<1> QED
  BY <1>1, <1>2, <1>4, <1>5, <1>6 DEF IndInv

\* The process ends.
LEMMA ExitInd ==
    ASSUME IndInv, Exit
    PROVE  IndInv'
<1> USE DEF Exit, ProcessStarts, mapVars, xfrmVars
<1>0. TypeInv /\ VersionInv /\ StateInv
  BY DEF IndInv
<1>1. TypeInv'
  BY <1>0 DEF TypeInv, AllViews
<1>2. VersionInv'
  BY <1>0 DEF VersionInv, TypeInv
<1>3. RunInv' /\ StateInv'
  BY <1>0 DEF RunInv, StateInv
<1>4. PhaseInv'
  BY DEF PhaseInv, UpToDate, Stale
<1> QED
  BY <1>1, <1>2, <1>3, <1>4 DEF IndInv

\* The process starts; after the flush there is no state of an older one.
LEMMA BootInd ==
    ASSUME IndInv, BootStep
    PROVE  IndInv'
<1> USE DEF mapVars, provVars, xfrmVars
<1>0. TypeInv /\ VersionInv /\ RunInv /\ StateInv
  BY DEF IndInv
<1>1. UNCHANGED <<mapVars, provVars, strategy>> /\ boot # "done"
  BY DEF BootStep, NewIpsecRoutingProvider, FlushPolicies, FlushStates
<1>2. TypeInv' /\ VersionInv'
  BY <1>0, <1>1 DEF TypeInv, VersionInv
<1>3. pc = "idle" /\ lastVersionApplied = 0
  BY <1>0, <1>1 DEF RunInv
<1>4. RunInv' /\ PhaseInv'
  BY <1>1, <1>3 DEF RunInv, PhaseInv, UpToDate, Stale
<1>5. StateInv'
  BY <1>0, <1>1 DEF StateInv, BootStep, NewIpsecRoutingProvider, FlushPolicies, FlushStates
<1> QED
  BY <1>2, <1>4, <1>5 DEF IndInv

\* EnsureCIDRs is called, or ends with an error: the states stay as they are.
LEMMA QuietInd ==
    ASSUME IndInv, UNCHANGED <<mapVars, snap, lastVersionApplied, boot, strategy, states>>,
           pc' \in {"idle", "snapshot"}, pc' # "idle" => Stale /\ boot = "done"
    PROVE  IndInv'
<1> USE DEF mapVars
<1>0. TypeInv /\ VersionInv /\ RunInv /\ StateInv /\ PhaseInv
  BY DEF IndInv
<1>1. TypeInv' /\ VersionInv'
  BY <1>0 DEF TypeInv, VersionInv
<1>2. RunInv'
  BY <1>0 DEF RunInv, Stale
<1>3. StateInv'
  BY <1>0 DEF StateInv, Made
<1>4. PhaseInv'
  BY <1>0 DEF PhaseInv, UpToDate, Stale, Settled
<1> QED
  BY <1>1, <1>2, <1>3, <1>4 DEF IndInv

\* A step of the policies, or an update, which changes no state.
LEMMA SamePhaseInd ==
    ASSUME IndInv, UNCHANGED <<mapVars, snap, lastVersionApplied, boot, strategy, states, pc>>,
           pc = "update" => \A e \in todo : e \in todo' \/ Located(states, e)
    PROVE  IndInv'
<1> USE DEF mapVars
<1>0. TypeInv /\ VersionInv /\ RunInv /\ StateInv /\ PhaseInv
  BY DEF IndInv
<1>1. TypeInv' /\ VersionInv'
  BY <1>0 DEF TypeInv, VersionInv
<1>2. RunInv'
  BY <1>0 DEF RunInv, Stale
<1>3. StateInv'
  BY <1>0 DEF StateInv, Made
<1>4. PhaseInv'
  BY <1>0 DEF PhaseInv, UpToDate, Stale, Settled, ExpectedStates
<1> QED
  BY <1>1, <1>2, <1>3, <1>4 DEF IndInv

LEMMA ObserveInd ==
    ASSUME IndInv, Observe
    PROVE  IndInv'
<1> USE DEF Observe, TakeSnapshot, mapVars, xfrmVars
<1>0. TypeInv /\ VersionInv /\ RunInv /\ StateInv /\ PhaseInv
  BY DEF IndInv
<1>1. TypeInv' /\ snap'.version = version /\ snap'.view = view
  BY <1>0 DEF TypeInv
<1>2. VersionInv'
  BY <1>0, <1>1 DEF VersionInv, TypeInv
<1>3. Stale /\ Stale'
  BY <1>0 DEF RunInv, Stale
<1>4. RunInv'
  BY <1>0, <1>1, <1>3 DEF RunInv
<1>5. StateInv'
  BY <1>0 DEF StateInv, Made
<1>6. PhaseInv'
  BY <1>3 DEF PhaseInv, UpToDate
<1> QED
  BY <1>1, <1>2, <1>4, <1>5, <1>6 DEF IndInv

\* The steps of XfrmStateTable.Ensure that change states or go to the next phase.
LEMMA StatesInd ==
    ASSUME IndInv, StateAdd \/ PlanUpdates \/ StateDel \/ StatesEnsured
    PROVE  IndInv'
<1> USE DEF mapVars, provVars, xfrmVars
<1>0. TypeInv /\ VersionInv /\ RunInv /\ StateInv /\ PhaseInv
  BY DEF IndInv
<1>1. /\ UNCHANGED <<mapVars, snap, lastVersionApplied, boot, strategy>>
      /\ pc \in {"states", "update"} /\ pc' \in {"states", "update", "policies"}
  BY DEF StateAdd, PlanUpdates, StateDel, StatesEnsured, Enter
<1>2. TypeInv' /\ VersionInv'
  BY <1>0, <1>1 DEF TypeInv, VersionInv
<1>3. Stale /\ Stale' /\ boot = "done" /\ Usable(snap.view)
  BY <1>0, <1>1 DEF RunInv, Stale
<1>4. RunInv'
  BY <1>1, <1>3 DEF RunInv
<1>5. \A e \in ExpectedStates : Made(e)
  BY <1>0, <1>3 DEF TypeInv, ExpectedStates, Made
<1>6. StateInv'
  <2>1. \A s \in states' : s \in states \/ s \in ExpectedStates
    BY DEF StateAdd, PlanUpdates, StateDel, StatesEnsured, StateCreate
  <2>2. \A s, t \in states' : s.Spi = t.Spi => s = t
    <3>1. CASE StateAdd
      <4>1. PICK e \in StateCreate(states, ExpectedStates) : states' = states \cup {e}
        BY <3>1 DEF StateAdd
      <4> QED
        BY <1>0, <4>1 DEF StateInv, StateCreate
    <3>2. CASE states' \subseteq states
      BY <1>0, <3>2 DEF StateInv
    <3> QED
      BY <3>1, <3>2 DEF PlanUpdates, StateDel, StatesEnsured
  <2>3. \A s : Made(s) => Made(s)'
    BY <1>1 DEF Made
  <2> QED
    BY <1>0, <1>3, <1>5, <2>1, <2>2, <2>3 DEF StateInv
<1>7. ExpectedStates' = ExpectedStates
  BY <1>1 DEF ExpectedStates
<1>8. PhaseInv'
  <2>1. CASE StateAdd
    BY <1>3, <2>1 DEF StateAdd, PhaseInv, UpToDate
  <2>2. CASE PlanUpdates
    <3>1. \A e \in ExpectedStates : e \in todo' \/ Located(states', e)
      <4>1. \A e \in ExpectedStates : e \notin todo' => e \in states
        BY <2>2 DEF PlanUpdates, StateCreate, StateUpdates
      <4> QED
        BY <2>2, <4>1 DEF PlanUpdates, Located
    <3> QED
      BY <1>3, <1>7, <2>2, <3>1 DEF PlanUpdates, Enter, PhaseInv, UpToDate
  <2>3. CASE StateDel
    <3>1. \A e \in ExpectedStates : Located(states', e)
      <4>1. \A e \in ExpectedStates : Located(states, e)
        BY <1>0, <2>3 DEF PhaseInv, StateDel
      <4>2. PICK a \in StateRemove(states, ExpectedStates) : states' = states \ {a}
        BY <2>3 DEF StateDel
      <4> QED
        BY <4>1, <4>2 DEF Located, StateRemove
    <3> QED
      BY <1>3, <1>7, <2>3, <3>1 DEF StateDel, PhaseInv, UpToDate
  <2>4. CASE StatesEnsured
    BY <1>0, <1>1, <1>3, <1>7, <2>4 DEF StatesEnsured, Enter, PhaseInv, UpToDate, Settled,
       ExpectedStates
  <2> QED
    BY <2>1, <2>2, <2>3, <2>4
<1> QED
  BY <1>2, <1>4, <1>6, <1>8 DEF IndInv

LEMMA CommitInd ==
    ASSUME IndInv, Commit
    PROVE  IndInv'
<1> USE DEF Commit, ReturnOK, mapVars, xfrmVars
<1>0. TypeInv /\ VersionInv /\ RunInv /\ StateInv /\ PhaseInv
  BY DEF IndInv
<1>1. TypeInv'
  BY <1>0 DEF TypeInv
<1>2. VersionInv'
  BY <1>0 DEF VersionInv, TypeInv
<1>3. RunInv' /\ StateInv'
  BY <1>0 DEF RunInv, StateInv, Made
<1>4. PhaseInv'
  BY <1>0 DEF PhaseInv, RunInv, Settled
<1> QED
  BY <1>1, <1>2, <1>3, <1>4 DEF IndInv

LEMMA NextInd == IndInv /\ [Next]_vars => IndInv'
<1> SUFFICES ASSUME IndInv, [Next]_vars PROVE IndInv'
  OBVIOUS
<1> USE DEF mapVars, provVars, xfrmVars
<1>0. RunInv
  BY DEF IndInv
<1>1. CASE Change /\ UNCHANGED <<boot, strategy, expected, todo, xfrmVars>>
  BY <1>1, ChangeInd
<1>2. CASE Skip \/ UNCHANGED vars
  BY <1>2, SamePhaseInd DEF Skip, vars
<1>3. CASE BootStep
  BY <1>3, BootInd
<1>4. CASE Begin
  BY <1>4, QuietInd DEF Begin, Start
<1>5. CASE Observe
  BY <1>5, ObserveInd
<1>6. CASE StateAdd \/ PlanUpdates \/ StateDel \/ StatesEnsured
  BY <1>6, StatesInd
<1>7. CASE StateUpdate
  <2>1. CASE UNCHANGED provVars
    <3>1. PICK e \in todo : /\ Located(states, e) /\ todo' = todo \ {e}
                            \/ ReturnError
      BY <1>7 DEF StateUpdate
    <3>2. ~ReturnError
      BY <1>7, <2>1 DEF StateUpdate, ReturnError
    <3> QED
      BY <1>7, <2>1, <3>1, <3>2, SamePhaseInd DEF StateUpdate
  <2>2. CASE ReturnError
    BY <1>7, <2>2, QuietInd DEF StateUpdate, ReturnError
  <2> QED
    BY <1>7, <2>1, <2>2 DEF StateUpdate
<1>8. CASE PolicyAdd \/ PolicyUpdate \/ PolicyDel
  BY <1>8, SamePhaseInd DEF PolicyAdd, PolicyUpdate, PolicyDel
<1>9. CASE Commit
  BY <1>9, CommitInd
<1>10. CASE Fail
  BY <1>10, QuietInd DEF Fail, ReturnError
<1>11. CASE Fatal \/ BootFails \/ Restart
  BY <1>11, ExitInd DEF Fatal, BootFails, Restart
<1> QED
  BY <1>1, <1>2, <1>3, <1>4, <1>5, <1>6, <1>7, <1>8, <1>9, <1>10, <1>11
     DEF Next, EnsureStep

\* The invariant gives the property: the states expected here are those that the
\* remote agents expect.
LEMMA IndImpliesStates == IndInv => UpToDateStates
<1> SUFFICES ASSUME IndInv, UpToDate PROVE UpToDateStates
  BY DEF UpToDateStates
<1>0. TypeInv /\ VersionInv /\ RunInv /\ StateInv /\ PhaseInv
  BY DEF IndInv
<1>1. snap.view = view
  BY <1>0 DEF VersionInv, TypeInv, UpToDate, Stale
<1>2. Usable(view) /\ Settled(view) /\ view \in AllViews
  BY <1>0, <1>1 DEF PhaseInv, TypeInv
<1>3. boot = "done"
  BY <1>0 DEF RunInv, UpToDate, Stale
<1>4. /\ \A e \in States(view, strategy) : \E s \in states : SameButSource(s, e)
      /\ \A s \in states : \E e \in States(view, strategy) : SameButSource(s, e)
  BY <1>0, <1>2, <1>3, SettledSame
<1>5. States(view, strategy) = TheirStates(view)
  <2>1. \A n \in Remotes(view) : StatesFor(Local(view), view.nodes[n], strategy)
                                 = StatesFor(view.nodes[n], Local(view), strategy)
    BY EndsAgree
  <2> QED
    BY <2>1 DEF States, TheirStates
<1>6. \A s \in states : \E v \in Views : s \in States(v, strategy)
  <2>1. States(EmptyView, strategy) = {}
    BY ProviderTypes DEF States, Remotes
  <2> QED
    BY <1>0, <1>3, <2>1 DEF StateInv, Made, AllViews
<1> QED
  BY <1>4, <1>5, <1>6 DEF UpToDateStates

\* Whenever the provider takes itself to be up to date, the kernel's states are
\* the ones the agents of the other nodes have for this node, with one exception:
\* the source of a state may be the one it had in another view, since the kernel
\* does not change it.  For any number of nodes, any PodCIDRs and options, any
\* restarts and failures of EnsureCIDRs.
THEOREM StatesCorrect == Spec => []UpToDateStates
<1>1. Init => IndInv
  BY InitInd
<1>2. IndInv /\ [Next]_vars => IndInv'
  BY NextInd
<1>3. IndInv => UpToDateStates
  BY IndImpliesStates
<1> QED
  BY <1>1, <1>2, <1>3, PTL DEF Spec

-----------------------------------------------------------------------------
(***************************************************************************)
(* The policies.                                                           *)
(***************************************************************************)

NetDirs == {"in", "out", "fwd"}

\* The policies of view v, without those of the listener's socket, and these.
NodePolicies(me, remote) == {RemotePolicies(me, remote)[k] : k \in 1 .. 9}
NetPolicies(v) ==
    {Bypass(dir, 4500) : dir \in NetDirs} \cup
    UNION {NodePolicies(Local(v), v.nodes[n]) : n \in Remotes(v)}
SocketPolicies == {Bypass("socket_in", 0), Bypass("socket_out", 0)}

AllPolicies == SocketPolicies \cup UNION {NetPolicies(v) : v \in AllViews}

\* The tables of policies: those of the process are none of the socket's, no two
\* have the same key, and after an Ensure they are those of the snapshot.
PolicyInv ==
    /\ policies \in Seq(AllPolicies)
    /\ \A i \in DOMAIN policies : policies[i].Dir \in NetDirs
    /\ \A i, j \in DOMAIN policies : xfrmPolicyMatches(policies[i], policies[j]) => i = j
    /\ pc = "policies" => \E nodes \in Orders(Remotes(snap.view)) :
                             expected = Policies(snap.view, nodes)
    /\ pc # "policies" => expected = <<>>
    /\ UpToDate => Range(policies) = NetPolicies(snap.view)

\* An order of a set has every member of it.
LEMMA SequenceOfSet ==
    ASSUME NEW S, IsFiniteSet(S), NEW s \in Orders(S)
    PROVE  /\ Len(s) \in Nat /\ s \in [1 .. Len(s) -> S]
           /\ \A x \in S : \E i \in 1 .. Len(s) : s[i] = x
<1> DEFINE c == Cardinality(S)
<1>1. c \in Nat
  BY FS_CardinalityType
<1>2. s \in [1 .. c -> S] /\ \A x \in S : \E i \in 1 .. c : s[i] = x
  BY DEF Orders, Bijection, Surjection, Injection
<1> HIDE DEF c
<1>3. Len(s) = c
  BY <1>1, <1>2
<1> QED
  BY <1>1, <1>2, <1>3

\* Position k of nine entries for each of L nodes: which node, which entry.
LEMMA Nine ==
    ASSUME NEW L \in Nat, NEW k \in 1 .. 9 * L
    PROVE  ((k - 1) \div 9) + 1 \in 1 .. L /\ ((k - 1) % 9) + 1 \in 1 .. 9
OBVIOUS

LEMMA NineBack ==
    ASSUME NEW L \in Nat, NEW m \in 1 .. L, NEW j \in 1 .. 9
    PROVE  /\ 9 * (m - 1) + j \in 1 .. 9 * L
           /\ ((9 * (m - 1) + j - 1) \div 9) + 1 = m
           /\ ((9 * (m - 1) + j - 1) % 9) + 1 = j
OBVIOUS

\* The expected list has the policies of the view and of the socket, whatever the
\* order in which the nodes come.
LEMMA ExpectedPolicies ==
    ASSUME NEW v \in AllViews, NEW nodes \in Orders(Remotes(v))
    PROVE  /\ Policies(v, nodes) \in Seq(AllPolicies)
           /\ Range(Policies(v, nodes)) = NetPolicies(v) \cup SocketPolicies
<1> DEFINE R == Remotes(v)
           N == Len(nodes)
           a == [k \in 1 .. 3 |-> Bypass(Dirs[k], 4500)]
           b == [k \in 1 .. 2 |-> Bypass(SocketDirs[k], 0)]
           node(k) == ((k - 1) \div 9) + 1
           entry(k) == ((k - 1) % 9) + 1
           P(n) == RemotePolicies(Local(v), v.nodes[n])
           c == [k \in 1 .. 9 * N |-> P(nodes[node(k)])[entry(k)]]
           T == NetPolicies(v) \cup SocketPolicies
<1>1. Policies(v, nodes) = a \o b \o c
  BY DEF Policies
<1>2. /\ N \in Nat /\ nodes \in [1 .. N -> R]
      /\ \A n \in R : \E i \in 1 .. N : nodes[i] = n
  <2>1. IsFiniteSet(R)
    BY FiniteNodes, FS_Subset DEF Remotes
  <2> QED
    BY <2>1, SequenceOfSet
<1>3. /\ a \in Seq(T) /\ b \in Seq(T)
      /\ Range(a) = {Bypass(dir, 4500) : dir \in NetDirs}
      /\ Range(b) = SocketPolicies
  <2>1. /\ Dirs[1] = "in" /\ Dirs[2] = "out" /\ Dirs[3] = "fwd"
        /\ SocketDirs[1] = "socket_in" /\ SocketDirs[2] = "socket_out"
    BY DEF Dirs, SocketDirs
  <2>2. a[1] = Bypass("in", 4500) /\ a[2] = Bypass("out", 4500) /\ a[3] = Bypass("fwd", 4500)
    BY <2>1
  <2>3. b[1] = Bypass("socket_in", 0) /\ b[2] = Bypass("socket_out", 0)
    BY <2>1
  <2>4. DOMAIN a = 1 .. 3 /\ DOMAIN b = 1 .. 2
    OBVIOUS
  <2>5. a = [k \in 1 .. 3 |-> a[k]] /\ b = [k \in 1 .. 2 |-> b[k]]
    OBVIOUS
  <2> HIDE DEF a, b
  <2>6. Range(a) = {Bypass(dir, 4500) : dir \in NetDirs}
    BY <2>2, <2>4 DEF NetDirs, Range
  <2>7. Range(b) = SocketPolicies
    BY <2>3, <2>4 DEF SocketPolicies, Range
  <2>8. \A k \in 1 .. 3 : a[k] \in T
    BY <2>4, <2>6 DEF NetPolicies, Range
  <2>9. \A k \in 1 .. 2 : b[k] \in T
    BY <2>4, <2>7 DEF Range
  <2> HIDE DEF T
  <2>10. a \in Seq(T) /\ b \in Seq(T)
    BY <2>5, <2>8, <2>9
  <2> QED
    BY <2>6, <2>7, <2>10
<1>4. /\ DOMAIN c = 1 .. 9 * N
      /\ \A k \in 1 .. 9 * N : c[k] = P(nodes[node(k)])[entry(k)]
      /\ c = [k \in 1 .. 9 * N |-> c[k]]
  OBVIOUS
<1>5. \A k \in 1 .. 9 * N : node(k) \in 1 .. N /\ entry(k) \in 1 .. 9
  BY <1>2, Nine
<1>6. ASSUME NEW m \in 1 .. N, NEW j \in 1 .. 9
      PROVE  \E k \in 1 .. 9 * N : node(k) = m /\ entry(k) = j
  <2> HIDE DEF N, a, b, c, P, R
  <2>1. 9 * (m - 1) + j \in 1 .. 9 * N
    BY <1>2, NineBack
  <2>2. node(9 * (m - 1) + j) = m /\ entry(9 * (m - 1) + j) = j
    BY <1>2, NineBack
  <2> HIDE DEF node, entry
  <2> QED
    BY <2>1, <2>2
<1> HIDE DEF a, b, c, node, entry, P
<1>7. Range(c) = UNION {NodePolicies(Local(v), v.nodes[n]) : n \in R}
  <2>1. ASSUME NEW x \in Range(c)
        PROVE  \E n \in R : x \in NodePolicies(Local(v), v.nodes[n])
    <3>1. PICK k \in 1 .. 9 * N : x = c[k]
      BY <1>4 DEF Range
    <3>2. node(k) \in 1 .. N /\ entry(k) \in 1 .. 9 /\ nodes[node(k)] \in R
      BY <1>2, <1>5
    <3>3. x = P(nodes[node(k)])[entry(k)]
      BY <1>4, <3>1
    <3> QED
      BY <3>2, <3>3 DEF P, NodePolicies
  <2>2. ASSUME NEW n \in R, NEW x \in NodePolicies(Local(v), v.nodes[n])
        PROVE  x \in Range(c)
    <3>1. PICK j \in 1 .. 9 : x = P(n)[j]
      BY <2>2 DEF P, NodePolicies
    <3>2. PICK m \in 1 .. N : nodes[m] = n
      BY <1>2
    <3>3. PICK k \in 1 .. 9 * N : node(k) = m /\ entry(k) = j
      BY <1>6, Zenon
    <3>4. c[k] = x
      BY <1>4, <3>1, <3>2, <3>3
    <3> QED
      BY <1>4, <3>4 DEF Range
  <2> QED
    BY <2>1, <2>2
<1>8. c \in Seq(T)
  <2>1. Range(c) \subseteq T
    BY <1>7 DEF NetPolicies
  <2>2. \A k \in 1 .. 9 * N : c[k] \in Range(c)
    BY <1>4 DEF Range
  <2>3. 9 * N \in Nat
    BY <1>2
  <2> HIDE DEF T
  <2> QED
    BY <1>4, <2>1, <2>2, <2>3
<1> HIDE DEF T
<1>9. a \o b \in Seq(T) /\ Range(a \o b) = Range(a) \cup Range(b)
  BY <1>3, ConcatProperties, RangeConcatenation
<1>10. a \o b \o c \in Seq(T) /\ Range(a \o b \o c) = Range(a) \cup Range(b) \cup Range(c)
  <2> DEFINE ab == a \o b
  <2>1. ab \in Seq(T) /\ Range(ab) = Range(a) \cup Range(b)
    BY <1>9
  <2> HIDE DEF ab
  <2>2. ab \o c \in Seq(T) /\ Range(ab \o c) = Range(ab) \cup Range(c)
    BY <1>8, <2>1, ConcatProperties, RangeConcatenation
  <2> QED
    BY <2>1, <2>2 DEF ab
<1>11. T \subseteq AllPolicies
  BY DEF AllPolicies, T
<1>12. Range(a) \cup Range(b) \cup Range(c) = T
  BY <1>3, <1>7 DEF NetPolicies, T
<1> QED
  BY <1>1, <1>10, <1>11, <1>12, SeqMonotonic DEF T

\* The nine policies for a remote node: three directions for each of three pairs of
\* networks.
LEMMA NinePolicies ==
    ASSUME NEW me, NEW remote
    PROVE  NodePolicies(me, remote) =
              {PolicyOf(dir, sel[1], sel[2], me, remote) :
                  dir \in NetDirs,
                  sel \in {<<me.PodCIDR, remote.PodCIDR>>,
                           <<me.PodCIDR, ipToIpnet(remote.Address)>>,
                           <<ipToIpnet(me.Address), remote.PodCIDR>>}}
<1> DEFINE P(dir, src, dst) == PolicyOf(dir, src, dst, me, remote)
           q == RemotePolicies(me, remote)
           s1 == ipToIpnet(me.Address)
           d1 == ipToIpnet(remote.Address)
           src(i) == Selectors(me, remote)[i].Src
           dst(i) == Selectors(me, remote)[i].Dst
<1>1. \A k \in 1 .. 9 : q[k] = P(Dirs[((k - 1) % 3) + 1], src(((k - 1) \div 3) + 1),
                                 dst(((k - 1) \div 3) + 1))
  BY DEF RemotePolicies
<1>2. /\ src(1) = me.PodCIDR /\ dst(1) = remote.PodCIDR
      /\ src(2) = me.PodCIDR /\ dst(2) = d1
      /\ src(3) = s1 /\ dst(3) = remote.PodCIDR
      /\ Dirs[1] = "in" /\ Dirs[2] = "out" /\ Dirs[3] = "fwd"
  BY DEF Selectors, Dirs
<1> HIDE DEF P, q, s1, d1, src, dst
<1>3. /\ q[1] = P("in", me.PodCIDR, remote.PodCIDR)
      /\ q[2] = P("out", me.PodCIDR, remote.PodCIDR)
      /\ q[3] = P("fwd", me.PodCIDR, remote.PodCIDR)
  BY <1>1, <1>2
<1>4. /\ q[4] = P("in", me.PodCIDR, d1)
      /\ q[5] = P("out", me.PodCIDR, d1)
      /\ q[6] = P("fwd", me.PodCIDR, d1)
  BY <1>1, <1>2
<1>5. /\ q[7] = P("in", s1, remote.PodCIDR)
      /\ q[8] = P("out", s1, remote.PodCIDR)
      /\ q[9] = P("fwd", s1, remote.PodCIDR)
  BY <1>1, <1>2
<1>6. NodePolicies(me, remote) = {q[1], q[2], q[3], q[4], q[5], q[6], q[7], q[8], q[9]}
  <2>1. 1 .. 9 = {1, 2, 3, 4, 5, 6, 7, 8, 9}
    OBVIOUS
  <2> QED
    BY <2>1, Zenon DEF NodePolicies, q
<1>7. {PolicyOf(dir, sel[1], sel[2], me, remote) :
          dir \in NetDirs,
          sel \in {<<me.PodCIDR, remote.PodCIDR>>,
                   <<me.PodCIDR, ipToIpnet(remote.Address)>>,
                   <<ipToIpnet(me.Address), remote.PodCIDR>>}}
      = {P("in", me.PodCIDR, remote.PodCIDR), P("out", me.PodCIDR, remote.PodCIDR),
         P("fwd", me.PodCIDR, remote.PodCIDR),
         P("in", me.PodCIDR, d1), P("out", me.PodCIDR, d1), P("fwd", me.PodCIDR, d1),
         P("in", s1, remote.PodCIDR), P("out", s1, remote.PodCIDR),
         P("fwd", s1, remote.PodCIDR)}
  BY DEF P, NetDirs, s1, d1
<1>8. {q[1], q[2], q[3], q[4], q[5], q[6], q[7], q[8], q[9]}
      = {P("in", me.PodCIDR, remote.PodCIDR), P("out", me.PodCIDR, remote.PodCIDR),
         P("fwd", me.PodCIDR, remote.PodCIDR),
         P("in", me.PodCIDR, d1), P("out", me.PodCIDR, d1), P("fwd", me.PodCIDR, d1),
         P("in", s1, remote.PodCIDR), P("out", s1, remote.PodCIDR),
         P("fwd", s1, remote.PodCIDR)}
  BY <1>3, <1>4, <1>5, Zenon
<1> QED
  BY <1>6, <1>7, <1>8

LEMMA NodePolicyForm ==
    ASSUME NEW me, NEW remote, NEW p \in NodePolicies(me, remote)
    PROVE  \E dir \in NetDirs : \E src, dst : p = PolicyOf(dir, src, dst, me, remote)
<1> DEFINE S == {<<me.PodCIDR, remote.PodCIDR>>,
                 <<me.PodCIDR, ipToIpnet(remote.Address)>>,
                 <<ipToIpnet(me.Address), remote.PodCIDR>>}
<1>1. p \in {PolicyOf(dir, sel[1], sel[2], me, remote) : dir \in NetDirs, sel \in S}
  BY NinePolicies
<1> HIDE DEF S
<1>2. PICK dir \in NetDirs, sel \in S : p = PolicyOf(dir, sel[1], sel[2], me, remote)
  BY <1>1
<1> QED
  BY <1>2

\* What a policy of EnsureCIDRs looks like: its direction tells whether it is one of
\* the socket's.
LEMMA PolicyShape ==
    ASSUME NEW v \in AllViews, NEW p \in NetPolicies(v)
    PROVE  p.Dir \in NetDirs
<1>1. CASE p \in {Bypass(dir, 4500) : dir \in NetDirs}
  BY <1>1 DEF Bypass
<1>2. CASE \E n \in Remotes(v) : p \in NodePolicies(Local(v), v.nodes[n])
  <2>1. PICK n \in Remotes(v) : p \in NodePolicies(Local(v), v.nodes[n])
    BY <1>2
  <2>2. \E dir \in NetDirs : \E src, dst : p = PolicyOf(dir, src, dst, Local(v), v.nodes[n])
    BY <2>1, NodePolicyForm
  <2> QED
    BY <2>2 DEF PolicyOf
<1> QED
  BY <1>1, <1>2 DEF NetPolicies

LEMMA SocketShape ==
    ASSUME NEW p \in AllPolicies
    PROVE  /\ p.Dir \in NetDirs <=> p \notin SocketPolicies
           /\ \A q \in SocketPolicies : q.Dir = p.Dir => p = q
<1>1. \A q \in SocketPolicies :
         /\ q.Dir \notin NetDirs
         /\ \A r \in SocketPolicies : q.Dir = r.Dir => q = r
  BY DEF SocketPolicies, Bypass, NetDirs
<1>2. p \in SocketPolicies \/ p.Dir \in NetDirs
  BY PolicyShape DEF AllPolicies
<1> QED
  BY <1>1, <1>2

\* The list that XfrmPolicyList gives: the policies, and those of the socket.
LEMMA ActualEntries ==
    ASSUME policies \in Seq(AllPolicies), boot = "done"
    PROVE  /\ Range(ActualPolicies) = Range(policies) \cup SocketPolicies
           /\ \A j \in DOMAIN policies : /\ j \in DOMAIN ActualPolicies
                                         /\ ActualPolicies[j] = policies[j]
           /\ \A j \in DOMAIN ActualPolicies :
                 j \in DOMAIN policies \/ ActualPolicies[j] \in SocketPolicies
<1>1. ActualPolicies = policies \o Sockets
  BY DEF ActualPolicies
<1>2. /\ Sockets \in Seq(AllPolicies) /\ Len(Sockets) = 2
      /\ Range(Sockets) = SocketPolicies /\ \A k \in 1 .. 2 : Sockets[k] \in SocketPolicies
  <2>1. /\ Sockets = [k \in 1 .. 2 |-> Sockets[k]] /\ DOMAIN Sockets = 1 .. 2
        /\ Sockets[1] = Bypass("socket_in", 0) /\ Sockets[2] = Bypass("socket_out", 0)
    BY DEF Sockets, SocketDirs
  <2>2. \A k \in 1 .. 2 : Sockets[k] \in SocketPolicies
    BY <2>1 DEF SocketPolicies
  <2>3. Range(Sockets) = SocketPolicies
    BY <2>1 DEF Range, SocketPolicies
  <2>4. \A k \in 1 .. 2 : Sockets[k] \in AllPolicies
    BY <2>2 DEF AllPolicies
  <2>5. Sockets \in Seq(AllPolicies) /\ Len(Sockets) = 2
    BY <2>1, <2>4
  <2> QED
    BY <2>2, <2>3, <2>5
<1>3. Range(ActualPolicies) = Range(policies) \cup SocketPolicies
  BY <1>1, <1>2, RangeConcatenation
<1> DEFINE L == Len(policies)
<1>4. L \in Nat /\ DOMAIN policies = 1 .. L
  BY LenProperties
<1>5. /\ Len(ActualPolicies) = L + 2
      /\ \A j \in 1 .. L + 2 : ActualPolicies[j] = IF j <= L THEN policies[j] ELSE Sockets[j - L]
      /\ DOMAIN ActualPolicies = 1 .. L + 2
  <2>1. policies \o Sockets \in Seq(AllPolicies) /\ Len(policies \o Sockets) = L + 2
    <3>1. /\ policies \o Sockets \in Seq(AllPolicies)
          /\ Len(policies \o Sockets) = Len(policies) + Len(Sockets)
      BY <1>2, ConcatProperties, Zenon
    <3> QED
      BY <1>2, <3>1, Zenon
  <2>2. \A j \in 1 .. Len(policies) + Len(Sockets) :
           (policies \o Sockets)[j] = IF j <= Len(policies) THEN policies[j]
                                      ELSE Sockets[j - Len(policies)]
    BY <1>2, ConcatProperties, Zenon
  <2>3. DOMAIN (policies \o Sockets) = 1 .. L + 2
    BY <2>1, LenProperties
  <2>4. Len(Sockets) = 2
    BY <1>2
  <2> QED
    BY <1>1, <2>1, <2>2, <2>3, <2>4, Zenon
<1> HIDE DEF L
<1>6. \A j \in 1 .. L : j \in 1 .. L + 2 /\ ActualPolicies[j] = policies[j]
  BY <1>4, <1>5
<1>7. ASSUME NEW j \in 1 .. L + 2, j \notin 1 .. L
      PROVE  ActualPolicies[j] \in SocketPolicies
  <2>1. ActualPolicies[j] = Sockets[j - L] /\ j - L \in 1 .. 2
    BY <1>4, <1>5, <1>7
  <2> QED
    BY <1>2, <2>1
<1> QED
  BY <1>3, <1>4, <1>5, <1>6, <1>7

\* What the three lists of Ensure leave to do, when they are empty: nothing.
LEMMA PoliciesEnsured ==
    ASSUME NEW actual, NEW wanted,
           PolicyCreate(actual, wanted) = {}, PolicyUpdates(actual, wanted) = {},
           PolicyRemove(actual, wanted) = {}
    PROVE  Range(actual) = Range(wanted)
<1>1. ASSUME NEW i \in DOMAIN wanted, NEW j \in DOMAIN actual,
             xfrmPolicyMatches(actual[j], wanted[i])
      PROVE  actual[j] = wanted[i]
  <2>1. <<i, j>> \in (DOMAIN wanted) \X (DOMAIN actual)
    OBVIOUS
  <2> QED
    BY <1>1, <2>1 DEF PolicyUpdates
<1>2. \A i \in DOMAIN wanted : \E j \in DOMAIN actual : actual[j] = wanted[i]
  BY <1>1 DEF PolicyCreate
<1>3. \A j \in DOMAIN actual : \E i \in DOMAIN wanted : actual[j] = wanted[i]
  BY <1>1 DEF PolicyRemove
<1> QED
  BY <1>2, <1>3 DEF Range

LEMMA TemplateFields ==
    ASSUME NEW src, NEW dst, NEW t, t = [Proto |-> "ESP", Src |-> src, Dst |-> dst]
    PROVE  t.Proto = "ESP" /\ t.Src = src /\ t.Dst = dst
OBVIOUS

LEMMA EspFields ==
    ASSUME NEW x, NEW y, NEW s, NEW e, e = StateESP(x, y, s)
    PROVE  e.Proto = "ESP" /\ e.Src = x.Address /\ e.Dst = y.Address
BY DEF StateESP

\* The ESP states of a view serve its policies.
LEMMA NetBacked ==
    ASSUME NEW v \in AllViews, Usable(v), Settled(v), StateInv, boot = "done",
           NEW p \in NetPolicies(v)
    PROVE  Backed(p, v)
<1>1. CASE p \in {Bypass(dir, 4500) : dir \in NetDirs}
  BY <1>1 DEF Bypass, Backed
<1>2. CASE \E n \in Remotes(v) : p \in NodePolicies(Local(v), v.nodes[n])
  <2>1. PICK n \in Remotes(v) : p \in NodePolicies(Local(v), v.nodes[n])
    BY <1>2
  <2> DEFINE me == Local(v)
             remote == v.nodes[n]
  <2>2. \E x, y \in {me, remote} :
           /\ StateESP(x, y, strategy) \in States(v, strategy)
           /\ p.Tmpl = [Proto |-> "ESP", Src |-> x.Address, Dst |-> y.Address]
    <3>1. \E dir \in NetDirs : \E src, dst : p = PolicyOf(dir, src, dst, me, remote)
      BY <2>1, NodePolicyForm
    <3>2. /\ StateESP(me, remote, strategy) \in States(v, strategy)
          /\ StateESP(remote, me, strategy) \in States(v, strategy)
      BY DEF States, StatesFor
    <3> HIDE DEF me, remote
    <3>3. \/ p.Tmpl = [Proto |-> "ESP", Src |-> me.Address, Dst |-> remote.Address]
          \/ p.Tmpl = [Proto |-> "ESP", Src |-> remote.Address, Dst |-> me.Address]
      BY <3>1 DEF PolicyOf
    <3> QED
      BY <3>2, <3>3
  <2> HIDE DEF me, remote
  <2>3. PICK x, y \in {me, remote} : /\ StateESP(x, y, strategy) \in States(v, strategy)
                                     /\ p.Tmpl = [Proto |-> "ESP", Src |-> x.Address, Dst |-> y.Address]
    BY <2>2
  <2> DEFINE e == StateESP(x, y, strategy)
  <2>4. e.Proto = p.Tmpl.Proto /\ e.Src = p.Tmpl.Src /\ e.Dst = p.Tmpl.Dst
    <3>1. e.Proto = "ESP" /\ e.Src = x.Address /\ e.Dst = y.Address
      <4>1. e = StateESP(x, y, strategy)
        OBVIOUS
      <4> HIDE DEF e
      <4> QED
        BY <4>1, EspFields
    <3>2. p.Tmpl.Proto = "ESP" /\ p.Tmpl.Src = x.Address /\ p.Tmpl.Dst = y.Address
      <4> HIDE DEF e
      <4>1. p.Tmpl = [Proto |-> "ESP", Src |-> x.Address, Dst |-> y.Address]
        BY <2>3, Zenon
      <4> DEFINE t == p.Tmpl
      <4>2. t = [Proto |-> "ESP", Src |-> x.Address, Dst |-> y.Address]
        BY <4>1, Zenon
      <4> HIDE DEF t
      <4>3. t.Proto = "ESP" /\ t.Src = x.Address /\ t.Dst = y.Address
        BY <4>2, TemplateFields, Zenon
      <4> QED
        BY <4>3, Zenon DEF t
    <3> QED
      BY <3>1, <3>2, Zenon
  <2>5. e \in States(v, strategy)
    BY <2>3
  <2> HIDE DEF e
  <2>6. \E s \in states : SameButSource(s, e)
    BY <2>5, SettledSame
  <2> QED
    BY <2>4, <2>5, <2>6 DEF Backed
<1> QED
  BY <1>1, <1>2 DEF NetPolicies

\* They require ESP and nothing else.
LEMMA NetEsp ==
    ASSUME NEW v, NEW p \in NetPolicies(v), p.Tmpl # Nil
    PROVE  p.Tmpl.Proto = "ESP"
<1>1. p \notin {Bypass(dir, 4500) : dir \in NetDirs}
  BY DEF Bypass
<1>2. PICK n \in Remotes(v) : p \in NodePolicies(Local(v), v.nodes[n])
  BY <1>1 DEF NetPolicies
<1> DEFINE me == Local(v)
           remote == v.nodes[n]
<1>3. \E dir \in NetDirs : \E src, dst : p = PolicyOf(dir, src, dst, me, remote)
  BY <1>2, NodePolicyForm
<1> HIDE DEF me, remote
<1> QED
  BY <1>3 DEF PolicyOf

\* A table without its entry i.
Without(s, i) == SubSeq(s, 1, i - 1) \o SubSeq(s, i + 1, Len(s))

LEMMA RemovedEntry ==
    ASSUME NEW S, NEW s \in Seq(S), NEW i \in DOMAIN s
    PROVE  /\ Without(s, i) \in Seq(S)
           /\ \A k \in DOMAIN Without(s, i) :
                 Without(s, i)[k] = s[IF k < i THEN k ELSE k + 1]
           /\ \A k \in DOMAIN Without(s, i) : (IF k < i THEN k ELSE k + 1) \in DOMAIN s
<1> DEFINE L == Len(s)
           a == SubSeq(s, 1, i - 1)
           b == SubSeq(s, i + 1, L)
<1>1. L \in Nat /\ DOMAIN s = 1 .. L /\ i \in 1 .. L
  BY LenProperties
<1>2. /\ a \in Seq(S) /\ Len(a) = i - 1 /\ \A k \in 1 .. i - 1 : a[k] = s[k]
      /\ b \in Seq(S) /\ Len(b) = L - i /\ \A k \in 1 .. L - i : b[k] = s[i + k]
  <2>1. i \in Int /\ L \in Int /\ \A k \in 1 .. L : s[k] \in S
    BY <1>1, ElementOfSeq
  <2>2. (\A k \in 1 .. i - 1 : s[k] \in S) /\ (\A k \in i + 1 .. L : s[k] \in S)
    BY <1>1, <2>1
  <2>3. /\ a \in Seq(S) /\ Len(a) = (IF 1 <= i - 1 THEN (i - 1) - 1 + 1 ELSE 0)
        /\ \A k \in 1 .. (i - 1) - 1 + 1 : a[k] = s[1 + k - 1]
    <3>1. 1 \in Int /\ i - 1 \in Int
      BY <2>1
    <3> QED
      BY <2>2, <3>1, SubSeqProperties
  <2>4. /\ b \in Seq(S) /\ Len(b) = (IF i + 1 <= L THEN L - (i + 1) + 1 ELSE 0)
        /\ \A k \in 1 .. L - (i + 1) + 1 : b[k] = s[(i + 1) + k - 1]
    <3>1. i + 1 \in Int /\ L \in Int
      BY <2>1
    <3> QED
      BY <2>2, <3>1, SubSeqProperties
  <2> HIDE DEF L, a, b
  <2>5. Len(a) = i - 1 /\ Len(b) = L - i
    BY <1>1, <2>1, <2>3, <2>4
  <2>6. \A k \in 1 .. i - 1 : a[k] = s[k]
    <3>1. (i - 1) - 1 + 1 = i - 1 /\ \A k \in 1 .. i - 1 : 1 + k - 1 = k
      BY <2>1
    <3> QED
      BY <2>3, <3>1, Zenon
  <2>7. \A k \in 1 .. L - i : b[k] = s[i + k]
    <3>1. L - (i + 1) + 1 = L - i /\ \A k \in 1 .. L - i : (i + 1) + k - 1 = i + k
      BY <2>1
    <3> QED
      BY <2>4, <3>1, Zenon
  <2> QED
    BY <2>3, <2>4, <2>5, <2>6, <2>7
<1>3. Without(s, i) = a \o b
  BY DEF Without
<1> HIDE DEF L, a, b
<1>4. /\ a \o b \in Seq(S) /\ Len(a \o b) = L - 1
      /\ DOMAIN (a \o b) = 1 .. L - 1
      /\ \A k \in 1 .. L - 1 : (a \o b)[k] = IF k <= i - 1 THEN a[k] ELSE b[k - (i - 1)]
  <2>1. a \o b \in Seq(S) /\ Len(a \o b) = Len(a) + Len(b)
    BY <1>2, ConcatProperties, Zenon
  <2>2. \A k \in 1 .. Len(a) + Len(b) :
           (a \o b)[k] = IF k <= Len(a) THEN a[k] ELSE b[k - Len(a)]
    BY <1>2, ConcatProperties, Zenon
  <2>3. Len(a) + Len(b) = L - 1
    BY <1>1, <1>2
  <2>4. Len(a \o b) = L - 1 /\ DOMAIN (a \o b) = 1 .. L - 1
    BY <2>1, <2>3, LenProperties, Zenon
  <2>5. \A k \in 1 .. L - 1 : (a \o b)[k] = IF k <= Len(a) THEN a[k] ELSE b[k - Len(a)]
    BY <2>2, <2>3, Zenon
  <2>6. Len(a) = i - 1
    BY <1>2, Zenon
  <2> QED
    BY <2>1, <2>4, <2>5, <2>6, Zenon
<1>5. ASSUME NEW k \in 1 .. L - 1, k < i
      PROVE  (a \o b)[k] = s[k] /\ k \in 1 .. L
  BY <1>1, <1>2, <1>4, <1>5
<1>6. ASSUME NEW k \in 1 .. L - 1, ~(k < i)
      PROVE  (a \o b)[k] = s[k + 1] /\ k + 1 \in 1 .. L
  <2>1. (a \o b)[k] = b[k - (i - 1)] /\ k - (i - 1) \in 1 .. L - i
    BY <1>1, <1>4, <1>6
  <2>2. b[k - (i - 1)] = s[i + (k - (i - 1))] /\ i + (k - (i - 1)) = k + 1
    <3>1. b[k - (i - 1)] = s[i + (k - (i - 1))]
      BY <1>2, <2>1, Zenon
    <3>2. i + (k - (i - 1)) = k + 1
      BY <1>1
    <3> QED
      BY <3>1, <3>2
  <2> QED
    BY <1>1, <2>1, <2>2
<1>7. \A k \in 1 .. L - 1 : /\ (a \o b)[k] = s[IF k < i THEN k ELSE k + 1]
                            /\ (IF k < i THEN k ELSE k + 1) \in 1 .. L
  BY <1>5, <1>6, Zenon
<1> QED
  BY <1>1, <1>3, <1>4, <1>7

-----------------------------------------------------------------------------
(***************************************************************************)
(* PolicyInv is kept.                                                      *)
(***************************************************************************)

LEMMA InitPolicy == Init => PolicyInv
BY DEF Init, ProviderInit, PolicyInv, UpToDate, Stale

\* Steps that change no policy and do not reach the policies' phase.
LEMMA QuietPolicy ==
    ASSUME PolicyInv, UNCHANGED policies, pc' # "policies", expected' = <<>>,
           Stale' \/ UNCHANGED <<mapVars, snap, lastVersionApplied>>
    PROVE  PolicyInv'
<1>1. UpToDate' => UpToDate /\ snap' = snap
  BY DEF UpToDate, Stale, mapVars
<1> QED
  BY <1>1 DEF PolicyInv

\* EnsureCIDRs runs through the policies' phase, and Stale tells that it does.
LEMMA PhasePolicy ==
    ASSUME IndInv, PolicyInv, pc = "policies",
           UNCHANGED <<mapVars, provVars, expected>>,
           policies' \in Seq(AllPolicies),
           \A i \in DOMAIN policies' : policies'[i].Dir \in NetDirs,
           \A i, j \in DOMAIN policies' : xfrmPolicyMatches(policies'[i], policies'[j]) => i = j
    PROVE  PolicyInv'
<1>1. ~UpToDate'
  BY DEF IndInv, RunInv, UpToDate, Stale, mapVars, provVars
<1> QED
  BY <1>1 DEF PolicyInv, mapVars, provVars

\* What the expected list has, in the phase of the policies.
LEMMA PhaseExpected ==
    ASSUME IndInv, PolicyInv, pc = "policies"
    PROVE  /\ boot = "done" /\ snap.view \in AllViews /\ Usable(snap.view)
           /\ Settled(snap.view) /\ StateInv
           /\ expected \in Seq(AllPolicies)
           /\ Range(expected) = NetPolicies(snap.view) \cup SocketPolicies
           /\ \A i \in DOMAIN expected : expected[i] \in AllPolicies
<1>1. /\ boot = "done" /\ snap.view \in AllViews /\ Usable(snap.view)
      /\ Settled(snap.view) /\ StateInv
  BY DEF IndInv, TypeInv, RunInv, PhaseInv
<1>2. PICK nodes \in Orders(Remotes(snap.view)) : expected = Policies(snap.view, nodes)
  BY DEF PolicyInv
<1>3. /\ expected \in Seq(AllPolicies)
      /\ Range(expected) = NetPolicies(snap.view) \cup SocketPolicies
  BY <1>1, <1>2, ExpectedPolicies
<1>4. \A i \in DOMAIN expected : expected[i] \in AllPolicies
  BY <1>3, ElementOfSeq, LenProperties
<1> QED
  BY <1>1, <1>3, <1>4

\* A policy that is added matches none, so it is not one of the socket's.
LEMMA AddPolicy ==
    ASSUME IndInv, PolicyInv, PolicyAdd
    PROVE  /\ PolicyInv'
           /\ \A i \in DOMAIN policies' : \/ \E j \in DOMAIN policies : policies[j] = policies'[i]
                                          \/ policies'[i] \in NetPolicies(snap.view)
<1>1. /\ pc = "policies" /\ UNCHANGED <<mapVars, provVars, expected>>
  BY DEF PolicyAdd
<1>2. PICK i \in ToCreate : policies' = Append(policies, expected[i])
  BY DEF PolicyAdd
<1> DEFINE e == expected[i]
           L == Len(policies)
<1>3. /\ i \in DOMAIN expected
      /\ \A j \in DOMAIN ActualPolicies : ~xfrmPolicyMatches(ActualPolicies[j], e)
  BY DEF ToCreate, PolicyCreate
<1>4. /\ boot = "done" /\ e \in AllPolicies /\ e \in Range(expected)
      /\ Range(expected) = NetPolicies(snap.view) \cup SocketPolicies
  BY <1>1, <1>3, PhaseExpected DEF Range
<1>5. policies \in Seq(AllPolicies)
  BY DEF PolicyInv
<1>6. \A q \in Range(ActualPolicies) : ~xfrmPolicyMatches(q, e)
  BY <1>3 DEF Range
<1>7. \A q \in Range(policies) \cup SocketPolicies : ~xfrmPolicyMatches(q, e)
  BY <1>4, <1>5, <1>6, ActualEntries
<1>8. e \in NetPolicies(snap.view) /\ e.Dir \in NetDirs
  <2>1. xfrmPolicyMatches(e, e)
    BY DEF xfrmPolicyMatches
  <2>2. e \notin SocketPolicies
    BY <1>7, <2>1
  <2> QED
    BY <1>4, <2>2, SocketShape
<1>9. L \in Nat /\ DOMAIN policies = 1 .. L
  BY <1>5, LenProperties
<1> HIDE DEF e, L
<1>10. /\ policies' \in Seq(AllPolicies) /\ DOMAIN policies' = 1 .. L + 1
       /\ \A j \in 1 .. L : policies'[j] = policies[j]
       /\ policies'[L + 1] = e
  BY <1>2, <1>4, <1>5, AppendProperties, LenProperties DEF e, L
<1>11. \A j \in 1 .. L + 1 : j \in 1 .. L \/ j = L + 1
  BY <1>9
<1>12. \A j \in 1 .. L + 1 : policies'[j].Dir \in NetDirs
  BY <1>8, <1>9, <1>10, <1>11 DEF PolicyInv
<1>13. \A j, k \in 1 .. L + 1 : xfrmPolicyMatches(policies'[j], policies'[k]) => j = k
  <2>1. \A j \in 1 .. L : /\ ~xfrmPolicyMatches(policies[j], e)
                          /\ ~xfrmPolicyMatches(e, policies[j])
    BY <1>7, <1>9 DEF Range, xfrmPolicyMatches
  <2>2. \A j, k \in 1 .. L : xfrmPolicyMatches(policies[j], policies[k]) => j = k
    BY <1>9 DEF PolicyInv
  <2> QED
    BY <1>10, <1>11, <2>1, <2>2
<1>14. PolicyInv'
  BY <1>1, <1>10, <1>12, <1>13, PhasePolicy
<1>15. \A j \in 1 .. L + 1 : \/ \E k \in 1 .. L : policies[k] = policies'[j]
                             \/ policies'[j] \in NetPolicies(snap.view)
  BY <1>8, <1>10, <1>11
<1> QED
  BY <1>9, <1>10, <1>14, <1>15

\* A policy that is updated is not one of the socket's, which are as expected, and
\* keeps its key.
LEMMA UpdatePolicy ==
    ASSUME IndInv, PolicyInv, PolicyUpdate
    PROVE  /\ PolicyInv'
           /\ \A i \in DOMAIN policies' : \/ \E j \in DOMAIN policies : policies[j] = policies'[i]
                                          \/ policies'[i] \in NetPolicies(snap.view)
<1>1. /\ pc = "policies" /\ UNCHANGED <<mapVars, provVars, expected>>
  BY DEF PolicyUpdate
<1>2. PICK p \in ToUpdate : policies' = [policies EXCEPT ![p[2]] = expected[p[1]]]
  BY Zenon DEF PolicyUpdate
<1> DEFINE e == expected[p[1]]
           m == p[2]
<1>3. /\ p[1] \in DOMAIN expected /\ m \in DOMAIN ActualPolicies
      /\ xfrmPolicyMatches(ActualPolicies[m], e) /\ ActualPolicies[m] # e
  BY DEF ToUpdate, PolicyUpdates
<1>4. /\ boot = "done" /\ e \in AllPolicies /\ e \in Range(expected)
      /\ Range(expected) = NetPolicies(snap.view) \cup SocketPolicies
  BY <1>1, <1>3, PhaseExpected DEF Range
<1>5. policies \in Seq(AllPolicies)
  BY DEF PolicyInv
<1>6. policies' = [policies EXCEPT ![m] = e]
  BY <1>2
<1> HIDE DEF e, m
<1>7. m \in DOMAIN policies /\ ActualPolicies[m] = policies[m]
  <2>1. ActualPolicies[m] \notin SocketPolicies
    BY <1>3, <1>4, SocketShape DEF xfrmPolicyMatches
  <2> QED
    BY <1>3, <1>4, <1>5, <2>1, ActualEntries
<1>8. e.Dir \in NetDirs /\ e \in NetPolicies(snap.view)
  <2>1. e.Dir \in NetDirs
    BY <1>3, <1>7 DEF xfrmPolicyMatches, PolicyInv
  <2> QED
    BY <1>4, <2>1, SocketShape
<1>9. /\ policies' \in Seq(AllPolicies) /\ DOMAIN policies' = DOMAIN policies
      /\ policies'[m] = e
      /\ \A j \in DOMAIN policies : j # m => policies'[j] = policies[j]
  <2>1. policies' \in Seq(AllPolicies)
    BY <1>4, <1>5, <1>6, <1>7, ExceptSeq
  <2> QED
    BY <1>6, <1>7, <2>1
<1>10. \A j \in DOMAIN policies : policies'[j].Dir \in NetDirs
  BY <1>8, <1>9 DEF PolicyInv
<1>11. \A j \in DOMAIN policies : /\ policies'[j].Dir = policies[j].Dir
                                  /\ policies'[j].Port = policies[j].Port
                                  /\ policies'[j].Src = policies[j].Src
                                  /\ policies'[j].Dst = policies[j].Dst
  BY <1>3, <1>7, <1>9 DEF xfrmPolicyMatches
<1>12. \A j, k \in DOMAIN policies : xfrmPolicyMatches(policies'[j], policies'[k]) => j = k
  BY <1>11 DEF PolicyInv, xfrmPolicyMatches
<1>13. PolicyInv'
  BY <1>1, <1>9, <1>10, <1>12, PhasePolicy
<1> QED
  BY <1>8, <1>9, <1>13

LEMMA DelPolicy ==
    ASSUME IndInv, PolicyInv, PolicyDel
    PROVE  /\ PolicyInv'
           /\ \A i \in DOMAIN policies' : \E j \in DOMAIN policies : policies[j] = policies'[i]
<1>1. /\ pc = "policies" /\ UNCHANGED <<mapVars, provVars, expected>>
  BY DEF PolicyDel
<1>2. PICK m \in DOMAIN policies : policies' = Without(policies, m)
  BY Zenon DEF PolicyDel, Without
<1> DEFINE old(k) == IF k < m THEN k ELSE k + 1
<1>3. policies \in Seq(AllPolicies) /\ m \in Int
  BY LenProperties DEF PolicyInv
<1>4. /\ policies' \in Seq(AllPolicies)
      /\ \A k \in DOMAIN policies' : policies'[k] = policies[old(k)] /\ old(k) \in DOMAIN policies
  BY <1>2, <1>3, RemovedEntry
<1>5. \A j, k \in DOMAIN policies' : old(j) = old(k) => j = k
  <2>1. DOMAIN policies' \subseteq Int
    BY <1>4, LenProperties
  <2> QED
    BY <1>3, <2>1
<1> HIDE DEF old
<1>6. /\ \A k \in DOMAIN policies' : policies'[k].Dir \in NetDirs
      /\ \A j, k \in DOMAIN policies' : xfrmPolicyMatches(policies'[j], policies'[k]) => j = k
  BY <1>4, <1>5 DEF PolicyInv
<1>7. PolicyInv'
  BY <1>1, <1>4, <1>6, PhasePolicy
<1> QED
  BY <1>4, <1>7

\* When Ensure has nothing left to do, the policies are those of the snapshot.
LEMMA CommitPolicy ==
    ASSUME IndInv, PolicyInv, Commit
    PROVE  PolicyInv'
<1>1. /\ pc = "policies" /\ pc' = "idle" /\ expected' = <<>>
      /\ UNCHANGED <<policies, snap>>
  BY DEF Commit, ReturnOK, xfrmVars
<1>2. /\ boot = "done" /\ snap.view \in AllViews
      /\ Range(expected) = NetPolicies(snap.view) \cup SocketPolicies
  BY <1>1, PhaseExpected
<1>3. policies \in Seq(AllPolicies)
  BY DEF PolicyInv
<1>4. Range(policies) \cup SocketPolicies = NetPolicies(snap.view) \cup SocketPolicies
  <2>1. Range(ActualPolicies) = Range(expected)
    BY PoliciesEnsured DEF Commit, ToCreate, ToUpdate, ToRemove
  <2> QED
    BY <1>2, <1>3, <2>1, ActualEntries
<1>5. \A q \in SocketPolicies : q.Dir \notin NetDirs
  BY DEF SocketPolicies, Bypass, NetDirs
<1>6. \A p \in NetPolicies(snap.view) : p \notin SocketPolicies
  BY <1>2, <1>5, PolicyShape
<1>7. \A p \in Range(policies) : p \notin SocketPolicies
  BY <1>5 DEF PolicyInv, Range
<1>8. Range(policies) = NetPolicies(snap.view)
  BY <1>4, <1>6, <1>7
<1> QED
  BY <1>1, <1>8 DEF PolicyInv

LEMMA NextPolicy == IndInv /\ PolicyInv /\ [Next]_vars => PolicyInv'
<1> SUFFICES ASSUME IndInv, PolicyInv, [Next]_vars PROVE PolicyInv'
  OBVIOUS
<1> USE DEF mapVars, provVars, xfrmVars
<1>0. TypeInv /\ VersionInv /\ RunInv
  BY DEF IndInv
<1>1. CASE Change /\ UNCHANGED <<boot, strategy, expected, todo, xfrmVars>>
  <2>1. Stale'
    BY <1>0, <1>1 DEF Change, Stale, VersionInv, TypeInv
  <2>2. UNCHANGED <<pc, snap, expected, policies>>
    BY <1>1 DEF Change
  <2> QED
    BY <2>1, <2>2 DEF PolicyInv, UpToDate
<1>2. CASE Skip \/ UNCHANGED vars
  <2>1. UNCHANGED vars
    BY <1>2 DEF Skip
  <2> QED
    BY <2>1 DEF vars, PolicyInv, UpToDate, Stale
<1>3. CASE BootStep
  <2>1. /\ pc = "idle" /\ UNCHANGED <<mapVars, provVars, expected>>
        /\ policies' = policies \/ policies' = <<>>
    BY <1>0, <1>3 DEF RunInv, BootStep, NewIpsecRoutingProvider, FlushPolicies, FlushStates
  <2>2. Stale'
    BY <1>0, <1>3, <2>1 DEF RunInv, BootStep, NewIpsecRoutingProvider, FlushPolicies,
       FlushStates, Stale
  <2>3. CASE policies' = policies
    BY <2>1, <2>2, <2>3 DEF PolicyInv, UpToDate
  <2>4. CASE policies' = <<>>
    <3>1. policies' \in Seq(AllPolicies) /\ DOMAIN policies' = {}
      BY <2>4
    <3> QED
      BY <2>1, <2>2, <3>1 DEF PolicyInv, UpToDate
  <2> QED
    BY <2>1, <2>3, <2>4
<1>4. CASE Begin
  BY <1>4, QuietPolicy DEF Begin, Start, PolicyInv
<1>5. CASE Observe
  <2>1. Stale'
    BY <1>0, <1>5 DEF Observe, TakeSnapshot, RunInv, Stale
  <2>2. pc = "snapshot" /\ pc' # "policies" /\ UNCHANGED <<policies, expected>>
    BY <1>5 DEF Observe, TakeSnapshot
  <2> QED
    BY <2>1, <2>2, QuietPolicy DEF PolicyInv
<1>6. CASE StateAdd \/ PlanUpdates \/ StateDel \/ StateUpdate
  <2>1. /\ pc # "policies" /\ pc' # "policies" /\ UNCHANGED <<policies, expected>>
        /\ UNCHANGED <<mapVars, snap, lastVersionApplied>>
    BY <1>6 DEF StateAdd, PlanUpdates, StateDel, StateUpdate, Enter, ReturnError
  <2> QED
    BY <2>1, QuietPolicy DEF PolicyInv
<1>7. CASE StatesEnsured
  <2>1. /\ pc' = "policies" /\ UNCHANGED <<mapVars, snap, lastVersionApplied, policies>>
        /\ \E nodes \in Orders(Remotes(snap.view)) : expected' = Policies(snap.view, nodes)
    BY <1>7 DEF StatesEnsured, Enter
  <2>2. Stale'
    BY <1>0, <1>7, <2>1 DEF RunInv, Stale, StatesEnsured
  <2> QED
    BY <2>1, <2>2 DEF PolicyInv, UpToDate
<1>8. CASE PolicyAdd \/ PolicyUpdate \/ PolicyDel
  BY <1>8, AddPolicy, UpdatePolicy, DelPolicy
<1>9. CASE Commit
  BY <1>9, CommitPolicy
<1>10. CASE Fail
  BY <1>10, QuietPolicy DEF Fail, ReturnError
<1>11. CASE Fatal \/ BootFails \/ Restart
  <2>1. Exit
    BY <1>11 DEF Fatal, BootFails, Restart
  <2> QED
    BY <2>1, QuietPolicy DEF Exit, ProcessStarts, Stale
<1> QED
  BY <1>1, <1>2, <1>3, <1>4, <1>5, <1>6, <1>7, <1>8, <1>9, <1>10, <1>11
     DEF Next, EnsureStep

LEMMA PolicyInvariance == Spec => [](IndInv /\ PolicyInv)
<1>1. Init => IndInv /\ PolicyInv
  BY InitInd, InitPolicy
<1>2. IndInv /\ PolicyInv /\ [Next]_vars => IndInv' /\ PolicyInv'
  BY NextInd, NextPolicy
<1> QED
  BY <1>1, <1>2, PTL DEF Spec

LEMMA IndImpliesPolicies == IndInv /\ PolicyInv => UpToDatePolicies
<1> SUFFICES ASSUME IndInv, PolicyInv, UpToDate PROVE UpToDatePolicies
  BY DEF UpToDatePolicies
<1>1. TypeInv /\ VersionInv /\ RunInv /\ StateInv /\ PhaseInv
  BY DEF IndInv
<1>2. snap.view = view
  BY <1>1 DEF VersionInv, TypeInv, UpToDate, Stale
<1>3. Usable(view) /\ Settled(view) /\ view \in AllViews
  BY <1>1, <1>2 DEF PhaseInv, TypeInv
<1>4. boot = "done"
  BY <1>1 DEF RunInv, UpToDate, Stale
<1>5. Range(policies) = NetPolicies(view)
  BY <1>2 DEF PolicyInv
<1>6. \A i \in DOMAIN policies :
         /\ Backed(policies[i], view)
         /\ policies[i].Tmpl # Nil => policies[i].Tmpl.Proto = "ESP"
  <2>1. \A i \in DOMAIN policies : policies[i] \in NetPolicies(view)
    BY <1>5 DEF Range
  <2> QED
    BY <1>1, <1>3, <1>4, <2>1, NetBacked, NetEsp
<1>7. \A n \in Remotes(view) : NodePolicies(Local(view), view.nodes[n]) = PoliciesFor(view, n)
  <2>1. Local(view).PodCIDR = view.PodCIDR /\ Local(view).Address = view.Address
    BY DEF Local
  <2> QED
    BY <2>1, NinePolicies DEF NetDirs, PoliciesFor
<1>8. UNION {NodePolicies(Local(view), view.nodes[n]) : n \in Remotes(view)} =
         UNION {PoliciesFor(view, n) : n \in Remotes(view)}
  BY <1>7
<1>9. Range(policies) = DuePolicies(view)
  <2> DEFINE udp == {Bypass(dir, 4500) : dir \in {"in", "out", "fwd"}}
             made == UNION {NodePolicies(Local(view), view.nodes[n]) : n \in Remotes(view)}
             due == UNION {PoliciesFor(view, n) : n \in Remotes(view)}
  <2>1. NetPolicies(view) = udp \cup made
    BY Zenon DEF NetPolicies, NetDirs
  <2>2. made = due
    BY <1>8, Zenon
  <2> HIDE DEF udp, made, due
  <2>3. Range(policies) = udp \cup due
    BY <1>5, <2>1, <2>2, Zenon
  <2> QED
    BY <2>3, Zenon DEF DuePolicies, udp, due
<1> QED
  BY <1>6, <1>9 DEF UpToDatePolicies

\* Whenever the provider takes itself to be up to date, the kernel has the policies
\* of the view and no others, each requires ESP alone, and the state it sends packets
\* to is there, with the right SPI and destination (its source may be one of another
\* view): for any number of nodes in any order, and after any failures and restarts.
THEOREM PoliciesCorrect == Spec => []UpToDatePolicies
BY PolicyInvariance, IndImpliesPolicies, PTL

\* XfrmPolicyTable.Ensure adds or changes a policy only when its state is there.
LEMMA StepBacked ==
    ASSUME IndInv, PolicyInv, [Next]_vars
    PROVE  \A i \in DOMAIN policies' :
              (\A j \in DOMAIN policies : policies[j] # policies'[i]) =>
                  Backed(policies'[i], snap.view)
<1> SUFFICES ASSUME NEW i \in DOMAIN policies',
                    \A j \in DOMAIN policies : policies[j] # policies'[i]
             PROVE  Backed(policies'[i], snap.view)
  OBVIOUS
<1> USE DEF mapVars, provVars, xfrmVars
<1>1. CASE PolicyAdd \/ PolicyUpdate
  <2>1. pc = "policies"
    BY <1>1 DEF PolicyAdd, PolicyUpdate
  <2>2. policies'[i] \in NetPolicies(snap.view)
    BY <1>1, AddPolicy, UpdatePolicy
  <2> QED
    BY <2>1, <2>2, PhaseExpected, NetBacked
<1>2. CASE PolicyDel
  BY <1>2, DelPolicy
<1>3. CASE FlushPolicies
  <2>1. policies' = <<>>
    BY <1>3 DEF FlushPolicies
  <2> QED
    BY <2>1
<1>4. CASE UNCHANGED policies
  BY <1>4
<1>5. \/ PolicyAdd \/ PolicyUpdate \/ PolicyDel \/ FlushPolicies \/ UNCHANGED policies
  BY Zenon DEF Next, vars, Change, Skip, EnsureStep, BootStep, NewIpsecRoutingProvider, FlushStates,
     Begin, Observe, StateAdd, PlanUpdates, StateUpdate, StateDel, StatesEnsured, Commit, Fail,
     Fatal, BootFails, Restart, Exit
<1> QED
  BY <1>1, <1>2, <1>3, <1>4, <1>5

\* No policy is put into the kernel before the state for its template is there, with
\* the SPI of the two nodes and the template's destination (its source may be one of
\* another view).
THEOREM PoliciesBackedAlways == Spec => PoliciesBacked
<1>1. IndInv /\ PolicyInv /\ [Next]_vars =>
         [\A i \in DOMAIN policies' :
             (\A j \in DOMAIN policies : policies[j] # policies'[i]) =>
                 Backed(policies'[i], snap.view)]_vars
  BY StepBacked
<1> QED
  BY <1>1, PolicyInvariance, PTL DEF Spec, PoliciesBacked

-----------------------------------------------------------------------------
(***************************************************************************)
(* Types.                                                                  *)
(***************************************************************************)

FormInv ==
    /\ BoundInv
    /\ pc \in {"idle", "snapshot", "states", "update", "policies"}
    /\ boot \in {"new", "policies", "states", "done"}
    /\ strategy \in Strategies
    /\ pc # "update" => todo = {}

LEMMA InitForm == Init => FormInv
BY InitBound DEF Init, ProviderInit, FormInv

LEMMA IndMap == IndInv => MapInv
BY DEF IndInv, TypeInv, VersionInv, RunInv, MapInv

LEMMA NextForm == IndInv /\ FormInv /\ [Next]_vars => FormInv'
<1> SUFFICES ASSUME IndInv, FormInv, [Next]_vars PROVE FormInv'
  OBVIOUS
<1> USE DEF mapVars, provVars, xfrmVars
<1>1. /\ Change \/ UNCHANGED version
      /\ UNCHANGED restarts \/ (restarts < MaxRestarts /\ restarts' = restarts + 1)
  BY Zenon DEF Next, vars, Change, Skip, EnsureStep, BootStep, NewIpsecRoutingProvider, FlushPolicies,
     FlushStates, Begin, Start, Observe, TakeSnapshot, StateAdd, PlanUpdates, StateUpdate, StateDel,
     StatesEnsured, PolicyAdd, PolicyUpdate, PolicyDel, Commit, ReturnOK, Fail, ReturnError, Enter,
     Fatal, BootFails, Restart, Exit, ProcessStarts
<1>2. BoundInv'
  BY <1>1, IndMap, NextBound DEF FormInv
<1>3. /\ pc' \in {"idle", "snapshot", "states", "update", "policies"}
      /\ boot' \in {"new", "policies", "states", "done"}
  BY Zenon DEF FormInv, Next, vars, Change, Skip, EnsureStep, BootStep, NewIpsecRoutingProvider,
     FlushPolicies, FlushStates, Begin, Start, Observe, TakeSnapshot, StateAdd, PlanUpdates,
     StateUpdate, StateDel, StatesEnsured, PolicyAdd, PolicyUpdate, PolicyDel, Commit, ReturnOK,
     Fail, ReturnError, Enter, Fatal, BootFails, Restart, Exit, ProcessStarts
<1>4. strategy' \in Strategies
  BY Zenon DEF FormInv, Next, vars, Change, Skip, EnsureStep, BootStep, NewIpsecRoutingProvider,
     FlushPolicies, FlushStates, Begin, Observe, StateAdd, PlanUpdates, StateUpdate, StateDel,
     StatesEnsured, PolicyAdd, PolicyUpdate, PolicyDel, Commit, Fail, Fatal, BootFails, Restart,
     Exit
<1>5. pc' # "update" => todo' = {}
  BY Zenon DEF FormInv, Next, vars, Change, Skip, EnsureStep, BootStep, NewIpsecRoutingProvider,
     FlushPolicies, FlushStates, Begin, Start, Observe, TakeSnapshot, StateAdd, PlanUpdates,
     StateUpdate, StateDel, StatesEnsured, PolicyAdd, PolicyUpdate, PolicyDel, Commit, ReturnOK,
     Fail, ReturnError, Enter, Fatal, BootFails, Restart, Exit, ProcessStarts
<1> QED
  BY <1>2, <1>3, <1>4, <1>5 DEF FormInv

\* No two states have one SPI and no two policies one key, EnsureCIDRs runs only in
\* a process that has started, and what its loops work on is gone when they end.
THEOREM TypesCorrect == Spec => []TypeOK
<1>1. Init => FormInv
  BY InitForm
<1>2. IndInv /\ FormInv /\ [Next]_vars => FormInv'
  BY NextForm
<1>3. IndInv /\ PolicyInv /\ FormInv => TypeOK
  <2> SUFFICES ASSUME IndInv, PolicyInv, FormInv PROVE TypeOK
    OBVIOUS
  <2>1. ProviderTypeOK
    BY IndMap, ProviderTyped DEF FormInv
  <2>2. boot # "done" => pc = "idle"
    BY DEF IndInv, RunInv
  <2> QED
    BY <2>1, <2>2 DEF TypeOK, FormInv, PolicyInv, IndInv, StateInv
<1> QED
  BY <1>1, <1>2, <1>3, PolicyInvariance, PTL DEF Spec

=============================================================================
