------------------------------- MODULE Ipsec --------------------------------
(***************************************************************************)
(* The provider "ipsec" (pkg/routing/ipsec), the start of its process, and *)
(* the two kernel tables it configures: for each remote node a state for   *)
(* AH and one for ESP in each direction, and the policies that send        *)
(* traffic between the nodes' pods through the ESP states.                 *)
(*                                                                         *)
(* Every kernel call is a step and may fail, which ends EnsureCIDRs (or    *)
(* the process, while it starts) with the calls made so far in effect.     *)
(* Nobody else has states or policies.                                     *)
(***************************************************************************)
EXTENDS Provider, Xfrm

CONSTANTS
    Strategies  \* choices of the options: [Auth, Crypt, Encap]

ASSUME StrategiesAssumption ==
    \A s \in Strategies : DOMAIN s = {"Auth", "Crypt", "Encap"}

VARIABLES
    boot,      \* how far the start of the process is
    strategy,  \* the strategies the process was started with
    expected,  \* the list of expected policies, while EnsureCIDRs has one
    todo,      \* states that are still to be updated
    states,    \* kernel: the set of states
    policies   \* kernel: the policies, but those of the listener's socket

xfrmVars == <<states, policies>>
vars == <<mapVars, provVars, boot, strategy, expected, todo, xfrmVars>>

Init ==
    /\ ProviderInit
    /\ boot = "new"
    /\ strategy \in Strategies
    /\ expected = <<>>
    /\ todo = {}
    /\ states = {} /\ policies = <<>>

-----------------------------------------------------------------------------
(***************************************************************************)
(* The states for a pair of nodes.                                         *)
(***************************************************************************)

IsIPv4(net) == Len(net.ip) = 4
Number(ip) == ip[1] * 16777216 + ip[2] * 65536 + ip[3] * 256 + ip[4]

\* A network of IPv4 whose host part has at most 30 bits, and the powers of two
\* that its numeral takes.
Net4(net) == net.ip \in [1 .. 4 -> 0 .. 255] /\ net.len \in 2 .. 32

ASSUME PowersOfTwo == \A k \in 0 .. 30 : 2 ^ k \in Nat \ {0}

\* The last 14 bits of the network's part of the address.
NumeralBits == 16384
computeNodeNumeral(net) == (Number(net.ip) \div 2 ^ (32 - net.len)) % NumeralBits

\* The SPI without its constant bits, 0xc0000000: the numerals of 14 bits each
\* and the number of the protocol do not overlap.
Spi(src, dst, bit) ==
    computeNodeNumeral(src.PodCIDR) * 65536 + computeNodeNumeral(dst.PodCIDR) * 4 + bit

StateAH(src, dst, s) ==
    [Proto |-> "AH", Spi |-> Spi(src, dst, 0), Src |-> src.Address, Dst |-> dst.Address,
     Algo |-> s.Auth, Encap |-> "none"]
StateESP(src, dst, s) ==
    [Proto |-> "ESP", Spi |-> Spi(src, dst, 1), Src |-> src.Address, Dst |-> dst.Address,
     Algo |-> s.Crypt, Encap |-> s.Encap]

\* What the agent of node me has for node remote: both protocols, out and in.
StatesFor(me, remote, s) ==
    {StateAH(me, remote, s), StateESP(me, remote, s),
     StateAH(remote, me, s), StateESP(remote, me, s)}

Local(v) == [PodCIDR |-> v.PodCIDR, Address |-> v.Address]
States(v, s) == UNION {StatesFor(Local(v), v.nodes[n], s) : n \in Remotes(v)}

\* Two of the four states for each node have the same SPI.
DuplicateSpi(v, s) ==
    Cardinality({x.Spi : x \in States(v, s)}) # 4 * Cardinality(Remotes(v))

-----------------------------------------------------------------------------
(***************************************************************************)
(* The policies for a list of remote nodes.                                *)
(***************************************************************************)

All == [ip |-> <<0, 0, 0, 0>>, len |-> 0]
ipToIpnet(ip) == [ip |-> ip, len |-> 32]
Dirs == <<"in", "out", "fwd">>
SocketDirs == <<"socket_in", "socket_out">>

Bypass(dir, port) == [Dir |-> dir, Src |-> All, Dst |-> All, Port |-> port, Tmpl |-> Nil]

\* From the source net to the destination net of an outbound packet, through the
\* ESP state between the nodes; the other way round for inbound ones.
PolicyOf(dir, src, dst, me, remote) ==
    IF dir = "out"
    THEN [Dir |-> dir, Src |-> src, Dst |-> dst, Port |-> 0,
          Tmpl |-> [Proto |-> "ESP", Src |-> me.Address, Dst |-> remote.Address]]
    ELSE [Dir |-> dir, Src |-> dst, Dst |-> src, Port |-> 0,
          Tmpl |-> [Proto |-> "ESP", Src |-> remote.Address, Dst |-> me.Address]]

\* Pods to pods, pods to the node, the node to pods.
Selectors(me, remote) ==
    <<[Src |-> me.PodCIDR, Dst |-> remote.PodCIDR],
      [Src |-> me.PodCIDR, Dst |-> ipToIpnet(remote.Address)],
      [Src |-> ipToIpnet(me.Address), Dst |-> remote.PodCIDR]>>

RemotePolicies(me, remote) ==
    [k \in 1 .. 9 |->
        LET sel == Selectors(me, remote)[((k - 1) \div 3) + 1]
        IN  PolicyOf(Dirs[((k - 1) % 3) + 1], sel.Src, sel.Dst, me, remote)]

\* Mutant: the policies of the listener's socket are not expected.
PoliciesNoSocket(v, nodes) ==
    [k \in 1 .. 3 |-> Bypass(Dirs[k], 4500)] \o
    [k \in 1 .. 9 * Len(nodes) |->
        RemotePolicies(Local(v), v.nodes[nodes[((k - 1) \div 9) + 1]])[((k - 1) % 9) + 1]]

\* ESP in UDP itself, everything else of the listener's socket, the remote nodes.
Policies(v, nodes) ==
    [k \in 1 .. 3 |-> Bypass(Dirs[k], 4500)] \o
    [k \in 1 .. 2 |-> Bypass(SocketDirs[k], 0)] \o
    [k \in 1 .. 9 * Len(nodes) |->
        RemotePolicies(Local(v), v.nodes[nodes[((k - 1) \div 9) + 1]])[((k - 1) % 9) + 1]]

\* The orders in which the nodes may come: Snapshot ranges over a Go map.
Orders(S) == Bijection(1 .. Cardinality(S), S)

-----------------------------------------------------------------------------
(***************************************************************************)
(* The process starts: modprobe and the UDP listener in                    *)
(* NewIpsecRoutingProvider, then Flush.                                    *)
(***************************************************************************)

NewIpsecRoutingProvider ==
    /\ boot = "new"
    /\ boot' = "policies"
    /\ UNCHANGED <<mapVars, provVars, strategy, expected, todo, xfrmVars>>

FlushPolicies ==
    /\ boot = "policies"
    /\ boot' = "states"
    /\ policies' = <<>>
    /\ UNCHANGED <<mapVars, provVars, strategy, expected, todo, states>>

\* Mutant: the states are kept.
FlushNoStates ==
    /\ boot = "states"
    /\ boot' = "done"
    /\ UNCHANGED <<mapVars, provVars, strategy, expected, todo, xfrmVars>>

FlushStates ==
    /\ boot = "states"
    /\ boot' = "done"
    /\ states' = {}
    /\ UNCHANGED <<mapVars, provVars, strategy, expected, todo, policies>>

\* The policies XfrmPolicyList lists: those of the listener's socket come and go
\* with the process, and no flush removes them.
Sockets == [k \in 1 .. 2 |-> Bypass(SocketDirs[k], 0)]
ActualPolicies == IF boot = "new" THEN policies ELSE policies \o Sockets

-----------------------------------------------------------------------------
(***************************************************************************)
(* EnsureCIDRs.                                                            *)
(***************************************************************************)

AllIPv4(v) == IsIPv4(v.PodCIDR) /\ \A n \in Remotes(v) : IsIPv4(v.nodes[n].PodCIDR)

\* A PodCIDR that is not IPv4 is an error before the first change.
Usable(v) == v.PodCIDR # Nil /\ v.Address # Nil /\ AllIPv4(v)

ASSUME PodCIDRTypes ==
    \A v \in Views \cup {EmptyView} : Usable(v) =>
        Net4(v.PodCIDR) /\ \A n \in Remotes(v) : Net4(v.nodes[n].PodCIDR)

\* No two nodes share a PodCIDR or an address, and no PodCIDR is the address of
\* a node: no two expected policies match.  Then the three lists of
\* XfrmPolicyTable.Ensure, made before its first change, are what is left to do
\* after each change.
ASSUME DistinctPolicies ==
    \A v \in Views : Usable(v) =>
        \A nodes \in Orders(Remotes(v)) :
            LET e == Policies(v, nodes)
            IN  \A i, j \in DOMAIN e : xfrmPolicyMatches(e[i], e[j]) => i = j

ASSUME FiniteNodes == IsFiniteSet(Node)

ExpectedStates == States(snap.view, strategy)

Enter(label) == pc' = label /\ UNCHANGED <<mapVars, snap, lastVersionApplied, restarts>>

\* The version is the one applied last.
Skip == pc = "idle" /\ UpToDate /\ UNCHANGED vars

Begin ==
    /\ boot = "done"
    /\ Start
    /\ UNCHANGED <<boot, strategy, expected, todo, xfrmVars>>

\* Mutant: the policies come before the states.
ObservePoliciesFirst ==
    /\ TakeSnapshot(Usable(view), "policies")
    /\ \E nodes \in Orders(Remotes(view)) : expected' = Policies(view, nodes)
    /\ UNCHANGED <<boot, strategy, todo, xfrmVars>>

Observe ==
    /\ TakeSnapshot(Usable(view), "states")
    /\ UNCHANGED <<boot, strategy, expected, todo, xfrmVars>>

\* XfrmStateTable.Ensure: missing states are added,
StateAdd ==
    /\ pc = "states" /\ ~DuplicateSpi(snap.view, strategy)
    /\ \E e \in StateCreate(states, ExpectedStates) : states' = states \cup {e}
    /\ UNCHANGED <<mapVars, provVars, boot, strategy, expected, todo, policies>>

PlanUpdates ==
    /\ pc = "states" /\ ~DuplicateSpi(snap.view, strategy)
    /\ StateCreate(states, ExpectedStates) = {}
    /\ todo' = StateUpdates(states, ExpectedStates)
    /\ Enter("update")
    /\ UNCHANGED <<boot, strategy, expected, xfrmVars>>

\* states that differ are updated: the kernel refuses if it has no such state;
\* if it has, it keeps addresses and algorithms.
StateUpdate ==
    /\ pc = "update"
    /\ \E e \in todo :
          IF Located(states, e)
          THEN todo' = todo \ {e} /\ UNCHANGED provVars
          ELSE todo' = {} /\ ReturnError
    /\ UNCHANGED <<mapVars, boot, strategy, expected, xfrmVars>>

\* and states nobody expects are removed.
StateDel ==
    /\ pc = "update" /\ todo = {}
    /\ \E a \in StateRemove(states, ExpectedStates) : states' = states \ {a}
    /\ UNCHANGED <<mapVars, provVars, boot, strategy, expected, todo, policies>>

\* The policies are listed, in the order of allNodes.
StatesEnsured ==
    /\ pc = "update" /\ todo = {} /\ StateRemove(states, ExpectedStates) = {}
    /\ \E nodes \in Orders(Remotes(snap.view)) : expected' = Policies(snap.view, nodes)
    /\ Enter("policies")
    /\ UNCHANGED <<boot, strategy, todo, xfrmVars>>

ToCreate == PolicyCreate(ActualPolicies, expected)
ToUpdate == PolicyUpdates(ActualPolicies, expected)
ToRemove == PolicyRemove(ActualPolicies, expected)

\* XfrmPolicyTable.Ensure: the same, one after the other in the order of the
\* lists.
PolicyAdd ==
    /\ pc = "policies"
    /\ \E i \in ToCreate :
          /\ \A k \in ToCreate : i <= k
          /\ policies' = Append(policies, expected[i])
    /\ UNCHANGED <<mapVars, provVars, boot, strategy, expected, todo, states>>

PolicyUpdate ==
    /\ pc = "policies" /\ ToCreate = {}
    /\ \E p \in ToUpdate :
          /\ \A q \in ToUpdate : p[1] <= q[1]
          /\ policies' = [policies EXCEPT ![p[2]] = expected[p[1]]]
    /\ UNCHANGED <<mapVars, provVars, boot, strategy, expected, todo, states>>

\* The kernel would not delete a policy of the socket.
PolicyDel ==
    /\ pc = "policies" /\ ToCreate = {} /\ ToUpdate = {}
    /\ \E j \in ToRemove \cap DOMAIN policies :
          /\ \A k \in ToRemove : j <= k
          /\ policies' = SubSeq(policies, 1, j - 1) \o SubSeq(policies, j + 1, Len(policies))
    /\ UNCHANGED <<mapVars, provVars, boot, strategy, expected, todo, states>>

Commit ==
    /\ pc = "policies" /\ ToCreate = {} /\ ToUpdate = {} /\ ToRemove = {}
    /\ ReturnOK
    /\ expected' = <<>>
    /\ UNCHANGED <<boot, strategy, todo, xfrmVars>>

\* A kernel call fails.
Fail ==
    /\ pc \in {"states", "update", "policies"}
    /\ ReturnError
    /\ todo' = {} /\ expected' = <<>>
    /\ UNCHANGED <<boot, strategy, xfrmVars>>

-----------------------------------------------------------------------------
\* The process ends and starts anew, perhaps with other options.
Exit ==
    /\ ProcessStarts
    /\ boot' = "new"
    /\ strategy' \in Strategies
    /\ expected' = <<>>
    /\ todo' = {}
    /\ UNCHANGED xfrmVars

Restart ==
    /\ restarts < MaxRestarts
    /\ restarts' = restarts + 1
    /\ Exit

\* run returns an error: modprobe, the listener's socket or a flush failed.
BootFails ==
    /\ boot # "done"
    /\ UNCHANGED restarts
    /\ Exit

\* klog.Fatalf on a duplicate SPI.
Fatal ==
    /\ pc = "states" /\ DuplicateSpi(snap.view, strategy)
    /\ UNCHANGED restarts
    /\ Exit

BootStep == NewIpsecRoutingProvider \/ FlushPolicies \/ FlushStates

EnsureStep ==
    \/ BootStep \/ Begin \/ Observe
    \/ StateAdd \/ PlanUpdates \/ StateUpdate \/ StateDel \/ StatesEnsured
    \/ PolicyAdd \/ PolicyUpdate \/ PolicyDel \/ Commit
    \/ Fatal

Next ==
    \/ Change /\ UNCHANGED <<boot, strategy, expected, todo, xfrmVars>>
    \/ Skip \/ EnsureStep \/ Fail \/ BootFails
    \/ Restart

Spec == Init /\ [][Next]_vars

-----------------------------------------------------------------------------
TypeOK ==
    /\ ProviderTypeOK
    /\ pc \in {"idle", "snapshot", "states", "update", "policies"}
    /\ boot \in {"new", "policies", "states", "done"} /\ (boot # "done" => pc = "idle")
    /\ strategy \in Strategies
    /\ pc # "update" => todo = {}
    /\ pc # "policies" => expected = <<>>
    /\ \A s, t \in states : s.Spi = t.Spi => s = t
    /\ \A i, j \in DOMAIN policies : xfrmPolicyMatches(policies[i], policies[j]) => i = j

\* State s is e but for its source, which XfrmStateUpdate leaves as it was.
SameButSource(s, e) == s = [e EXCEPT !.Src = s.Src]

\* For the template of policy p there is the state between its addresses that view
\* v asks for, but for the source.
Backed(p, v) ==
    p.Tmpl # Nil =>
        \E e \in States(v, strategy) :
            /\ e.Proto = p.Tmpl.Proto /\ e.Src = p.Tmpl.Src /\ e.Dst = p.Tmpl.Dst
            /\ \E s \in states : SameButSource(s, e)

\* A policy is only added, or given another template, when the state that it sends
\* packets to is there, to the template's destination and with the SPI of the two
\* nodes: EnsureCIDRs ends the states before it starts with the policies.  (The
\* state's source may be an earlier address: see UpToDateStates.)
PoliciesBacked ==
    [][\A i \in DOMAIN policies' :
          (\A j \in DOMAIN policies : policies[j] # policies'[i]) =>
              Backed(policies'[i], snap.view)]_vars

\* The states that the agents of the remote nodes have for this node, with the same
\* options.
TheirStates(v) == UNION {StatesFor(v.nodes[n], Local(v), strategy) : n \in Remotes(v)}

\* When the provider takes itself to be up to date, each state that the agent of a
\* remote node has for this node is there, and no other: with that protocol, SPI,
\* destination, algorithm and encapsulation, whatever the process before was
\* started with.  The source is the code's exception: it may be one that another
\* view of the node map gives that SPI, since XfrmStateUpdate keeps the addresses
\* of a state, and succeeds if the destination is the right one.
UpToDateStates ==
    UpToDate =>
        /\ \A e \in TheirStates(view) : \E s \in states : SameButSource(s, e)
        /\ \A s \in states :
              /\ \E e \in TheirStates(view) : SameButSource(s, e)
              /\ \E v \in Views : s \in States(v, strategy)

\* Packets of pods to the pods of node n, of pods to node n, and of the local node
\* to its pods, in all directions.
PoliciesFor(v, n) ==
    {PolicyOf(dir, sel[1], sel[2], Local(v), v.nodes[n]) :
        dir \in {"in", "out", "fwd"},
        sel \in {<<v.PodCIDR, v.nodes[n].PodCIDR>>,
                 <<v.PodCIDR, ipToIpnet(v.nodes[n].Address)>>,
                 <<ipToIpnet(v.Address), v.nodes[n].PodCIDR>>}}

\* ESP in UDP itself passes.
DuePolicies(v) ==
    {Bypass(dir, 4500) : dir \in {"in", "out", "fwd"}} \cup
    UNION {PoliciesFor(v, n) : n \in Remotes(v)}

\* Then, too, packets of pods to pods of other nodes, of pods to other nodes, and
\* of the node to their pods have policies in all directions, whose states are
\* there, and there is no other policy.  Each requires ESP; none requires AH, though
\* ipsec/README.md says that both are required.
UpToDatePolicies ==
    UpToDate =>
        /\ \A i \in DOMAIN policies :
              /\ Backed(policies[i], view)
              /\ policies[i].Tmpl # Nil => policies[i].Tmpl.Proto = "ESP"
        /\ Range(policies) = DuePolicies(view)

\* EnsureCIDRs is called again and again, a process that ended is started, and
\* failures of kernel calls are transient, but for those the kernel refuses.
Fairness ==
    /\ WF_vars(EnsureStep)
    /\ <>[][Fail => Commit \/ StateUpdate]_vars
    /\ <>[][~BootFails]_vars

FairSpec == Spec /\ Fairness

\* The numerals of the PodCIDRs of view v differ, so that their SPIs should.
Good(v) ==
    /\ Usable(v)
    /\ \A n \in Remotes(v) :
          LET numeral == computeNodeNumeral(v.nodes[n].PodCIDR)
          IN  /\ numeral # computeNodeNumeral(v.PodCIDR)
              /\ \A m \in Remotes(v) : computeNodeNumeral(v.nodes[m].PodCIDR) = numeral => m = n

\* The kernel refuses to update a state: its SPI is one of view v, with another
\* destination.
Refused(v) ==
    \E s \in states, e \in States(v, strategy) : s.Spi = e.Spi /\ s.Dst # e.Dst

\* Once the node map stays as it is, the provider gets to be up to date, and stays
\* so: if the local node has a PodCIDR and an address, PodCIDRs are IPv4, their
\* numerals differ, and the kernel refuses no update.  A state that has another
\* source does not prevent it.
Converges == <>[](Good(view) /\ ~Refused(view)) => <>[]UpToDate

=============================================================================
