# kopeio-networking in TLA+

kopeio-networking runs one agent per Kubernetes node. The agent learns the
nodes of the cluster from the API server and configures the kernel so that
packets to the pods of another node get there. This directory models the agent
and its five providers, checks the models with TLC on small instances, and
proves every safety property of the agent and of the providers that the models
have with TLAPS, for instances of any size.

## The system

| Part | Code | State | Operations |
|---|---|---|---|
| node map | `pkg/routing/nodes.go` | ready, nodes, version, me; a mutex | UpdateNode, RemoveNode, ReplaceAllNodes, MarkReady; IsReady, IsVersion, Snapshot |
| node controller (goroutine 1) | `pkg/watchers/nodecontroller.go` | list version, watch channel | list, replace all, watch, apply events, restart |
| routing controller (goroutine 2) | `pkg/routing/providercontroller.go` | none of its own | EnsureCIDRs, WriteCNIConfig, patch the node's condition |
| CNI writer | `pkg/cni` | one file | WriteCNIConfig |
| providers | `pkg/routing/{vxlan2,layer2,gre,vxlan,ipsec}` | lastVersionApplied, a link | EnsureCIDRs |
| ARP responder (goroutine 3, vxlan-legacy only) | `pkg/routing/vxlan/netlink_monitor.go` | a netlink socket | answer requests for MACs |
| reconciliation | `pkg/routing/netutil` | kernel tables | Ensure for routes, neighbours, addresses, links, xfrm |
| process | `cmd/networking-agent` | none | start, signals, exit |
| operator | `operator/` | none of its own | configures a library's reconciler |

The node controller writes the node map, the routing controller reads it: under
the mutex through IsVersion and Snapshot, and *without* it where it uses
`nodeMap.me`. A provider remembers the version it applied last and returns at
once while the map still has it. It makes many kernel calls, any of which may
fail; the whole of EnsureCIDRs is then called again after ten seconds. The
kernel's tables, the CNI file and the Node objects outlive the process.

`vxlan-legacy` leaves the MACs of pods to a goroutine that the kernel asks over
a netlink socket. `ipsec` flushes the kernel's states and policies when the
process starts, and derives the SPI of a state from the PodCIDRs of the two
nodes, so that both ends come to the same one without talking to each other.

What is hard about it:

- the two goroutines, and the unlocked reads in between;
- a pointer (`me`) to a map entry that may be removed;
- a version number that stands for the content of the map;
- nodes that come, go, return, and pass on their PodCIDR or address;
- failures between any two kernel calls, restarts at any point, and kernels
  that hold what earlier runs or other programs left;
- a socket that loses messages, and that brings the responder's own answers and
  the entries EnsureCIDRs sets back to it;
- keys that differ between the code and the kernel (SPI alone, or destination,
  SPI and protocol; a link's name, or its two addresses).

`PROJECT.json` lists these hazards by line, with the properties that cover them.

## Modules

| Module | Models |
|---|---|
| `NodeMap` | the node map. An update writes an entry in two steps, since unlocked readers may come in between; `orphan` is what `me` points to after its entry was removed |
| `NodeController` | runOnce and its restarts. The API server is external: `hist` is the sequence of collections it has held, one per resource version |
| `Agent` | both goroutines, the CNI file, the node's condition, restarts. The provider is reduced to what all five share |
| `NodeSync` | abstract: a snapshot is a collection the API server really held, and the versions of snapshots never go back while the agent runs |
| `AgentProofs` | theorems about `Agent`: node map, snapshots, versions |
| `AgentReadyProofs` | theorems about `Agent`: what it reports and writes for its own node |
| `Provider` | what the providers share: early return, snapshot, loop over remote nodes, recorded version. The node map is any sequence of views, as `Agent` justifies |
| `ProviderProofs` | lemmas about `Provider` that the proofs of the providers share |
| `Netutil` | what the Ensure functions of `netutil` decide to create, replace and remove: routes, links, neighbours, addresses |
| `Xfrm` | likewise for IPsec states and policies |
| `Vxlan2` | provider `vxlan`: EnsureLink and EnsureCIDRs, one kernel call per step |
| `Layer2` | provider `layer2`, likewise |
| `Gre` | provider `gre`, likewise |
| `NetlinkMonitor` | the ARP responder of `vxlan-legacy`, its socket, and the kernel that asks |
| `Vxlan` | provider `vxlan-legacy`: EnsureCIDRs beside the responder |
| `Ipsec` | provider `ipsec`: start-up with its flushes, numerals and SPIs, EnsureCIDRs |
| `Layer2Proofs`, `Vxlan2Proofs`, `GreProofs`, `VxlanProofs`, `IpsecProofs` | theorems about the providers |
| `MCCluster` | the views of the providers' instances |
| `MCAgent`, `MCVxlan2`, `MCLayer2`, `MCGre`, `MCVxlan`, `MCIpsec` | small instances |

Actions carry the names of the functions or calls they stand for. Definitions
whose comment starts with "Mutant" are plausible bugs; each property fails when
the definition that follows is replaced by its mutant.

Abstractions worth knowing:

- Texts that are parsed are members of small sets with a parse function; the
  texts of addresses are numbered in the order of `sort.Strings`.
- An update of a node writes PodCIDR and Address in one step: no unlocked
  reader looks at Address.
- `CniRead` merges the nil check of `me` with the read of its PodCIDR: `me`
  never becomes nil again (this is proved).
- `applied` in `Agent` is the snapshot the kernel agrees with. The provider
  models say what that takes.
- A restarted provider keeps counting the versions of the old map instead of
  starting over. It has applied none of them, so the numbers do not matter.
- Routes and links to remove or create are handled in any order. The code
  removes changed routes before extra ones, and follows the order of Go maps
  otherwise.
- The steps of EnsureLink in `Vxlan2` are guarded by the state of the link, not
  by a program counter. Nobody else changes the link.
- `Views` have no two nodes with one PodCIDR or one address at a time.
- In `Vxlan2` no route of another link is in the way of a route to a PodCIDR.
- Numerals and SPIs in `Ipsec` are computed as numbers. The two constant top
  bits of an SPI are left out: they are the same for all.
- An authentication, encryption or encapsulation strategy is the name of the
  algorithm it puts into a state; keys and limits, which are constants of the
  code, are left out. Index and priority of a policy, which Ensure copies or
  which follow from the key, are left out as well.
- The Ensure functions list a table once and then work through their lists. In
  `Ipsec` what is left to add or to remove is recomputed from the table instead,
  which nobody else changes; only the updates of states are a list.

External, modelled from its use: the API server (lists, watches and the rule
that a PodCIDR once set is not changed) and the kernel (a second route to a
destination, a second tunnel between two addresses and a gateway that is local
are refused; a deleted link takes its routes along; a neighbour entry replaces
the one of its key; a list of neighbours has ARP entries and no FDB). For
`vxlan-legacy`: a link that is up with an address has the kernel's route to the
address's network; changes of neighbours of all links are announced to the
socket, which drops what does not fit; entries may expire at any time. For
`ipsec`: an update of a state finds it by destination, SPI and protocol, fails
if there is none, and changes neither addresses nor algorithms; the listener's
socket has two policies that are listed but neither flushed nor deleted.

Two side effects that a kernel may have are left out. A change of a link's MAC
may flush its ARP entries: it happens in EnsureLink, and `vxlan2` sets its entries
after that, while a pod's request makes one again in `vxlan-legacy`. The
removal of a primary address takes the secondary ones of the same network along,
unless `promote_secondaries` is set: EnsureLinkAddresses adds before it removes,
so where the old address of a link has the network and the mask of the new one
(`vxlan-legacy` after `vxlan-legacy` with another PodCIDR), the models hold for
kernels with that setting only.

## Runs

| Run | Config | Expected | Distinct states | Question |
|---|---|---|---|---|
| `agent_safety` | `AgentSafety` | pass | 1,277,183 | is the map what the API had, the early return safe, `me` valid, NodeSync implemented? |
| `agent_ready` | `AgentReady` | pass | 60,766 | is a node only reported ready when it is, and does it get there? |
| `agent_me` | `AgentMe` | violation | | is the local node the API's? |
| `vxlan2` | `Vxlan2` | pass | 345,781 | is forwarding right at every step and when up to date; does it get up to date? |
| `layer2` | `Layer2` | pass | 30,798 | likewise |
| `layer2_replaced` | `Layer2Replaced` | violation | | does it recover when a PodCIDR moves? |
| `layer2_self` | `Layer2Self` | violation | | does it leave its own PodCIDR alone? |
| `gre` | `Gre` | pass | 283,984 | are routes only in tunnels that are up; does it get up to date? |
| `gre_replaced` | `GreReplaced` | violation | | do tunnels follow a PodCIDR that moves? |
| `vxlan_legacy` | `Vxlan` | pass | 461,910 | with a lossy socket: are resolved addresses forwarded right, does the responder answer what it should and nothing else? |
| `vxlan_legacy_monitor` | `VxlanMonitor` | violation | | does an up-to-date provider listen? |
| `ipsec` | `Ipsec` | pass | 347,400 | do states and policies agree with the view and with the other nodes' agents; does every policy have its state first? |

The state counts were observed with the bounds below. In each passing run
deadlock is checked too.

### Bounds

- `agent_*`: the local node and one other. `MaxWrites = 2` lets others write
  two versions after the initial one (the agent's own patches come on top).
  That is enough to delete the local node and create it again, or for a node to
  change during a list and again during the watch. One restart, at any step.
- Providers: the local node and two others, which suffices for one to take over
  the PodCIDR or the address of another. `MaxVersion = 3` allows for a change
  while an earlier one is being applied, and another while that is repaired.
  One restart, any number of failing calls.
- `vxlan_legacy` has `MaxVersion = 2`, since the responder runs beside
  everything. The kernel found at the start counts as an earlier version: it has
  the pod's PodCIDR at another address. `MaxQueue = 2` is enough for a message
  to be lost and for one to be announced behind another.
- `ipsec` needs `MaxVersion = 3`: a policy is updated only if a PodCIDR leaves
  and comes back at another address, and the removal in between failed half way.
  Its views have a PodCIDR that moves, two PodCIDRs whose numerals collide (they
  differ above the last 14 bits), and one of IPv6; there are two sets of options.
- Initial kernels: a fresh one, what an earlier run left, and one with settings
  of another provider, another PodCIDR or another program. `vxlan_legacy`
  has two: a fresh one, and one with a link of `vxlan2`, made when the node had
  another PodCIDR.

The views of `gre` have PodCIDRs that stay with their address and one that
moves; `UpToDateTunnels` claims the right remote address for the former only,
since `gre_replaced` shows that it fails for the latter. Networks that
differ in length alone count as one PodCIDR there, since the tunnel's name is
made of the address without the length.

### Fairness

- Both goroutines loop forever, so steps of theirs that stay enabled happen.
- `sync.Mutex` hands over to a waiter that has waited for a millisecond, so a
  reader that tries again and again gets it: strong fairness of the locked
  reads in `Agent`.
- A call that is retried forever succeeds in the end: strong fairness of Apply,
  CniWrite and Patch in `Agent`, and "from some time on, no Fail" in the
  providers. Refusals by the kernel for a lasting reason are *not* transient,
  and have actions of their own without that assumption.
- The responder's goroutine runs for as long as the process does, and its calls
  do not fail forever: weak fairness of Watch, and "from some time on, no
  RespondFails". That its requests find room in the socket is a premise of
  `MissesAnswered`, not an assumption.
- A process that ended is started again, and its start succeeds in the end
  (`~BootFails` in `Ipsec`).
- Routes and links are created in the order of Go maps, which differs from call
  to call: strong fairness of RouteAdd and LinkAdd in `Layer2` and `Gre`.

Restarts, ends of watches and changes of the cluster have no fairness.
Restarts and writes by others are bounded.

### What the violations show

- `agent_me`: updateNode looks for the local node only while `me` is nil.
  Delete the local Node object and create it again: `me` stays at the old
  NodeInfo, which nobody updates any more.
- `layer2_replaced`: a changed route is on the remove list, but removal is done
  only under `deleteExtraRoutes`. The kernel then refuses the new route, on
  every retry.
- `layer2_self`: Snapshot returns a zero NodeInfo, never nil, for an unknown
  local node. The check in `layer2` and `gre` cannot fire, and the node's own
  PodCIDR is treated as remote. This takes a matcher that finds no node for a
  while, such as a boot ID that the kubelet has not reported yet.
- `gre_replaced`: a tunnel that exists under the expected name is never
  changed, so it keeps the address of the node that had the PodCIDR before.
- `vxlan_legacy_monitor`: `p.link` is set before listenArp and the start of the
  responder. If one of them fails once, the next call takes the link for
  complete, skips both, and records the version: misses go unanswered until the
  agent restarts.

Two more disagreements with the documentation show in passing runs, whose
properties state what the code does:

- `LinkIsConfigured` in `vxlan_legacy`: `pkg/routing/vxlan/README.md` says that
  the MAC of the interface encodes the PodCIDR. A link that LinkAdd finds in
  place is reused, and its MAC is the one setting that is never corrected. One
  initial kernel of the run has a link made for another PodCIDR; the property
  has to admit its MAC, and fails without that alternative. Other nodes send to
  the MAC of the PodCIDR. (`vxlan2` corrects the MAC.)
- `UpToDatePolicies` in `ipsec`: `pkg/routing/ipsec/README.md` speaks of "A
  policy that AH & ESP are required". The templates require ESP alone; AH states
  are made, and no policy requires them.

What the properties of `ipsec` claim of a PodCIDR that moves. The SPI is made of
PodCIDRs, so it stays when a PodCIDR passes to another address, and Ensure,
which goes by the SPI, updates the state instead of replacing it. For an outbound
state the update is refused, since the kernel has no state with that
destination: no version is recorded, and so it goes on until the agent restarts
and flushes. For an inbound state the update succeeds and leaves the source as
it was. Accordingly `UpToDateStates` claims every field but the source, which
may be that of another view for the same SPI (`SameButSource`), `UpToDatePolicies`
and `PoliciesBacked` claim a state with the SPI and the destination of the
policy (`Backed`), and `Converges` has the premise that the kernel does not
refuse forever (`Refused`). An up-to-date provider with such a source is
reached in the instance. The code knows: main.go flushes at the start with the
comment "This is only because state update is not working". The other premise of
`Converges`, `Good`, excludes views that end the process: an IPv6 PodCIDR, or
two remote nodes with one numeral. It is stated of numerals, not of SPIs, so that the
packing of numerals into SPIs is checked, not assumed.

`Converges` of `gre` is claimed while no tunnel that is to *stay* takes the
addresses of one to be made (`NoConflict`). A tunnel that is to be removed does
not excuse anything: a node that keeps its address and changes its PodCIDR is
served only if its old tunnel goes first.

The forwarding property of `vxlan_legacy` is claimed for PodCIDRs of length 24,
since the responder takes the /24 of an address for the PodCIDR.

`ReadyMeansConfigured` and `CniSubnetNeverEmpty` are claimed for providers that
check the local PodCIDR (`RequireSelf`) and a local Node object that is not
deleted while the agent runs (`LocalNodeKept`). With `layer2` and `gre` the CNI config may be
written with an empty subnet before the PodCIDR is assigned.
`LinkIsConfigured` assumes the API server's rule that a PodCIDR does not change.

## Proofs

### The agent

For every set of nodes, texts, objects and every bound:

| Module | Theorem | States |
|---|---|---|
| `AgentProofs` | `Invariance` | `IndInv` always holds |
| | `TypeCorrect` | `TypeOK` |
| | `Mirror` | `MapMirrorsApi` |
| | `SkipSafe` | `SkipIsSafe` |
| | `MeValid` | `MeStaysValid` |
| | `Refinement` | `Agent` implements `NodeSync` |
| `AgentReadyProofs` | `ReadyConfigured` | `ReadyMeansConfigured`, if `LocalNodeKept` |
| | `CniSubnet` | `CniSubnetNeverEmpty`, if `LocalNodeKept` |

They assume what `NodeMap`, `NodeController` and `Agent` state in their ASSUMEs:
the types of the constants, and that `Nil` is none of the values it stands in
for. TLC evaluates these on every agent run.

None of the properties is inductive. `IndInv` adds:

- `HistInv`: consecutive collections differ in one node, the one the event
  names. Without it an event would not take the map from one to the next.
- `PosInv`: how far the node controller is in each of its states.
- `MirrorInv`: while the mutex is held, which entries agree already, and what a
  half-updated one looks like.
- `MeInv`: `me` leads to a NodeInfo, in the map or beside it.
- `VersionInv`: a version determines the snapshot, except between the two steps
  of an update that has found a change (`changed`). This is the heart of
  `SkipSafe`: the version is incremented at the *end* of an update, so until
  then an old version goes with new content, and only the mutex hides it.

The proof goes through one lemma per action. Steps of the node map satisfy
`MapStep` (the version never falls, and the snapshot changes only with it), so
that the controller's part of the invariant is proved once for all of them.
`IndInv` was model-checked on the instance of `agent_safety` before it was
proved.

`AgentReadyProofs` has one hypothesis, `LocalNodeKept`: no Node object that the
matcher could take for the local node is ever deleted. It is what separates
these two properties from the violation `agent_me`, and the instance of
`agent_ready` satisfies it, its other node being deleted at will. `ReadyInv`
adds to `IndInv`:

- `KeptInv`: an object that is not deleted is there in all later versions, and
  keeps its PodCIDR once that parses. It follows from the API server's rule by
  transitivity over the versions.
- `EntryInv`: every entry of the map has the PodCIDR of *some* version that the
  controller has got to. In the middle of ReplaceAllNodes entries are of
  different versions, and unlocked readers see them.
- `SelfInv`: `me` leads to an entry of the map, of a node that stays.
- `ConfiguredInv`: what the routing controller has taken from its snapshot,
  applied, passed to WriteCNIConfig and written is the PodCIDR `me` has. Hence
  the second, unlocked read can only find what the first one did.

### The providers

| Module | Theorem | States |
|---|---|---|
| `Vxlan2Proofs` | `RoutesResolved` | `RoutesResolve`: no route without its neighbour entries, at any step |
| | `ForwardsCorrect` | `UpToDateForwards` |
| | `LinkConfigured` | `LinkIsConfigured` |
| | `TypesCorrect` | `TypeOK` |
| `Layer2Proofs` | `RoutesCorrect` | `UpToDateRoutes` |
| | `TypesCorrect` | `TypeOK` |
| `GreProofs` | `RoutesTunnelled` | `RoutesUseTunnels`: no route into a tunnel that is missing or down, at any step |
| | `TunnelsCorrect` | `UpToDateTunnels` |
| | `TypesCorrect` | `TypeOK` |
| `VxlanProofs` | `AnswersCorrect` | `AnswersOverlayOnly` |
| | `ForwardsCorrect` | `UpToDateForwards` |
| | `LinkConfigured` | `LinkIsConfigured`: MTU, address and state; the MAC is the PodCIDR's or one that was found |
| | `TypesCorrect` | `TypeOK`, with the bound on the socket |
| `IpsecProofs` | `SpiInjective` | SPIs are equal only if numerals, direction and protocol are |
| | `StatesCorrect` | `UpToDateStates`: the states of the other ends, their sources excepted |
| | `PoliciesCorrect` | `UpToDatePolicies`: exactly the view's policies, for ESP, each with its state |
| | `PoliciesBackedAlways` | `PoliciesBacked`: no policy is added or changed before the ESP state of its SPI and destination is there |
| | `TypesCorrect` | `TypeOK`, with the uniqueness of SPIs and of policy keys |

They hold for any set of nodes and views, any initial kernel, and any number of
changes, failures and restarts, under these assumptions (ASSUMEs of the
modules, which TLC evaluates on the instances):

- `ProviderTypes`: a view has an entry, perhaps nil, for every node; the first
  view has none.
- `DistinctNeighs` (`Vxlan2`, `Vxlan`): at a time, nodes share no address and no
  PodCIDR. The neighbour table keys ARP and FDB entries by IP alone, so it would
  drop one of two entries.
- `InitialKernelsAssumption`, `InitialRoutesAssumption`: the kernel's own keys
  (one route per destination, one ARP entry per address, one FDB entry per MAC),
  the records the tables are made of, and that what an earlier run of the agent
  left has the form the agent gives it. In `Gre`, tunnels to PodCIDRs that stay with their address lead there.
- `PodCIDRAssumption` (`Vxlan2`, `Vxlan`, for `LinkConfigured` alone): the
  PodCIDR of the local node does not change once it is set.
- `DistinctPolicies`, `FiniteNodes` (`Ipsec`, for the policies alone): the
  policies of a view have different keys, as they do for nodes that share
  neither address nor PodCIDR, and a cluster is finite, so that the loop over
  its nodes is a sequence.
- `InfosAssumption`, `TrafficAssumption`, `PodCIDRTypes`, `StrategiesAssumption`:
  types of addresses, networks, messages and options; networks are masked, as
  `net.ParseCIDR` returns them; pods have addresses of the overlay; an IPv4
  network of `Ipsec` has a length of at least 2.
- `PowersOfTwo`: 2^k is a positive number for k up to 30, which the solver does
  not know.

The argument has two halves. `MapInv` (`ProviderProofs`) says what the recorded
version stands for: the snapshot is the view of its version, what was applied is
not newer, and EnsureCIDRs runs only on a stale version. (`IpsecProofs`, where
the process has a start-up of its own, has it as `TypeInv`, `VersionInv` and
`RunInv`.) Hence an up-to-date
provider has applied the view the map has *now*. `PhaseInv`, in each provider's
module, says how far the kernel agrees with the snapshot in each phase: in
`Vxlan2`, all neighbours are there or to do, then all there, then no route is
too many, then none missing. A call that fails leaves all phases, and the
invariant then claims nothing but what holds at any step.

What holds at any step is the third part. In `Vxlan2` every route's gateway has
the MAC that `mapToMAC` gives it, so an ARP entry that is replaced is replaced
by its equal, and an FDB entry by one for the same MAC. In `Gre` links are
deleted with their routes, and routes added only when all links are up. In
`Vxlan` every ARP entry is the answer for its address (`ArpInv`), and whatever
is in the socket and gets past the filters asks for an address of the overlay
(`QueueInv`): the responder's own answers and the FDB entries of EnsureCIDRs
carry a MAC. In `Ipsec` no two states have one SPI, and every state of a running
process is one of some view under the present options (`StateInv`), which the
flush at the start establishes. A state whose update succeeded has the
destination and the protocol of the expected one, since the kernel found it by
them (`Located`); by the SPI, algorithm and encapsulation agree as well, and
only the source may be that of another view.

The links of the two vxlan providers need an invariant of their own (`LinkInv`):
EnsureLink works on the link only while `p.link` is not set, and each label it
passes adds what the calls before it have set right. Once `p.link` is set the
claim is about *some* view that had a PodCIDR, the one of that time;
`PodCIDRAssumption` then makes it the present one. In `Vxlan` the MAC is carried
along as the PodCIDR's or that of an initial kernel's link (`KnownMac`), since
only a new link gets one.

The policies of `Ipsec` are a sequence, in an order that depends on the order of
the nodes and on every earlier addition and removal. `PolicyInv` abstracts from
it: the table has policies of views, none of the socket's, and no two with one
key; the list that Ensure works from is that of the snapshot in some order of
its nodes. The lemmas below it say what a list of nine policies per node
contains, what an addition, an update and a removal in a sequence do to the set
of its entries, and that a list of expected entries with different keys, of
which none is missing and to which none is extra, is the table
(`PoliciesEnsured`). `PoliciesBackedAlways` is an action property: it follows
from `PolicyInv` and the invariant for the states, since the states are complete
in the phase in which policies are added.

The types of the providers (`FormInv` in each module) say more than the shape of
values: a loop that ends, fails or dies leaves nothing to do; bounds hold; the
socket of `Vxlan` never has more than `MaxQueue` messages and none when nobody
listens. `LinkInv`, `PolicyInv` and `ReadyInv` were model-checked on the
instances of the runs before they were proved.

### Only model-checked

All liveness (`RoutesConverge`, `NodeBecomesReady`, `Converges`,
`ConvergesWithoutConflict`, `MissesAnswered`): fairness and ENABLED are beyond
the prover. Every invariant and every action property of a passing run is
proved. Inductions over data, and RECURSIVE operators, are beyond the prover
too; this project does without them.

## Not modelled

- Options, choice of target links, construction of clients and of the providers
  other than `ipsec`: done once at start, before anything runs.
- The operator: configuration of a library, API types, generated code.
- `pkg/util/format.go`: JSON for log lines.
- Two agents together. They share nothing but the API server; what one does
  depends on the others only through Node objects, which change freely here.
  (What the ends of an `ipsec` pair have to agree on is stated in
  `UpToDateStates`.)
- Nodes that share an address or a PodCIDR at a time. The neighbour table loses
  an entry then, and nothing in the repository says which should win.
- A change of the local node's own PodCIDR or address after the link is made.
  The API server forbids the first; the second would need the link's source
  address, which the models leave out.
