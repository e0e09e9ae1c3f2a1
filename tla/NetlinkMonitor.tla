--------------------------- MODULE NetlinkMonitor ---------------------------
(***************************************************************************)
(* The ARP responder of vxlan-legacy (pkg/routing/vxlan/netlink_monitor.go) *)
(* and the kernel's ARP table of the vxlan link.                           *)
(*                                                                         *)
(* The kernel multicasts what happens to neighbours, of all links; the     *)
(* goroutine watch answers a request for the MAC of a pod by setting the   *)
(* ARP entry itself.  Its own answers are announced to it as well, and so  *)
(* are the forwarding entries that EnsureCIDRs sets.                       *)
(*                                                                         *)
(* The socket has room for MaxQueue messages: what does not fit is lost.   *)
(* Receive reporting such a loss, or a message that cannot be parsed, has  *)
(* no effect but a log line.                                               *)
(***************************************************************************)
EXTENDS Integers, Sequences, FiniteSets

CONSTANTS
    PodIPs,         \* addresses packets are sent to
    ForeignMessages,\* messages of other links and of other families
    MaxQueue        \* bound: messages that fit in the socket

ASSUME MaxQueueAssumption == MaxQueue \in Nat \ {0}

VARIABLES
    arp,        \* kernel: ARP entries of the link, [IP, HardwareAddr]
    listening,  \* whether the socket is open and the goroutine runs
    queue       \* kernel: messages in the socket

monitorVars == <<arp, listening, queue>>

\* 00:53 and the four bytes; the process exits on any other address.
mapToMAC(ip) == <<0, 83>> \o ip
IsIPv4(ip) == Len(ip) = 4

\* A message on a neighbour of the link; a nil MAC is <<>>.
Message(type, state, ip, mac) ==
    [LinkIndex |-> "vxlan1", Type |-> type, State |-> state, IP |-> ip,
     HardwareAddr |-> mac]

Announced(q, m) == IF listening /\ Len(q) < MaxQueue THEN Append(q, m) ELSE q

Resolved(ip) == \E a \in arp : a.IP = ip

-----------------------------------------------------------------------------
(***************************************************************************)
(* The goroutine watch.                                                    *)
(***************************************************************************)

\* Mutant: messages that have a MAC are answered too, unless they say REACHABLE.
WantedKnown(m) ==
    /\ m.LinkIndex = "vxlan1"
    /\ m.Type \in {"GETNEIGH", "NEWNEIGH"}
    /\ m.State # "REACHABLE"
    /\ m.IP # <<>> /\ IsIPv4(m.IP)

\* Mutant: requests are left out, only news are answered.
WantedNews(m) ==
    /\ m.LinkIndex = "vxlan1"
    /\ m.Type = "NEWNEIGH"
    /\ m.State # "REACHABLE"
    /\ m.HardwareAddr = <<>> /\ m.IP # <<>>
    /\ IsIPv4(m.IP)

\* The message gets past the filters of watch.
Wanted(m) ==
    /\ m.LinkIndex = "vxlan1"
    /\ m.Type \in {"GETNEIGH", "NEWNEIGH"}
    /\ m.State # "REACHABLE"
    /\ m.HardwareAddr = <<>> /\ m.IP # <<>>
    /\ IsIPv4(m.IP)

\* Mutant: the MAC of the address itself.
AnswerOwn(ip) == [IP |-> ip, HardwareAddr |-> mapToMAC(ip)]

\* The MAC of the node, taking its PodCIDR to be the /24 of the address.
Answer(ip) == [IP |-> ip, HardwareAddr |-> mapToMAC(<<ip[1], ip[2], ip[3], 0>>)]

Ignore ==
    /\ queue # <<>> /\ ~Wanted(Head(queue))
    /\ queue' = Tail(queue)
    /\ UNCHANGED <<arp, listening>>

\* NeighSet with state REACHABLE; the kernel announces an entry that changed.
Respond ==
    /\ queue # <<>> /\ Wanted(Head(queue))
    /\ LET e == Answer(Head(queue).IP) IN
          /\ arp' = {a \in arp : a.IP # e.IP} \cup {e}
          /\ queue' = IF e \in arp THEN Tail(queue)
                      ELSE Announced(Tail(queue),
                              Message("NEWNEIGH", "REACHABLE", e.IP, e.HardwareAddr))
    /\ UNCHANGED listening

\* NeighSet fails, which is only logged.
RespondFails ==
    /\ queue # <<>> /\ Wanted(Head(queue))
    /\ queue' = Tail(queue)
    /\ UNCHANGED <<arp, listening>>

Watch == Ignore \/ Respond

-----------------------------------------------------------------------------
(***************************************************************************)
(* The kernel.                                                             *)
(***************************************************************************)

\* A packet for an address without an entry, of a link with app_solicit.
Miss(ip) ==
    /\ ~Resolved(ip)
    /\ queue' = Announced(queue, Message("GETNEIGH", "INCOMPLETE", ip, <<>>))
    /\ UNCHANGED <<arp, listening>>

\* An entry nobody confirms fails or is collected; any entry may be deleted.
Expire ==
    /\ \E a \in arp :
          /\ arp' = arp \ {a}
          /\ \/ queue' = Announced(queue, Message("NEWNEIGH", "FAILED", a.IP, <<>>))
             \/ queue' = Announced(queue, Message("DELNEIGH", "FAILED", a.IP, <<>>))
    /\ UNCHANGED listening

Foreign ==
    /\ \E m \in ForeignMessages : queue' = Announced(queue, m)
    /\ UNCHANGED <<arp, listening>>

=============================================================================
