------------------------------ MODULE Netutil ------------------------------
(***************************************************************************)
(* The decisions of pkg/routing/netutil: which kernel calls make a table   *)
(* agree with the expected entries.  The providers' modules make the       *)
(* calls, one per step, in the order the code makes them.                  *)
(*                                                                         *)
(* A table is a set of records.  The maps the code builds have one entry   *)
(* per key, the last one listed; for entries with equal keys, in the order *)
(* of a Go map, any of them is the last.                                   *)
(***************************************************************************)
EXTENDS Integers, FiniteSets

\* The sets that keep one entry of S for each value of the field key.
OnePerKey(S, key) ==
    {T \in SUBSET S : \A e \in S : \E t \in T : /\ t[key] = e[key]
                                               /\ \A u \in T : u[key] = t[key] => u = t}

(***************************************************************************)
(* RouteTable.Ensure: a route is [dst, ...], keyed by dst.                 *)
(***************************************************************************)

\* Mutant: any route to the destination will do.
RouteCreateByDst(actual, expected) ==
    {e \in expected : \A a \in actual : a.dst # e.dst}

\* Mutant: routes there are already are created again.
RouteCreateAll(actual, expected) == expected

\* Expected routes that are missing, or differ from the one there is.
RouteCreate(actual, expected) == expected \ actual

\* Routes there are that differ from the expected one for their destination.
RouteChanged(actual, expected) ==
    {a \in actual \ expected : \E e \in expected : e.dst = a.dst}

RouteExtra(actual, expected) ==
    {a \in actual : \A e \in expected : e.dst # a.dst}

\* Routes are only removed if extra routes are to be deleted, also the changed.
RouteRemove(actual, expected, deleteExtraRoutes) ==
    IF deleteExtraRoutes
    THEN RouteChanged(actual, expected) \cup RouteExtra(actual, expected)
    ELSE {}

(***************************************************************************)
(* Links.Ensure: a link is [name, ...], keyed by name.  A link there is    *)
(* stays as it is, whatever the expected one of its name is like: the      *)
(* branch for a changed link is not implemented, and linkEqual compares    *)
(* names and types only.                                                   *)
(***************************************************************************)

\* Mutant: links that are not expected stay.
LinkRemoveNone(actual, expected) == {}

LinkRemove(actual, expected) ==
    {a \in actual : \A e \in expected : e.name # a.name}

\* Mutant: links there are already are created again.
LinkCreatesAll(actual, expected) == OnePerKey(expected, "name")

\* The possible sets of links to create.
LinkCreates(actual, expected) ==
    {{e \in T : \A a \in actual : a.name # e.name} : T \in OnePerKey(expected, "name")}

(***************************************************************************)
(* NeighTable.Ensure: an entry is [IP, HardwareAddr, ...], keyed by IP.    *)
(* Entries are only ever added or replaced.                                *)
(***************************************************************************)

\* The possible sets of entries to upsert.
NeighUpserts(actual, expected) ==
    {T \ actual : T \in OnePerKey(expected, "IP")}

(***************************************************************************)
(* EnsureLinkAddresses: an address is its own key; the missing ones are    *)
(* added before the others are removed.  (Label, flags and scope of the    *)
(* addresses of a link of the agent are the ones the agent gave them.)     *)
(***************************************************************************)

AddrCreate(actual, expected) == expected \ actual
AddrRemove(actual, expected) == actual \ expected

=============================================================================
