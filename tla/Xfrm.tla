-------------------------------- MODULE Xfrm --------------------------------
(***************************************************************************)
(* XfrmStateTable.Ensure and XfrmPolicyTable.Ensure (pkg/routing/netutil): *)
(* which kernel calls make the two tables of IPsec agree with the expected *)
(* entries.  Module Ipsec makes the calls in the order the code does.      *)
(*                                                                         *)
(* Fields that are the same for all entries of the agent (mode, limits,    *)
(* marks, request ids) are left out of both, and so are priority and index *)
(* of a policy: the first follows from its key, the second is copied from  *)
(* the policy it is compared with.                                         *)
(***************************************************************************)
EXTENDS Integers, Sequences, Functions

(***************************************************************************)
(* A state is [Proto, Spi, Src, Dst, Algo, Encap].  The maps of Ensure are *)
(* keyed by Spi; the kernel has one state for each Dst, Spi and Proto.     *)
(***************************************************************************)

\* Mutant: states are told apart by all of their fields.
StateCreateWhole(actual, expected) == expected \ actual

StateCreate(actual, expected) ==
    {e \in expected : \A a \in actual : a.Spi # e.Spi}

StateUpdates(actual, expected) ==
    {e \in expected \ actual : \E a \in actual : a.Spi = e.Spi}

StateRemove(actual, expected) ==
    {a \in actual : \A e \in expected : e.Spi # a.Spi}

\* Kernel: there is a state for XfrmStateUpdate to change.
Located(actual, e) ==
    \E a \in actual : a.Dst = e.Dst /\ a.Spi = e.Spi /\ a.Proto = e.Proto

(***************************************************************************)
(* A policy is [Dir, Src, Dst, Port, Tmpl], Port being 0 for all           *)
(* protocols, and otherwise a destination port of UDP.  Tables are         *)
(* sequences, in the order of the code's list and of the kernel's.         *)
(***************************************************************************)

xfrmPolicyMatches(a, e) ==
    a.Dir = e.Dir /\ a.Port = e.Port /\ a.Dst = e.Dst /\ a.Src = e.Src

\* Positions of the expected policies that match none.
PolicyCreate(actual, expected) ==
    {i \in DOMAIN expected :
        \A j \in DOMAIN actual : ~xfrmPolicyMatches(actual[j], expected[i])}

\* Mutant: a policy that matches will do.
PolicyUpdatesNone(actual, expected) == {}

\* Pairs <<i, j>>: the expected policy at i differs from the one it matches at j.
PolicyUpdates(actual, expected) ==
    {p \in (DOMAIN expected) \X (DOMAIN actual) :
        /\ xfrmPolicyMatches(actual[p[2]], expected[p[1]])
        /\ actual[p[2]] # expected[p[1]]}

\* Positions of the policies that no expected one matches.
PolicyRemove(actual, expected) ==
    {j \in DOMAIN actual :
        \A i \in DOMAIN expected : ~xfrmPolicyMatches(actual[j], expected[i])}

=============================================================================
