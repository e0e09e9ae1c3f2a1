------------------------------ MODULE NodeSync ------------------------------
(***************************************************************************)
(* What the node map and the node controller owe to a provider, without    *)
(* the mechanism: every snapshot a provider takes is the view of a whole   *)
(* collection of Node objects that the API server really held, at one      *)
(* resource version; there is none before the first list; and as long as   *)
(* the agent runs, the version a snapshot is of never goes back.           *)
(***************************************************************************)
EXTENDS Integers, Sequences

CONSTANTS View(_), Nil

VARIABLES
    hist,     \* the collections the API server has held
    pos,      \* the resource version the agent has reached, 0 for none
    snapshot  \* the nodes a provider works with, or Nil

syncVars == <<hist, pos, snapshot>>

Init == Len(hist) = 1 /\ pos = 0 /\ snapshot = Nil

\* A write at the API server: history only grows.
Write ==
    /\ Len(hist') = Len(hist) + 1
    /\ \A i \in 1 .. Len(hist) : hist'[i] = hist[i]
    /\ UNCHANGED <<pos, snapshot>>

Advance ==
    /\ pos' \in pos + 1 .. Len(hist)
    /\ UNCHANGED <<hist, snapshot>>

Observe ==
    /\ pos > 0
    /\ snapshot' = View(hist[pos].objs)
    /\ UNCHANGED <<hist, pos>>

Return == snapshot' = Nil /\ UNCHANGED <<hist, pos>>

Restart == pos' = 0 /\ snapshot' = Nil /\ UNCHANGED hist

Next == Write \/ Advance \/ Observe \/ Return \/ Restart

Spec == Init /\ [][Next]_syncVars

=============================================================================
