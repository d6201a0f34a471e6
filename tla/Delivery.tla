------------------------------ MODULE Delivery -------------------------------
(***************************************************************************)
(* What the log shipper promises its user, without saying how: a line that *)
(* was accepted stays pending until it has a fate, its fate is final, and  *)
(* nothing comes back once it is settled.                                  *)
(***************************************************************************)
CONSTANTS Line,
          MayDrop    \* whether a line may be given up

VARIABLES pending,   \* accepted lines the shipper is still responsible for
          delivered, \* lines the index has a document of
          dropped    \* lines that were given up

vars == <<pending, delivered, dropped>>

Init ==
    /\ pending = {}
    /\ delivered = {}
    /\ dropped = {}

(* A new line; one that was settled is never accepted again.               *)
Accept(l) ==
    /\ l \notin pending \cup delivered \cup dropped
    /\ pending' = pending \cup {l}
    /\ UNCHANGED <<delivered, dropped>>

(* Some pending lines are indexed; those and earlier ones may be settled.  *)
Deliver ==
    /\ \E S \in SUBSET pending : delivered' = delivered \cup S
    /\ \E S \in SUBSET (pending \cap delivered') : pending' = pending \ S
    /\ UNCHANGED dropped

(* Some lines are given up, others settled in the same bulk.               *)
DropSome ==
    /\ MayDrop
    /\ \E S \in SUBSET pending : delivered' = delivered \cup S
    /\ \E S \in SUBSET pending : dropped' = dropped \cup S
    /\ \E S \in SUBSET (pending \cap (delivered' \cup dropped')) :
          pending' = pending \ S

Next ==
    \/ \E l \in Line : Accept(l)
    \/ Deliver
    \/ DropSome

Spec == Init /\ [][Next]_vars
=============================================================================
