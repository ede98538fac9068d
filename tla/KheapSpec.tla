----------------------------- MODULE KheapSpec ------------------------------
(***************************************************************************)
(* What the kernel heap promises its callers: whoever asks for some pages   *)
(* gets a run of at least so many that nobody else has, until it gives it   *)
(* back.  Nothing is said of orders, buddies or of how the heap grows.      *)
(***************************************************************************)
EXTENDS Naturals, FiniteSets

CONSTANT Sizes      \* what may be asked for

VARIABLES
    regions,        \* the runs of pages that callers have
    request         \* the sizes asked for and not yet given: none or one

vars == <<regions, request>>

Init == /\ \A r, s \in regions : r # s => r \cap s = {}
        /\ request = {}

Ask(n) == /\ request = {}
          /\ request' = {n}
          /\ UNCHANGED regions

(* What is given is a run of pages, none of which is somebody else's. *)
Give(n) == /\ request = {n}
           /\ \E r \in regions' :
                 /\ regions' = regions \cup {r}
                 /\ \A s \in regions : r \cap s = {}
                 /\ Cardinality(r) >= n
                 /\ \A p, q \in r : p..q \subseteq r
           /\ request' = {}

TakeBack(r) == /\ request = {}
               /\ regions' = regions \ {r}
               /\ UNCHANGED request

Next == \/ \E n \in Sizes : Ask(n) \/ Give(n)
        \/ \E r \in regions : TakeBack(r)

Spec == Init /\ [][Next]_vars
=============================================================================
