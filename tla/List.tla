-------------------------------- MODULE List --------------------------------
(***************************************************************************)
(* The intrusive list, list.cpp: a ring of nodes through a root, each with  *)
(* a next and a prev.  An operation is the sequence of its assignments, in  *)
(* the order of the code: what a pointer holds when it is read counts.      *)
(***************************************************************************)
EXTENDS Integers, Sequences

CONSTANTS
    Nodes,          \* the list members of whatever is listed
    Root            \* the head of the list, itself a list

Ends == Nodes \cup {Root}

(* R is a memory: [next |-> ..., prev |-> ...] over Ends. *)
SetNext(R, x, y) == [R EXCEPT !.next[x] = y]
SetPrev(R, x, y) == [R EXCEPT !.prev[x] = y]

(* list::list: a list in no ring. *)
Raw == [next |-> [x \in Ends |-> "null"], prev |-> [x \in Ends |-> "null"]]

init_head(R) == SetPrev(SetNext(R, Root, Root), Root, Root)

empty(R) == R.next[Root] = Root
singular(R) == ~empty(R) /\ R.next[Root] = R.prev[Root]

push(R, elt) ==
    LET r1 == SetNext(R, elt, R.next[Root])
        r2 == SetPrev(r1, elt, Root)
        r3 == SetPrev(r2, r2.next[Root], elt)
    IN  SetNext(r3, Root, elt)

push_back(R, elt) ==
    LET r1 == SetNext(R, elt, Root)
        r2 == SetPrev(r1, elt, r1.prev[Root])
        r3 == SetNext(r2, r2.prev[Root], elt)
    IN  SetPrev(r3, Root, elt)

del(R, elt) ==
    LET r1 == SetNext(R, R.prev[elt], R.next[elt])
    IN  SetPrev(r1, r1.next[elt], r1.prev[elt])

(* Mutant of turn: first->next is set before it is read. *)
turnEarly(R, first) ==
    LET r1 == SetPrev(R, R.next[first], Root)
        r2 == SetNext(r1, r1.prev[Root], first)
        r3 == SetNext(r2, first, Root)
        r4 == SetNext(r3, Root, r3.next[first])
        r5 == SetPrev(r4, first, r4.prev[Root])
    IN  SetPrev(r5, Root, first)

(* What rotate does to a list of two nodes or more. *)
turn(R, first) ==
    LET r1 == SetPrev(R, R.next[first], Root)
        r2 == SetNext(r1, r1.prev[Root], first)
        r3 == SetNext(r2, Root, r2.next[first])
        r4 == SetNext(r3, first, Root)
        r5 == SetPrev(r4, first, r4.prev[Root])
    IN  SetPrev(r5, Root, first)

rotate(R) == IF empty(R) \/ singular(R) THEN R ELSE turn(R, R.next[Root])

(* kill_task's LIST_FOREACH_ENTRY after k turns: where it stands, and the
   memory.  The node of t is unlinked and freed, and then its next is read:
   the heap's free list writes only the first word of a block, the id. *)
Walk(R, t, turns) ==
    LET at[k \in 0..turns] ==
            IF k = 0 THEN [it |-> R.next[Root], ring |-> R]
            ELSE LET it   == at[k - 1].it
                     ring == IF it = t THEN del(at[k - 1].ring, t) ELSE at[k - 1].ring
                 IN  IF it = Root THEN at[k - 1] ELSE [it |-> ring.next[it], ring |-> ring]
    IN  at

(* In memory R the list is this sequence of nodes, both ways round. *)
Represents(R, nodes) ==
    LET cycle    == <<Root>> \o nodes
        After(k) == cycle[(k % Len(cycle)) + 1]
    IN  \A k \in DOMAIN cycle : R.next[cycle[k]] = After(k) /\ R.prev[After(k)] = cycle[k]

(* A list of these nodes: the first is pushed, as scheduler::init does with
   the kernel task, the others are pushed back, as new_task does. *)
Listed(R, k, elt) == IF k = 1 THEN push(R, elt) ELSE push_back(R, elt)
Built(nodes) ==
    LET ring[k \in 0..Len(nodes)] ==
            IF k = 0 THEN init_head(Raw) ELSE Listed(ring[k - 1], k, nodes[k])
    IN  ring[Len(nodes)]
=============================================================================
