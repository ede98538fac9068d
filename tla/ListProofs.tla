----------------------------- MODULE ListProofs -----------------------------
(***************************************************************************)
(* What the operations of list.cpp do to any ring of any length, wherever   *)
(* its nodes lie.                                                           *)
(***************************************************************************)
EXTENDS List, SequenceTheorems, NaturalsInduction, WellFoundedInduction, TLAPS

Pointers == Ends \cup {"null"}
Memory == [next : [Ends -> Pointers], prev : [Ends -> Pointers]]

(* The nodes of S are linked both ways, each to nodes of S, and the root is one. *)
Ring(R, S) ==
    /\ S \subseteq Ends /\ Root \in S
    /\ \A x \in S :
          /\ R.next[x] \in S /\ R.prev[R.next[x]] = x
          /\ R.prev[x] \in S /\ R.next[R.prev[x]] = x

LEMMA SetNextIs ==
    ASSUME NEW R \in Memory, NEW x \in Ends, NEW y \in Ends
    PROVE  /\ SetNext(R, x, y) \in Memory
           /\ \A z \in Ends : /\ SetNext(R, x, y).next[z] = IF z = x THEN y ELSE R.next[z]
                              /\ SetNext(R, x, y).prev[z] = R.prev[z]
BY DEF SetNext, Memory, Pointers

LEMMA SetPrevIs ==
    ASSUME NEW R \in Memory, NEW x \in Ends, NEW y \in Ends
    PROVE  /\ SetPrev(R, x, y) \in Memory
           /\ \A z \in Ends : /\ SetPrev(R, x, y).prev[z] = IF z = x THEN y ELSE R.prev[z]
                              /\ SetPrev(R, x, y).next[z] = R.next[z]
BY DEF SetPrev, Memory, Pointers

(* Ring Q is ring R over S with elt at the end. *)
Ended(Q, R, S, elt) ==
    /\ Q \in Memory /\ Ring(Q, S \cup {elt}) /\ Q.next[elt] = Root
    /\ \A x \in S : Q.next[x] = IF R.next[x] = Root THEN elt ELSE R.next[x]

(* Ring Q is ring R over S without elt, which still knows what followed it. *)
Closed(Q, R, S, elt) ==
    /\ Q \in Memory /\ Ring(Q, S \ {elt})
    /\ \A x \in S \ {elt} : Q.next[x] = IF R.next[x] = elt THEN R.next[elt] ELSE R.next[x]
    /\ R.next[elt] # elt => Q.next[elt] = R.next[elt]

(* Ring Q is ring R over S with its first node behind the last. *)
Turned(Q, R, S) ==
    /\ Q \in Memory /\ Ring(Q, S)
    /\ \A x \in S : Q.next[x] = IF x = Root THEN R.next[R.next[Root]]
                                ELSE IF x = R.next[Root] THEN Root
                                ELSE IF x = R.prev[Root] THEN R.next[Root]
                                ELSE R.next[x]

(* new_task's push_back puts a node that is in no ring at the end. *)
THEOREM PushBackLinks ==
    ASSUME NEW R \in Memory, NEW S, Ring(R, S), NEW elt \in Nodes, elt \notin S
    PROVE  Ended(push_back(R, elt), R, S, elt)
<1> DEFINE last == R.prev[Root]
           r1 == SetNext(R, elt, Root)
           r2 == SetPrev(r1, elt, r1.prev[Root])
           r3 == SetNext(r2, r2.prev[Root], elt)
           r4 == SetPrev(r3, Root, elt)
<1>1. /\ Root \in S /\ Root \in Ends /\ elt \in Ends /\ elt # Root
      /\ S \subseteq Ends /\ last \in S /\ last \in Ends
  BY DEF Ring, Ends
<1>2. /\ r1 \in Memory
      /\ \A z \in Ends : r1.next[z] = (IF z = elt THEN Root ELSE R.next[z]) /\ r1.prev[z] = R.prev[z]
  BY <1>1, SetNextIs
<1>3. r1.prev[Root] = last
  BY <1>1, <1>2
<1> HIDE DEF r1, last
<1>4. /\ r2 \in Memory
      /\ \A z \in Ends : r2.prev[z] = (IF z = elt THEN last ELSE r1.prev[z]) /\ r2.next[z] = r1.next[z]
  BY <1>1, <1>2, <1>3, SetPrevIs
<1>5. r2.prev[Root] = last
  BY <1>1, <1>3, <1>4, <1>2
<1> HIDE DEF r2
<1>6. /\ r3 \in Memory
      /\ \A z \in Ends : r3.next[z] = (IF z = last THEN elt ELSE r2.next[z]) /\ r3.prev[z] = r2.prev[z]
  BY <1>1, <1>4, <1>5, SetNextIs
<1> HIDE DEF r3
<1>7. /\ r4 \in Memory
      /\ \A z \in Ends : r4.prev[z] = (IF z = Root THEN elt ELSE r3.prev[z]) /\ r4.next[z] = r3.next[z]
  BY <1>1, <1>6, SetPrevIs
<1> HIDE DEF r4
<1>8. \A z \in Ends :
          /\ r4.next[z] = IF z = last THEN elt ELSE IF z = elt THEN Root ELSE R.next[z]
          /\ r4.prev[z] = IF z = Root THEN elt ELSE IF z = elt THEN last ELSE R.prev[z]
  BY <1>2, <1>4, <1>6, <1>7
<1>9. r4.next[last] = elt /\ r4.prev[elt] = last /\ r4.next[elt] = Root /\ r4.prev[Root] = elt
  BY <1>1, <1>8
<1>10. ASSUME NEW x \in S, x # last
       PROVE  r4.next[x] \in S /\ r4.next[x] = R.next[x] /\ r4.prev[r4.next[x]] = x
  <2>1. r4.next[x] = R.next[x] /\ R.next[x] \in S /\ R.prev[R.next[x]] = x
    BY <1>1, <1>8, <1>10 DEF Ring
  <2>2. R.next[x] # Root
    BY <1>10, <2>1 DEF last
  <2> QED BY <1>1, <1>8, <2>1, <2>2
<1>11. ASSUME NEW x \in S, x # Root
       PROVE  r4.prev[x] \in S /\ r4.next[r4.prev[x]] = x
  <2>1. r4.prev[x] = R.prev[x] /\ R.prev[x] \in S /\ R.next[R.prev[x]] = x
    BY <1>1, <1>8, <1>11 DEF Ring
  <2>2. R.prev[x] # last
    BY <1>1, <1>11, <2>1 DEF last, Ring
  <2> QED BY <1>1, <1>8, <2>1, <2>2
<1>12. Ring(r4, S \cup {elt})
  <2>1. S \cup {elt} \subseteq Ends /\ Root \in S \cup {elt}
    BY <1>1
  <2>2. ASSUME NEW x \in S \cup {elt}
        PROVE  /\ r4.next[x] \in S \cup {elt} /\ r4.prev[r4.next[x]] = x
               /\ r4.prev[x] \in S \cup {elt} /\ r4.next[r4.prev[x]] = x
    <3>1. CASE x = elt
      BY <1>1, <1>9, <3>1
    <3>2. CASE x \in S
      <4>1. r4.next[x] \in S \cup {elt} /\ r4.prev[r4.next[x]] = x
        BY <1>9, <1>10, <3>2
      <4>2. r4.prev[x] \in S \cup {elt} /\ r4.next[r4.prev[x]] = x
        BY <1>9, <1>11, <3>2
      <4> QED BY <4>1, <4>2
    <3> QED BY <3>1, <3>2
  <2> QED BY <2>1, <2>2 DEF Ring
<1>13. ASSUME NEW x \in S PROVE r4.next[x] = IF R.next[x] = Root THEN elt ELSE R.next[x]
  <2>1. CASE x = last
    <3>1. R.next[x] = Root
      BY <1>1, <2>1 DEF Ring, last
    <3> QED BY <1>9, <2>1, <3>1
  <2>2. CASE x # last
    <3>1. R.next[x] # Root
      BY <2>2 DEF Ring, last
    <3> QED BY <1>10, <2>2, <3>1
  <2> QED BY <2>1, <2>2
<1>14. push_back(R, elt) = r4
  BY DEF push_back, r4, r3, r2, r1
<1>15. Ended(r4, R, S, elt)
  BY <1>7, <1>9, <1>12, <1>13 DEF Ended
<1> QED BY <1>14, <1>15

(* The del of task::kill takes a node out of its ring and closes the gap; what
   the node itself points to is left, and kill_task's walk goes on from there. *)
THEOREM DelUnlinks ==
    ASSUME NEW R \in Memory, NEW S, Ring(R, S), NEW elt \in S \ {Root}
    PROVE  Closed(del(R, elt), R, S, elt)
<1> DEFINE before == R.prev[elt]
           after == R.next[elt]
           r1 == SetNext(R, before, after)
           r2 == SetPrev(r1, after, before)
<1>1. /\ Root \in S /\ elt \in S /\ elt # Root /\ S \subseteq Ends
      /\ before \in S /\ after \in S /\ R.next[before] = elt /\ R.prev[after] = elt
      /\ before \in Ends /\ after \in Ends /\ elt \in Ends
  BY DEF Ring
<1>2. before = elt <=> after = elt
  BY <1>1 DEF Ring
<1>3. R.next[elt] = after /\ R.prev[elt] = before
  OBVIOUS
<1> HIDE DEF before, after
<1>4. /\ r1 \in Memory
      /\ \A z \in Ends : r1.next[z] = (IF z = before THEN after ELSE R.next[z]) /\ r1.prev[z] = R.prev[z]
  BY <1>1, SetNextIs
<1>5. r1.next[elt] = after /\ r1.prev[elt] = before
  BY <1>1, <1>2, <1>3, <1>4
<1>6. del(R, elt) = r2
  BY <1>3, <1>5 DEF del
<1> HIDE DEF r1
<1>7. /\ r2 \in Memory
      /\ \A z \in Ends : r2.prev[z] = (IF z = after THEN before ELSE r1.prev[z]) /\ r2.next[z] = r1.next[z]
  BY <1>1, <1>4, SetPrevIs
<1> HIDE DEF r2
<1>8. \A z \in Ends : /\ r2.next[z] = IF z = before THEN after ELSE R.next[z]
                      /\ r2.prev[z] = IF z = after THEN before ELSE R.prev[z]
  BY <1>4, <1>7
<1>9. ASSUME NEW x \in S \ {elt}
      PROVE  /\ r2.next[x] \in S \ {elt} /\ r2.prev[r2.next[x]] = x
             /\ r2.next[x] = IF R.next[x] = elt THEN after ELSE R.next[x]
  <2>1. x \in Ends /\ R.next[x] \in S /\ R.next[x] \in Ends /\ R.prev[R.next[x]] = x
    BY <1>1 DEF Ring
  <2>2. CASE x = before
    <3>1. after # elt
      BY <1>2, <2>2
    <3>2. r2.next[x] = after /\ r2.prev[after] = x
      BY <1>1, <1>8, <2>1, <2>2
    <3> QED BY <1>1, <2>2, <3>1, <3>2
  <2>3. CASE x # before
    <3>1. r2.next[x] = R.next[x]
      BY <1>8, <2>1, <2>3
    <3>2. R.next[x] # elt
      BY <1>3, <2>1, <2>3
    <3>3. R.next[x] # after
      BY <1>1, <2>1
    <3>4. r2.prev[R.next[x]] = x
      BY <1>8, <2>1, <3>3
    <3> QED BY <2>1, <3>1, <3>2, <3>4
  <2> QED BY <2>2, <2>3
<1>10. ASSUME NEW x \in S \ {elt}
       PROVE  r2.prev[x] \in S \ {elt} /\ r2.next[r2.prev[x]] = x
  <2>1. x \in Ends /\ R.prev[x] \in S /\ R.prev[x] \in Ends /\ R.next[R.prev[x]] = x
    BY <1>1 DEF Ring
  <2>2. CASE x = after
    <3>1. before # elt
      BY <1>2, <2>2
    <3>2. r2.prev[x] = before /\ r2.next[before] = x
      BY <1>1, <1>8, <2>1, <2>2
    <3> QED BY <1>1, <3>1, <3>2
  <2>3. CASE x # after
    <3>1. r2.prev[x] = R.prev[x]
      BY <1>8, <2>1, <2>3
    <3>2. R.prev[x] # elt
      BY <1>3, <2>1, <2>3
    <3>3. R.prev[x] # before
      BY <1>1, <2>1
    <3>4. r2.next[R.prev[x]] = x
      BY <1>8, <2>1, <3>3
    <3> QED BY <2>1, <3>1, <3>2, <3>4
  <2> QED BY <2>2, <2>3
<1>11. Ring(r2, S \ {elt})
  BY <1>1, <1>9, <1>10 DEF Ring
<1>12. after # elt => r2.next[elt] = after
  BY <1>1, <1>2, <1>3, <1>8
<1>13. Closed(r2, R, S, elt)
  BY <1>3, <1>7, <1>9, <1>11, <1>12 DEF Closed
<1> QED BY <1>6, <1>13

(* yield's rotate moves the first node behind the last one, in a list of two
   or more; a shorter list is left alone. *)
THEOREM RotateMovesFirst ==
    ASSUME NEW R \in Memory, NEW S, Ring(R, S), ~empty(R), ~singular(R)
    PROVE  Turned(rotate(R), R, S)
<1> DEFINE first == R.next[Root]
           second == R.next[first]
           last == R.prev[Root]
           r1 == SetPrev(R, second, Root)
           r2 == SetNext(r1, last, first)
           r3 == SetNext(r2, Root, second)
           r4 == SetNext(r3, first, Root)
           r5 == SetPrev(r4, first, last)
           r6 == SetPrev(r5, Root, first)
           after(x) == IF x = Root THEN second ELSE IF x = first THEN Root
                       ELSE IF x = last THEN first ELSE R.next[x]
<1>1. /\ Root \in S /\ first \in S /\ second \in S /\ last \in S /\ S \subseteq Ends
      /\ Root \in Ends /\ first \in Ends /\ second \in Ends /\ last \in Ends
  BY DEF Ring
<1>2. /\ R.next[Root] = first /\ R.next[first] = second /\ R.prev[Root] = last
      /\ R.next[last] = Root /\ R.prev[first] = Root /\ R.prev[second] = first
  BY <1>1 DEF Ring
<1>3. first # Root /\ first # last
  BY DEF empty, singular
<1>4. last # Root
  BY <1>2, <1>3
<1>5. second # Root /\ second # first
  BY <1>2, <1>3, <1>4
<1> HIDE DEF first, second, last
<1>6. /\ r1 \in Memory
      /\ \A z \in Ends : r1.prev[z] = (IF z = second THEN Root ELSE R.prev[z]) /\ r1.next[z] = R.next[z]
  BY <1>1, SetPrevIs
<1>7. r1.prev[Root] = last
  BY <1>1, <1>2, <1>5, <1>6
<1> HIDE DEF r1
<1>8. /\ r2 \in Memory
      /\ \A z \in Ends : r2.next[z] = (IF z = last THEN first ELSE r1.next[z]) /\ r2.prev[z] = r1.prev[z]
  BY <1>1, <1>6, SetNextIs
<1>9. r2.next[first] = second
  BY <1>1, <1>2, <1>3, <1>6, <1>8
<1> HIDE DEF r2
<1>10. /\ r3 \in Memory
       /\ \A z \in Ends : r3.next[z] = (IF z = Root THEN second ELSE r2.next[z]) /\ r3.prev[z] = r2.prev[z]
  BY <1>1, <1>8, SetNextIs
<1> HIDE DEF r3
<1>11. /\ r4 \in Memory
       /\ \A z \in Ends : r4.next[z] = (IF z = first THEN Root ELSE r3.next[z]) /\ r4.prev[z] = r3.prev[z]
  BY <1>1, <1>10, SetNextIs
<1>12. r4.prev[Root] = last
  BY <1>1, <1>7, <1>8, <1>10, <1>11
<1> HIDE DEF r4
<1>13. /\ r5 \in Memory
       /\ \A z \in Ends : r5.prev[z] = (IF z = first THEN last ELSE r4.prev[z]) /\ r5.next[z] = r4.next[z]
  BY <1>1, <1>11, SetPrevIs
<1> HIDE DEF r5
<1>14. /\ r6 \in Memory
       /\ \A z \in Ends : r6.prev[z] = (IF z = Root THEN first ELSE r5.prev[z]) /\ r6.next[z] = r5.next[z]
  BY <1>1, <1>13, SetPrevIs
<1> HIDE DEF r6
<1>15. \A z \in Ends :
          /\ r6.next[z] = IF z = first THEN Root ELSE IF z = Root THEN second
                          ELSE IF z = last THEN first ELSE R.next[z]
          /\ r6.prev[z] = IF z = Root THEN first ELSE IF z = first THEN last
                          ELSE IF z = second THEN Root ELSE R.prev[z]
  BY <1>6, <1>8, <1>10, <1>11, <1>13, <1>14
<1>16. turn(R, first) = r6
  BY <1>2, <1>7, <1>9, <1>12 DEF turn, r1, r2, r3, r4, r5, r6
<1>17. rotate(R) = r6
  BY <1>2, <1>16 DEF rotate
<1>18. /\ r6.next[first] = Root /\ r6.next[Root] = second /\ r6.next[last] = first
       /\ r6.prev[Root] = first /\ r6.prev[first] = last /\ r6.prev[second] = Root
  BY <1>1, <1>3, <1>4, <1>5, <1>15
<1>19. ASSUME NEW x \in S, x \notin {first, Root, last}
       PROVE  r6.next[x] \in S /\ r6.next[x] = R.next[x] /\ r6.prev[r6.next[x]] = x
  <2>1. x \in Ends /\ R.next[x] \in S /\ R.next[x] \in Ends /\ R.prev[R.next[x]] = x
    BY <1>1 DEF Ring
  <2>2. r6.next[x] = R.next[x]
    BY <1>15, <1>19, <2>1
  <2>3. R.next[x] \notin {Root, first, second}
    BY <1>2, <1>19, <2>1
  <2>4. r6.prev[R.next[x]] = x
    BY <1>15, <2>1, <2>3
  <2> QED BY <2>1, <2>2, <2>4
<1>20. ASSUME NEW x \in S, x \notin {Root, first, second}
       PROVE  r6.prev[x] \in S /\ r6.next[r6.prev[x]] = x
  <2>1. x \in Ends /\ R.prev[x] \in S /\ R.prev[x] \in Ends /\ R.next[R.prev[x]] = x
    BY <1>1 DEF Ring
  <2>2. r6.prev[x] = R.prev[x]
    BY <1>15, <1>20, <2>1
  <2>3. R.prev[x] \notin {first, Root, last}
    BY <1>2, <1>20, <2>1
  <2>4. r6.next[R.prev[x]] = x
    BY <1>15, <2>1, <2>3
  <2> QED BY <2>1, <2>2, <2>4
<1>21. \A x \in S : r6.next[x] \in S /\ r6.prev[r6.next[x]] = x
  BY <1>1, <1>18, <1>19
<1>22. \A x \in S : r6.prev[x] \in S /\ r6.next[r6.prev[x]] = x
  BY <1>1, <1>18, <1>20
<1>23. Ring(r6, S)
  BY <1>1, <1>21, <1>22 DEF Ring
<1>24. \A x \in S : r6.next[x] = after(x)
  BY <1>1, <1>15, <1>3
<1>25. Turned(r6, R, S)
  BY <1>14, <1>23, <1>24 DEF Turned, first, second, last
<1> QED BY <1>17, <1>25

LEMMA LeastNatural ==
    ASSUME NEW S \in SUBSET Nat, S # {}
    PROVE  \E f \in S : \A g \in S : f <= g
<1> DEFINE Less == OpToRel(<, Nat)
<1>1. IsWellFoundedOn(Less, Nat)
  BY NatLessThanWellFounded
<1>2. \A x, y \in Nat : <<y, x>> \in Less <=> y < x
  BY DEF OpToRel
<1> HIDE DEF Less
<1>3. PICK f \in S : \A g \in S : ~(<<g, f>> \in Less)
  BY <1>1, WFMin
<1>4. ASSUME NEW g \in S PROVE f <= g
  <2>1. f \in Nat /\ g \in Nat /\ ~(g < f)
    BY <1>2, <1>3
  <2> QED
    BY <2>1
<1> QED
  BY <1>4

LEMMA Induction ==
    ASSUME NEW S, 0 \in S, \A n \in Nat : n \in S => n + 1 \in S
    PROVE  Nat \subseteq S
<1> SUFFICES ASSUME Nat \ S # {} PROVE FALSE
  OBVIOUS
<1>1. PICK f \in Nat \ S : \A g \in Nat \ S : f <= g
  BY LeastNatural
<1>2. f - 1 \in Nat /\ f - 1 + 1 = f
  BY <1>1
<1> QED
  BY <1>1, <1>2

(* Some function has z at 0 and makes each of its values from the last. *)
Recursive(V, n, z, s) ==
    \E g \in [0..n -> V] : g[0] = z /\ \A k \in 1..n : g[k] = s[<<k, g[k - 1]>>]

LEMMA Recursion ==
    ASSUME NEW V, NEW n \in Nat, NEW z \in V, NEW s \in [(1..n) \X V -> V]
    PROVE  Recursive(V, n, z, s)
<1> DEFINE Reaches(m) == Recursive(V, m, z, s)
           S == {m \in Nat : m <= n => Reaches(m)}
<1>1. 0 \in S
  <2> DEFINE g == [k \in 0..0 |-> z]
  <2>1. g \in [0..0 -> V] /\ g[0] = z
    OBVIOUS
  <2> HIDE DEF g
  <2>2. Reaches(0)
    BY <2>1 DEF Recursive
  <2> QED
    BY <2>2
<1>2. ASSUME NEW m \in Nat, m \in S PROVE m + 1 \in S
  <2> SUFFICES ASSUME m + 1 <= n PROVE Reaches(m + 1)
    OBVIOUS
  <2>1. PICK g \in [0..m -> V] : g[0] = z /\ \A k \in 1..m : g[k] = s[<<k, g[k - 1]>>]
    BY <1>2 DEF Recursive
  <2> DEFINE h == [k \in 0..(m + 1) |-> IF k = m + 1 THEN s[<<m + 1, g[m]>>] ELSE g[k]]
  <2>2. h \in [0..(m + 1) -> V]
    <3>1. <<m + 1, g[m]>> \in (1..n) \X V
      BY <2>1
    <3> QED
      BY <2>1, <3>1
  <2>3. \A k \in 0..m : h[k] = g[k]
    OBVIOUS
  <2>4. h[m + 1] = s[<<m + 1, g[m]>>]
    OBVIOUS
  <2> HIDE DEF h
  <2>5. h[m + 1] = s[<<m + 1, h[m]>>] /\ h[0] = z
    BY <2>1, <2>3, <2>4
  <2>6. \A k \in 1..(m + 1) : h[k] = s[<<k, h[k - 1]>>]
    <3> TAKE k \in 1..(m + 1)
    <3>1. CASE k = m + 1
      BY <2>5, <3>1
    <3>2. CASE k \in 1..m
      <4>1. h[k] = g[k] /\ h[k - 1] = g[k - 1]
        BY <2>3, <3>2
      <4> QED
        BY <2>1, <3>2, <4>1
    <3> QED
      BY <3>1, <3>2
  <2> QED
    BY <2>2, <2>5, <2>6 DEF Recursive
<1> HIDE DEF S
<1>3. Nat \subseteq S
  BY <1>1, <1>2, Induction
<1> QED
  BY <1>3 DEF S


(* What follows the k-th node of these, and what follows the root. *)
Following(nodes, k) == IF k = Len(nodes) THEN Root ELSE nodes[k + 1]

(* Memory R holds a ring of the root and these nodes, in this order. *)
Linked(R, nodes) ==
    /\ R \in Memory /\ Ring(R, {Root} \cup Range(nodes))
    /\ R.next[Root] = Following(nodes, 0)
    /\ \A k \in 1..Len(nodes) : R.next[nodes[k]] = Following(nodes, k)

Apart(nodes) == \A j, k \in 1..Len(nodes) : nodes[j] = nodes[k] => j = k

LEMMA RangeIs ==
    ASSUME NEW S, NEW s \in Seq(S)
    PROVE  \A x : x \in Range(s) <=> \E k \in 1..Len(s) : x = s[k]
BY DEF Range

LEMMA Around == ASSUME NEW n \in Nat, NEW k \in 1..n PROVE k % (n + 1) = k /\ (n + 1) % (n + 1) = 0
OBVIOUS

LEMMA LinkedRepresents ==
    ASSUME NEW nodes \in Seq(Nodes), NEW R, Linked(R, nodes)
    PROVE  Represents(R, nodes)
<1> DEFINE cycle == <<Root>> \o nodes
           n == Len(nodes)
           After(k) == cycle[(k % Len(cycle)) + 1]
<1>1. n \in Nat /\ \A k \in 1..n : nodes[k] \in Ends
  BY DEF Ends
<1>2. <<Root>> \in Seq(Ends) /\ nodes \in Seq(Ends) /\ Len(<<Root>>) = 1 /\ <<Root>>[1] = Root
  BY <1>1 DEF Ends
<1>3. /\ Len(cycle) = n + 1 /\ DOMAIN cycle = 1..(n + 1)
      /\ \A k \in 1..(n + 1) : cycle[k] = IF k = 1 THEN Root ELSE nodes[k - 1]
  BY <1>1, <1>2, ConcatProperties
<1> HIDE DEF cycle
<1>4. \A k \in 1..n : cycle[k + 1] = nodes[k]
  BY <1>1, <1>3
<1>5. ASSUME NEW k \in 1..(n + 1) PROVE After(k) = Following(nodes, k - 1) /\ R.next[cycle[k]] = After(k)
  <2>1. CASE k = n + 1
    <3>1. k % Len(cycle) = 0
      BY <1>1, <1>3, <2>1
    <3>2. After(k) = Root
      BY <1>1, <1>3, <3>1
    <3>3. Following(nodes, k - 1) = Root
      BY <1>1, <2>1 DEF Following
    <3>4. R.next[cycle[k]] = Following(nodes, k - 1)
      BY <1>1, <1>3, <2>1 DEF Linked
    <3> QED BY <3>2, <3>3, <3>4
  <2>2. CASE k \in 1..n
    <3>1. k % Len(cycle) = k
      <4>1. k % (n + 1) = k /\ Len(cycle) = n + 1
        BY <1>1, <1>3, <2>2, Around
      <4> QED BY <4>1
    <3>2. After(k) = nodes[k]
      BY <1>1, <1>4, <2>2, <3>1
    <3>3. Following(nodes, k - 1) = nodes[k]
      BY <1>1, <2>2 DEF Following
    <3>4. R.next[cycle[k]] = Following(nodes, k - 1)
      <4>1. CASE k = 1
        BY <1>3, <2>2, <4>1 DEF Linked
      <4>2. CASE k - 1 \in 1..n
        BY <1>3, <2>2, <4>2 DEF Linked
      <4> QED BY <2>2, <4>1, <4>2
    <3> QED BY <3>2, <3>3, <3>4
  <2> QED BY <1>1, <2>1, <2>2
<1>6. ASSUME NEW k \in 1..(n + 1) PROVE R.prev[After(k)] = cycle[k]
  <2>1. cycle[k] \in {Root} \cup Range(nodes)
    <3>1. CASE k = 1
      BY <1>3, <3>1
    <3>2. CASE k - 1 \in 1..n
      BY <1>3, <3>2, RangeIs
    <3> QED BY <1>1, <3>1, <3>2
  <2>2. R.prev[R.next[cycle[k]]] = cycle[k]
    BY <2>1 DEF Linked, Ring
  <2> QED BY <1>5, <2>2
<1>7. \A k \in DOMAIN cycle : R.next[cycle[k]] = After(k) /\ R.prev[After(k)] = cycle[k]
  BY <1>3, <1>5, <1>6
<1> QED BY <1>7, Zenon DEF Represents, cycle

LEMMA PushBackLinked ==
    ASSUME Root \notin Nodes, NEW nodes \in Seq(Nodes), NEW R, Linked(R, nodes),
           NEW elt \in Nodes, elt \notin Range(nodes)
    PROVE  Linked(push_back(R, elt), Append(nodes, elt))
<1> DEFINE n == Len(nodes)
           S == {Root} \cup Range(nodes)
           more == Append(nodes, elt)
           Q == push_back(R, elt)
<1>1. n \in Nat /\ \A k \in 1..n : nodes[k] \in Nodes /\ nodes[k] # Root /\ nodes[k] \in S
  BY RangeIs
<1>2. /\ more \in Seq(Nodes) /\ Len(more) = n + 1 /\ more[n + 1] = elt
      /\ \A k \in 1..n : more[k] = nodes[k]
  BY <1>1
<1>3. R \in Memory /\ Ring(R, S) /\ elt \notin S /\ Root \in S
  BY DEF Linked
<1>4. /\ Q \in Memory /\ Ring(Q, S \cup {elt}) /\ Q.next[elt] = Root
      /\ \A x \in S : Q.next[x] = IF R.next[x] = Root THEN elt ELSE R.next[x]
  <2> HIDE DEF S
  <2> HIDE DEF Q
  <2>1. Ended(push_back(R, elt), R, S, elt)
    BY <1>3, PushBackLinks
  <2> QED BY <2>1 DEF Ended, Q
<1>5. S \cup {elt} = {Root} \cup Range(more)
  <2>1. \A x : x \in Range(more) <=> \E k \in 1..(n + 1) : x = more[k]
    <3>1. more \in Seq(Nodes) /\ Len(more) = n + 1
      BY <1>2
    <3> HIDE DEF more, n
    <3> QED BY <3>1, RangeIs
  <2>2. \A x : x \in Range(nodes) <=> \E k \in 1..n : x = nodes[k]
    BY RangeIs
  <2>3. \A x : x \in Range(more) <=> x \in Range(nodes) \/ x = elt
    BY <1>1, <1>2, <2>1, <2>2
  <2> QED BY <2>3
<1> HIDE DEF more, Q, S
<1>6. Q.next[Root] = Following(more, 0)
  <2>1. CASE n = 0
    BY <1>2, <1>3, <1>4, <2>1 DEF Linked, Following
  <2>2. CASE n # 0
    <3>1. R.next[Root] = nodes[1] /\ 1 \in 1..n
      BY <1>1, <2>2 DEF Linked, Following
    <3>2. Following(more, 0) = nodes[1]
      BY <1>1, <1>2, <2>2 DEF Following
    <3> QED BY <1>1, <1>3, <1>4, <3>1, <3>2
  <2> QED BY <2>1, <2>2
<1>7. ASSUME NEW k \in 1..(n + 1) PROVE Q.next[more[k]] = Following(more, k)
  <2>1. CASE k = n + 1
    BY <1>2, <1>4, <2>1 DEF Following
  <2>2. CASE k \in 1..n
    <3>1. more[k] = nodes[k] /\ nodes[k] \in S /\ R.next[nodes[k]] = Following(nodes, k)
      BY <1>1, <1>2, <2>2 DEF Linked
    <3>2. CASE k = n
      <4>1. R.next[nodes[k]] = Root /\ Following(more, k) = elt
        BY <1>1, <1>2, <3>1, <3>2 DEF Following
      <4> QED BY <1>4, <3>1, <4>1
    <3>3. CASE k # n
      <4>1. R.next[nodes[k]] = nodes[k + 1] /\ k + 1 \in 1..n
        BY <1>1, <2>2, <3>1, <3>3 DEF Following
      <4>2. Following(more, k) = nodes[k + 1]
        BY <1>1, <1>2, <2>2, <3>3, <4>1 DEF Following
      <4> QED BY <1>1, <1>4, <3>1, <4>1, <4>2
    <3> QED BY <3>2, <3>3
  <2> QED BY <1>1, <2>1, <2>2
<1>8. Linked(Q, more)
  BY <1>2, <1>4, <1>5, <1>6, <1>7 DEF Linked
<1> QED BY <1>8 DEF Q, more

LEMMA NoneLinked == init_head(Raw) \in Memory /\ Linked(init_head(Raw), <<>>)
<1> DEFINE r1 == SetNext(Raw, Root, Root)
           r2 == SetPrev(r1, Root, Root)
<1>1. Raw \in Memory /\ Root \in Ends
  BY DEF Raw, Memory, Pointers, Ends
<1>2. r1 \in Memory /\ \A z \in Ends : r1.next[z] = IF z = Root THEN Root ELSE Raw.next[z]
  BY <1>1, SetNextIs
<1> HIDE DEF r1
<1>3. r2 \in Memory /\ \A z \in Ends : /\ r2.prev[z] = IF z = Root THEN Root ELSE r1.prev[z]
                                       /\ r2.next[z] = r1.next[z]
  BY <1>1, <1>2, SetPrevIs
<1> HIDE DEF r2
<1>4. r2.next[Root] = Root /\ r2.prev[Root] = Root
  BY <1>1, <1>2, <1>3
<1>5. init_head(Raw) = r2
  BY DEF init_head, r2, r1
<1>6. Len(<<>>) = 0 /\ <<>> \in Seq(Nodes)
  BY EmptySeq
<1>7. Range(<<>>) = {}
  BY DEF Range
<1>8. Ring(r2, {Root} \cup Range(<<>>))
  BY <1>1, <1>4, <1>7 DEF Ring
<1>9. Linked(r2, <<>>)
  BY <1>3, <1>4, <1>6, <1>8 DEF Linked, Following
<1> QED BY <1>3, <1>5, <1>9

(* The first push, on an empty list, is a push_back. *)
LEMMA PushLinked ==
    ASSUME Root \notin Nodes, NEW R, Linked(R, <<>>), NEW elt \in Nodes
    PROVE  Linked(push(R, elt), <<elt>>)
<1> DEFINE r1 == SetNext(R, elt, R.next[Root])
           r2 == SetPrev(r1, elt, Root)
           r3 == SetPrev(r2, r2.next[Root], elt)
           r4 == SetNext(r3, Root, elt)
<1>1. Len(<<>>) = 0 /\ <<>> \in Seq(Nodes) /\ Root \in Ends /\ elt \in Ends /\ elt # Root
  BY EmptySeq DEF Ends
<1>2. R \in Memory /\ R.next[Root] = Root
  BY <1>1 DEF Linked, Following
<1>3. r1 \in Memory /\ \A z \in Ends : /\ r1.next[z] = IF z = elt THEN Root ELSE R.next[z]
                                       /\ r1.prev[z] = R.prev[z]
  BY <1>1, <1>2, SetNextIs
<1> HIDE DEF r1
<1>4. r2 \in Memory /\ \A z \in Ends : /\ r2.prev[z] = IF z = elt THEN Root ELSE r1.prev[z]
                                       /\ r2.next[z] = r1.next[z]
  BY <1>1, <1>3, SetPrevIs
<1>5. r2.next[Root] = Root
  BY <1>1, <1>2, <1>3, <1>4
<1> HIDE DEF r2
<1>6. r3 \in Memory /\ \A z \in Ends : /\ r3.prev[z] = IF z = Root THEN elt ELSE r2.prev[z]
                                       /\ r3.next[z] = r2.next[z]
  BY <1>1, <1>4, <1>5, SetPrevIs
<1> HIDE DEF r3
<1>7. r4 \in Memory /\ \A z \in Ends : /\ r4.next[z] = IF z = Root THEN elt ELSE r3.next[z]
                                       /\ r4.prev[z] = r3.prev[z]
  BY <1>1, <1>6, SetNextIs
<1> HIDE DEF r4
<1>8. r4.next[Root] = elt /\ r4.next[elt] = Root /\ r4.prev[Root] = elt /\ r4.prev[elt] = Root
  BY <1>1, <1>3, <1>4, <1>6, <1>7
<1>9. push(R, elt) = r4
  BY DEF push, r4, r3, r2, r1
<1>10. <<elt>> \in Seq(Nodes) /\ Len(<<elt>>) = 1 /\ <<elt>>[1] = elt
  OBVIOUS
<1>11. Range(<<elt>>) = {elt}
  BY DEF Range
<1>12. Ring(r4, {Root} \cup Range(<<elt>>))
  BY <1>1, <1>8, <1>11 DEF Ring
<1>13. Linked(r4, <<elt>>)
  BY <1>7, <1>8, <1>10, <1>12 DEF Linked, Following
<1> QED BY <1>9, <1>13

LEMMA PushMemory ==
    ASSUME NEW R \in Memory, NEW elt \in Nodes
    PROVE  push(R, elt) \in Memory /\ push_back(R, elt) \in Memory
<1>1. ASSUME NEW Q \in Memory, NEW x, NEW y \in Pointers
      PROVE  SetNext(Q, x, y) \in Memory /\ SetPrev(Q, x, y) \in Memory
  BY DEF SetNext, SetPrev, Memory
<1>2. elt \in Pointers /\ Root \in Pointers /\ Root \in Ends
  BY DEF Pointers, Ends
<1>3. ASSUME NEW Q \in Memory PROVE Q.next[Root] \in Pointers /\ Q.prev[Root] \in Pointers
  BY <1>2 DEF Memory
<1>4. push(R, elt) \in Memory
  <2> DEFINE r1 == SetNext(R, elt, R.next[Root])
             r2 == SetPrev(r1, elt, Root)
             r3 == SetPrev(r2, r2.next[Root], elt)
  <2>1. r1 \in Memory
    BY <1>1, <1>3
  <2>2. r2 \in Memory
    BY <1>1, <1>2, <2>1
  <2>3. r3 \in Memory
    BY <1>1, <1>2, <2>2
  <2> HIDE DEF r3
  <2>4. SetNext(r3, Root, elt) \in Memory
    BY <1>1, <1>2, <2>3
  <2> QED BY <2>4 DEF push, r3
<1>5. push_back(R, elt) \in Memory
  <2> DEFINE r1 == SetNext(R, elt, Root)
             r2 == SetPrev(r1, elt, r1.prev[Root])
             r3 == SetNext(r2, r2.prev[Root], elt)
  <2>1. r1 \in Memory
    BY <1>1, <1>2
  <2>2. r2 \in Memory
    BY <1>1, <1>3, <2>1
  <2>3. r3 \in Memory
    BY <1>1, <1>2, <2>2
  <2> HIDE DEF r3
  <2>4. SetPrev(r3, Root, elt) \in Memory
    BY <1>1, <1>2, <2>3
  <2> QED BY <2>4 DEF push_back, r3
<1> QED BY <1>4, <1>5

(* f holds the rings that Built makes one after the other. *)
Builds(f, nodes) ==
    f = [k \in 0..Len(nodes) |-> IF k = 0 THEN init_head(Raw) ELSE Listed(f[k - 1], k, nodes[k])]

LEMMA BuiltIs ==
    ASSUME NEW nodes \in Seq(Nodes)
    PROVE  \E f : Builds(f, nodes) /\ Built(nodes) = f[Len(nodes)]
<1> DEFINE s == [p \in (1..Len(nodes)) \X Memory |-> Listed(p[2], p[1], nodes[p[1]])]
           f == CHOOSE h : Builds(h, nodes)
<1>1. Len(nodes) \in Nat /\ \A k \in 1..Len(nodes) : nodes[k] \in Nodes
  OBVIOUS
<1>2. init_head(Raw) \in Memory
  BY NoneLinked
<1>3. ASSUME NEW R \in Memory, NEW k, NEW elt \in Nodes PROVE Listed(R, k, elt) \in Memory
  BY PushMemory DEF Listed
<1>4. s \in [(1..Len(nodes)) \X Memory -> Memory]
  BY <1>1, <1>3
<1>5. \A k \in 1..Len(nodes), R \in Memory : s[<<k, R>>] = Listed(R, k, nodes[k])
  OBVIOUS
<1> HIDE DEF s
<1>6. Recursive(Memory, Len(nodes), init_head(Raw), s)
  BY <1>1, <1>2, <1>4, Recursion
<1>7. PICK g \in [0..Len(nodes) -> Memory] :
          g[0] = init_head(Raw) /\ \A k \in 1..Len(nodes) : g[k] = s[<<k, g[k - 1]>>]
  BY <1>6 DEF Recursive
<1>8. \A k \in 1..Len(nodes) : g[k] = Listed(g[k - 1], k, nodes[k])
  <2> TAKE k \in 1..Len(nodes)
  <2>1. k - 1 \in 0..Len(nodes)
    BY <1>1
  <2>2. g[k - 1] \in Memory
    BY <1>7, <2>1
  <2> QED BY <1>5, <1>7, <2>2
<1>9. g = [k \in 0..Len(nodes) |-> IF k = 0 THEN init_head(Raw) ELSE Listed(g[k - 1], k, nodes[k])]
  BY <1>7, <1>8
<1>10. Builds(g, nodes)
  BY <1>9, Zenon DEF Builds
<1>11. Builds(f, nodes)
  BY <1>10
<1>12. Built(nodes) = f[Len(nodes)]
  BY Zenon DEF Built, Builds
<1> QED BY <1>11, <1>12

(* The first so many of these nodes. *)
Firsts(nodes, k) == SubSeq(nodes, 1, k)

LEMMA FirstsAre ==
    ASSUME NEW nodes \in Seq(Nodes), NEW k \in 0..Len(nodes)
    PROVE  /\ Firsts(nodes, k) \in Seq(Nodes) /\ Len(Firsts(nodes, k)) = k
           /\ \A j \in 1..k : Firsts(nodes, k)[j] = nodes[j]
<1>1. \A j \in 1..k : nodes[j] \in Nodes
  OBVIOUS
<1> QED BY <1>1, SubSeqProperties DEF Firsts

LEMMA FirstsMore ==
    ASSUME NEW nodes \in Seq(Nodes), NEW k \in 0..Len(nodes), k + 1 <= Len(nodes)
    PROVE  Firsts(nodes, k + 1) = Append(Firsts(nodes, k), nodes[k + 1])
<1> DEFINE p == Firsts(nodes, k)
           q == Firsts(nodes, k + 1)
           r == Append(p, nodes[k + 1])
<1>1. k \in Nat /\ Len(nodes) \in Nat /\ k + 1 \in 0..Len(nodes) /\ nodes[k + 1] \in Nodes
  OBVIOUS
<1>2. p \in Seq(Nodes) /\ Len(p) = k /\ \A j \in 1..k : p[j] = nodes[j]
  BY FirstsAre
<1>3. q \in Seq(Nodes) /\ Len(q) = k + 1 /\ \A j \in 1..(k + 1) : q[j] = nodes[j]
  BY <1>1, FirstsAre
<1> HIDE DEF p, q
<1>4. r \in Seq(Nodes) /\ Len(r) = k + 1 /\ r[k + 1] = nodes[k + 1] /\ \A j \in 1..k : r[j] = p[j]
  BY <1>1, <1>2
<1> HIDE DEF r
<1>5. \A j \in 1..(k + 1) : q[j] = r[j]
  BY <1>1, <1>2, <1>3, <1>4
<1>6. q = r
  BY <1>3, <1>4, <1>5, SeqEqual
<1> QED BY <1>6 DEF p, q, r

LEMMA BuiltLinked ==
    ASSUME Root \notin Nodes, NEW nodes \in Seq(Nodes), Apart(nodes)
    PROVE  Linked(Built(nodes), nodes)
<1> DEFINE n == Len(nodes)
<1>1. n \in Nat /\ \A k \in 1..n : nodes[k] \in Nodes
  OBVIOUS
<1>2. PICK f : Builds(f, nodes) /\ Built(nodes) = f[n]
  BY BuiltIs
<1>3. f[0] = init_head(Raw) /\ \A k \in 1..n : f[k] = Listed(f[k - 1], k, nodes[k])
  BY <1>1, <1>2 DEF Builds
<1> DEFINE S == {k \in Nat : k <= n => Linked(f[k], Firsts(nodes, k))}
<1>4. 0 \in S
  <2>1. Firsts(nodes, 0) \in Seq(Nodes) /\ Len(Firsts(nodes, 0)) = 0
    BY <1>1, FirstsAre
  <2>2. Firsts(nodes, 0) = <<>>
    BY <2>1, EmptySeq
  <2> QED BY <1>3, <2>2, NoneLinked
<1>5. ASSUME NEW k \in Nat, k \in S PROVE k + 1 \in S
  <2> SUFFICES ASSUME k + 1 <= n PROVE Linked(f[k + 1], Firsts(nodes, k + 1))
    OBVIOUS
  <2> DEFINE p == Firsts(nodes, k)
             elt == nodes[k + 1]
  <2>1. k \in 0..n /\ k + 1 \in 1..n /\ k + 1 - 1 = k /\ elt \in Nodes
    BY <1>1
  <2>2. p \in Seq(Nodes) /\ Len(p) = k /\ \A j \in 1..k : p[j] = nodes[j]
    BY <2>1, FirstsAre
  <2>3. Linked(f[k], p) /\ Firsts(nodes, k + 1) = Append(p, elt)
    BY <1>5, <2>1, FirstsMore
  <2>4. f[k + 1] = Listed(f[k], k + 1, elt)
    BY <1>3, <2>1
  <2> HIDE DEF p, elt
  <2>5. CASE k = 0
    <3>1. p = <<>>
      BY <2>2, <2>5, EmptySeq
    <3>2. f[k + 1] = push(f[k], elt)
      BY <2>4, <2>5 DEF Listed
    <3>3. Append(p, elt) = <<elt>>
      BY <3>1
    <3> QED BY <2>1, <2>3, <3>1, <3>2, <3>3, PushLinked
  <2>6. CASE k # 0
    <3>1. f[k + 1] = push_back(f[k], elt)
      BY <2>1, <2>4, <2>6 DEF Listed
    <3>2. elt \notin Range(p)
      <4>1. \A x : x \in Range(p) <=> \E j \in 1..k : x = p[j]
        BY <2>2, RangeIs
      <4>2. \A j \in 1..k : nodes[j] # nodes[k + 1]
        BY <1>1, <2>1 DEF Apart
      <4> QED BY <2>2, <4>1, <4>2 DEF elt
    <3> QED BY <2>1, <2>2, <2>3, <3>1, <3>2, PushBackLinked
  <2> QED BY <2>5, <2>6
<1> HIDE DEF S
<1>6. n \in S
  BY <1>1, <1>4, <1>5, Induction
<1>7. Linked(f[n], Firsts(nodes, n))
  BY <1>1, <1>6 DEF S
<1>8. Firsts(nodes, n) = nodes
  <2>1. n \in 0..n
    BY <1>1
  <2>2. Firsts(nodes, n) \in Seq(Nodes) /\ Len(Firsts(nodes, n)) = n /\ \A j \in 1..n : Firsts(nodes, n)[j] = nodes[j]
    BY <2>1, FirstsAre
  <2> QED BY <2>2, SeqEqual
<1> QED BY <1>2, <1>7, <1>8

(* The nodes from the second on, then the first. *)
Moved(list, nodes) ==
    /\ list \in Seq(Nodes) /\ Len(list) = Len(nodes)
    /\ \A k \in 1..Len(nodes) : list[k] = IF k = Len(nodes) THEN nodes[1] ELSE nodes[k + 1]

(* The nodes but the p-th. *)
Dropped(list, nodes, p) ==
    /\ list \in Seq(Nodes) /\ Len(list) = Len(nodes) - 1
    /\ \A k \in 1..(Len(nodes) - 1) : list[k] = IF k < p THEN nodes[k] ELSE nodes[k + 1]

(* What a list that is linked is made of, said of its nodes one by one. *)
Steps(R, nodes) ==
    /\ R \in Memory /\ Ring(R, {Root} \cup Range(nodes)) /\ Len(nodes) \in Nat
    /\ \A k \in 1..Len(nodes) : nodes[k] \in Nodes /\ nodes[k] # Root /\ nodes[k] \in Range(nodes)
    /\ \A k \in 1..(Len(nodes) - 1) : R.next[nodes[k]] = nodes[k + 1]
    /\ Len(nodes) # 0 => R.next[nodes[Len(nodes)]] = Root /\ R.next[Root] = nodes[1]
    /\ Len(nodes) = 0 => R.next[Root] = Root

LEMMA LinkedIs ==
    ASSUME Root \notin Nodes, NEW nodes \in Seq(Nodes), NEW R, Linked(R, nodes)
    PROVE  Steps(R, nodes)
<1>1. /\ Len(nodes) \in Nat
      /\ \A k \in 1..Len(nodes) : nodes[k] \in Nodes /\ nodes[k] # Root /\ nodes[k] \in Range(nodes)
  BY RangeIs
<1>2. \A k \in 1..(Len(nodes) - 1) : R.next[nodes[k]] = nodes[k + 1]
  BY <1>1 DEF Linked, Following
<1>3. Len(nodes) # 0 => R.next[nodes[Len(nodes)]] = Root
  BY <1>1 DEF Linked, Following
<1>4. Len(nodes) # 0 => R.next[Root] = nodes[1]
  BY <1>1 DEF Linked, Following
<1>5. Len(nodes) = 0 => R.next[Root] = Root
  BY <1>1 DEF Linked, Following
<1> QED BY <1>1, <1>2, <1>3, <1>4, <1>5 DEF Linked, Steps

(* The last node is before the root. *)
LEMMA LastIs ==
    ASSUME Root \notin Nodes, NEW nodes \in Seq(Nodes), NEW R, Linked(R, nodes), Len(nodes) # 0
    PROVE  R.prev[Root] = nodes[Len(nodes)]
<1>0. Steps(R, nodes)
  BY LinkedIs
<1>1. Len(nodes) \in 1..Len(nodes) /\ nodes[Len(nodes)] \in Range(nodes)
  BY <1>0 DEF Steps
<1>2. R.next[nodes[Len(nodes)]] = Root
  BY <1>0 DEF Steps
<1>3. Ring(R, {Root} \cup Range(nodes))
  BY DEF Linked
<1> QED BY <1>1, <1>2, <1>3 DEF Ring

LEMMA RotateLinked ==
    ASSUME Root \notin Nodes, NEW nodes \in Seq(Nodes), Apart(nodes), NEW R, Linked(R, nodes),
           Len(nodes) >= 2, NEW list, Moved(list, nodes)
    PROVE  Linked(rotate(R), list)
<1> DEFINE n == Len(nodes)
           Q == rotate(R)
           S == {Root} \cup Range(nodes)
<1>0. Steps(R, nodes)
  BY LinkedIs
<1>1. /\ R \in Memory /\ Ring(R, S) /\ n \in Nat /\ n >= 2
      /\ \A k \in 1..n : nodes[k] \in Nodes /\ nodes[k] # Root /\ nodes[k] \in S
      /\ \A k \in 1..(n - 1) : R.next[nodes[k]] = nodes[k + 1]
      /\ R.next[nodes[n]] = Root /\ R.next[Root] = nodes[1]
  BY <1>0 DEF Steps
<1>2. R.prev[Root] = nodes[n]
  BY <1>1, LastIs
<1>3. 1 \in 1..n /\ n \in 1..n /\ 2 \in 1..n /\ 1 \in 1..(n - 1)
  BY <1>1
<1>4. ~empty(R) /\ ~singular(R)
  <2>1. nodes[1] # nodes[n]
    BY <1>1, <1>3 DEF Apart
  <2> QED BY <1>1, <1>2, <1>3, <2>1 DEF empty, singular
<1>5. Turned(Q, R, S)
  <2> HIDE DEF S, Q
  <2>1. Turned(rotate(R), R, S)
    BY <1>1, <1>4, RotateMovesFirst
  <2> QED BY <2>1 DEF Q
<1>6. /\ list \in Seq(Nodes) /\ Len(list) = n /\ list[n] = nodes[1]
      /\ \A k \in 1..(n - 1) : list[k] = nodes[k + 1]
  BY <1>1 DEF Moved
<1>7. R.next[R.next[Root]] = nodes[2]
  BY <1>1, <1>3
<1>8. {Root} \cup Range(list) = S
  <2>1. \A x : x \in Range(list) <=> \E k \in 1..n : x = list[k]
    BY <1>6, RangeIs
  <2>2. \A x : x \in Range(nodes) <=> \E k \in 1..n : x = nodes[k]
    BY RangeIs
  <2>3. ASSUME NEW k \in 1..n PROVE \E j \in 1..n : list[k] = nodes[j]
    <3>1. CASE k = n
      BY <1>3, <1>6, <3>1
    <3>2. CASE k # n
      <4>1. k \in 1..(n - 1) /\ k + 1 \in 1..n
        BY <1>1, <3>2
      <4> QED BY <1>6, <4>1
    <3> QED BY <3>1, <3>2
  <2>4. ASSUME NEW k \in 1..n PROVE \E j \in 1..n : nodes[k] = list[j]
    <3>1. CASE k = 1
      BY <1>3, <1>6, <3>1
    <3>2. CASE k # 1
      <4>1. k - 1 \in 1..(n - 1) /\ k - 1 + 1 = k /\ k - 1 \in 1..n
        BY <1>1, <3>2
      <4>2. list[k - 1] = nodes[k]
        BY <1>6, <4>1
      <4> QED BY <4>1, <4>2
    <3> QED BY <3>1, <3>2
  <2>5. \A x : x \in Range(list) <=> x \in Range(nodes)
    BY <2>1, <2>2, <2>3, <2>4
  <2> QED BY <2>5
<1> HIDE DEF S, Q
<1>9. /\ Q \in Memory /\ Ring(Q, S) /\ Root \in S
      /\ \A x \in S : Q.next[x] = IF x = Root THEN nodes[2]
                                  ELSE IF x = nodes[1] THEN Root
                                  ELSE IF x = nodes[n] THEN nodes[1]
                                  ELSE R.next[x]
  BY <1>1, <1>2, <1>5, <1>7 DEF Turned, S
<1>10. Q.next[Root] = Following(list, 0)
  <2>1. Following(list, 0) = nodes[2]
    BY <1>1, <1>3, <1>6 DEF Following
  <2> QED BY <1>9, <2>1
<1>11. ASSUME NEW k \in 1..n PROVE Q.next[list[k]] = Following(list, k)
  <2>1. CASE k = n
    <3>1. list[k] = nodes[1] /\ Following(list, k) = Root
      BY <1>6, <2>1 DEF Following
    <3> QED BY <1>1, <1>3, <1>9, <3>1
  <2>2. CASE k # n
    <3>1. k \in 1..(n - 1) /\ k + 1 \in 1..n /\ k \in 1..n
      BY <1>1, <2>2
    <3>2. list[k] = nodes[k + 1] /\ Following(list, k) = list[k + 1]
      BY <1>6, <2>2, <3>1 DEF Following
    <3>3. nodes[k + 1] # nodes[1] /\ nodes[k + 1] # Root /\ nodes[k + 1] \in S
      BY <1>1, <1>3, <3>1 DEF Apart
    <3>4. CASE k + 1 = n
      BY <1>6, <1>9, <3>2, <3>3, <3>4
    <3>5. CASE k + 1 # n
      <4>1. k + 1 \in 1..(n - 1) /\ nodes[k + 1] # nodes[n]
        BY <1>1, <1>3, <3>1, <3>5 DEF Apart
      <4>2. Q.next[list[k]] = R.next[nodes[k + 1]]
        BY <1>9, <3>2, <3>3, <4>1
      <4>3. R.next[nodes[k + 1]] = nodes[k + 1 + 1] /\ list[k + 1] = nodes[k + 1 + 1]
        BY <1>1, <1>6, <4>1
      <4> QED BY <3>2, <4>2, <4>3
    <3> QED BY <3>4, <3>5
  <2> QED BY <2>1, <2>2
<1>12. Linked(Q, list)
  BY <1>6, <1>8, <1>9, <1>10, <1>11 DEF Linked
<1> QED BY <1>12 DEF Q

(* A list of one node or none is not turned. *)
LEMMA RotateShort ==
    ASSUME Root \notin Nodes, NEW nodes \in Seq(Nodes), NEW R, Linked(R, nodes), Len(nodes) < 2
    PROVE  rotate(R) = R
<1>0. Steps(R, nodes)
  BY LinkedIs
<1>1. CASE Len(nodes) = 0
  BY <1>0, <1>1 DEF Steps, rotate, empty
<1>2. CASE Len(nodes) = 1
  <2>1. R.prev[Root] = nodes[1]
    BY <1>2, LastIs
  <2>2. R.next[Root] = nodes[1]
    BY <1>0, <1>2 DEF Steps
  <2> QED BY <2>1, <2>2 DEF rotate, empty, singular
<1>3. Len(nodes) = 0 \/ Len(nodes) = 1
  <2> DEFINE n == Len(nodes)
  <2>1. n \in Nat /\ n < 2
    OBVIOUS
  <2> HIDE DEF n
  <2>2. n = 0 \/ n = 1
    BY <2>1
  <2> QED BY <2>2 DEF n
<1> QED BY <1>1, <1>2, <1>3

(* Unlinking the p-th node leaves the others linked, and the node's own next
   as it was. *)
LEMMA DelLinked ==
    ASSUME Root \notin Nodes, NEW nodes \in Seq(Nodes), Apart(nodes), NEW R, Linked(R, nodes),
           NEW p \in 1..Len(nodes), NEW list, Dropped(list, nodes, p)
    PROVE  /\ Linked(del(R, nodes[p]), list)
           /\ \A k \in p..Len(nodes) : del(R, nodes[p]).next[nodes[k]] = Following(nodes, k)
<1> DEFINE n == Len(nodes)
           elt == nodes[p]
           Q == del(R, elt)
           S == {Root} \cup Range(nodes)
<1>0. Steps(R, nodes)
  BY LinkedIs
<1>1. /\ R \in Memory /\ Ring(R, S) /\ n \in Nat /\ p \in 1..n /\ n # 0
      /\ \A k \in 1..n : nodes[k] \in Nodes /\ nodes[k] # Root /\ nodes[k] \in S
      /\ \A k \in 1..(n - 1) : R.next[nodes[k]] = nodes[k + 1]
      /\ R.next[nodes[n]] = Root /\ R.next[Root] = nodes[1]
  BY <1>0 DEF Steps
<1>2. elt \in S \ {Root} /\ Root \in S
  BY <1>1
<1>3. Closed(Q, R, S, elt)
  <2> HIDE DEF S, Q, elt
  <2>1. Closed(del(R, elt), R, S, elt)
    BY <1>1, <1>2, DelUnlinks
  <2> QED BY <2>1 DEF Q
<1>4. R.next[elt] = Following(nodes, p) /\ R.next[elt] # elt
  <2>1. CASE p = n
    BY <1>1, <2>1 DEF Following
  <2>2. CASE p # n
    <3>1. p \in 1..(n - 1) /\ p + 1 \in 1..n /\ p + 1 # p
      BY <1>1, <2>2
    <3>2. R.next[elt] = nodes[p + 1] /\ Following(nodes, p) = nodes[p + 1]
      BY <1>1, <2>2, <3>1 DEF Following
    <3>3. nodes[p + 1] # nodes[p]
      BY <1>1, <3>1 DEF Apart
    <3> QED BY <3>2, <3>3
  <2> QED BY <2>1, <2>2
<1>5. Q.next[elt] = Following(nodes, p)
  BY <1>3, <1>4 DEF Closed
<1>6. /\ list \in Seq(Nodes) /\ Len(list) = n - 1
      /\ \A k \in 1..(n - 1) : list[k] = IF k < p THEN nodes[k] ELSE nodes[k + 1]
  BY <1>1 DEF Dropped
<1>7. {Root} \cup Range(list) = S \ {elt}
  <2>1. \A x : x \in Range(list) <=> \E k \in 1..(n - 1) : x = list[k]
    BY <1>6, RangeIs
  <2>2. \A x : x \in Range(nodes) <=> \E k \in 1..n : x = nodes[k]
    BY RangeIs
  <2>3. ASSUME NEW k \in 1..(n - 1) PROVE \E j \in 1..n : list[k] = nodes[j] /\ j # p
    <3>1. CASE k < p
      BY <1>1, <1>6, <3>1
    <3>2. CASE ~(k < p)
      <4>1. k + 1 \in 1..n /\ k + 1 # p
        BY <1>1, <3>2
      <4> QED BY <1>6, <3>2, <4>1
    <3> QED BY <3>1, <3>2
  <2>4. ASSUME NEW k \in 1..n, k # p PROVE \E j \in 1..(n - 1) : nodes[k] = list[j]
    <3>1. CASE k < p
      <4>1. k \in 1..(n - 1)
        BY <1>1, <3>1
      <4> QED BY <1>6, <3>1, <4>1
    <3>2. CASE ~(k < p)
      <4>1. k - 1 \in 1..(n - 1) /\ k - 1 + 1 = k /\ ~(k - 1 < p)
        BY <1>1, <2>4, <3>2
      <4>2. list[k - 1] = nodes[k]
        BY <1>6, <4>1
      <4> QED BY <4>1, <4>2
    <3> QED BY <3>1, <3>2
  <2>5. \A j \in 1..n : j # p => nodes[j] # elt
    BY <1>1 DEF Apart
  <2>6. ASSUME NEW x PROVE x \in Range(list) <=> x \in Range(nodes) /\ x # elt
    <3>1. ASSUME x \in Range(list) PROVE x \in Range(nodes) /\ x # elt
      <4>1. PICK k \in 1..(n - 1) : x = list[k]
        BY <2>1, <3>1
      <4>2. PICK j \in 1..n : list[k] = nodes[j] /\ j # p
        BY <2>3
      <4> QED BY <2>2, <2>5, <4>1, <4>2
    <3>2. ASSUME x \in Range(nodes), x # elt PROVE x \in Range(list)
      <4>1. PICK k \in 1..n : x = nodes[k]
        BY <2>2, <3>2
      <4>2. k # p
        BY <3>2, <4>1
      <4> QED BY <2>1, <2>4, <4>1, <4>2
    <3> QED BY <3>1, <3>2
  <2>7. elt # Root
    BY <1>1
  <2> HIDE DEF elt
  <2> QED BY <2>6, <2>7
<1>8. /\ Q \in Memory /\ Ring(Q, S \ {elt})
      /\ \A x \in S \ {elt} : Q.next[x] = IF R.next[x] = elt THEN Following(nodes, p) ELSE R.next[x]
  BY <1>3, <1>4 DEF Closed
<1> HIDE DEF S, Q
<1>9. Q.next[Root] = Following(list, 0)
  <2>1. CASE p = 1
    <3>1. Q.next[Root] = Following(nodes, 1)
      BY <1>1, <1>2, <1>8, <2>1
    <3>2. CASE n = 1
      BY <1>6, <3>1, <3>2 DEF Following
    <3>3. CASE n # 1
      <4>1. 1 \in 1..(n - 1) /\ ~(1 < p) /\ n - 1 # 0
        <5>1. n \in Nat /\ n # 0
          BY <1>1
        <5> HIDE DEF n
        <5> QED BY <2>1, <3>3, <5>1
      <4>2. list[1] = nodes[2]
        BY <1>6, <4>1
      <4> QED BY <1>6, <3>1, <3>3, <4>1, <4>2 DEF Following
    <3> QED BY <3>2, <3>3
  <2>2. CASE p # 1
    <3>1. 1 \in 1..(n - 1) /\ 1 < p /\ n - 1 # 0 /\ 1 \in 1..n
      BY <1>1, <2>2
    <3>2. list[1] = nodes[1] /\ nodes[1] # elt
      BY <1>1, <1>6, <2>2, <3>1 DEF Apart
    <3>3. Q.next[Root] = nodes[1]
      BY <1>1, <1>2, <1>8, <3>2
    <3> QED BY <1>6, <3>1, <3>2, <3>3 DEF Following
  <2> QED BY <2>1, <2>2
<1>10. ASSUME NEW k \in 1..n, k # p
       PROVE  Q.next[nodes[k]] = IF k + 1 = p THEN Following(nodes, p) ELSE Following(nodes, k)
  <2>1. nodes[k] \in S \ {elt}
    BY <1>1, <1>10 DEF Apart
  <2>2. CASE k = n
    <3>1. R.next[nodes[k]] = Root /\ k + 1 # p /\ Following(nodes, k) = Root
      BY <1>1, <2>2 DEF Following
    <3> QED BY <1>2, <1>8, <2>1, <3>1
  <2>3. CASE k # n
    <3>1. k \in 1..(n - 1) /\ k + 1 \in 1..n
      BY <1>1, <2>3
    <3>2. R.next[nodes[k]] = nodes[k + 1] /\ Following(nodes, k) = nodes[k + 1]
      BY <1>1, <2>3, <3>1 DEF Following
    <3>3. nodes[k + 1] = elt <=> k + 1 = p
      BY <1>1, <3>1 DEF Apart
    <3> QED BY <1>8, <2>1, <3>2, <3>3
  <2> QED BY <2>2, <2>3
<1>11. ASSUME NEW k \in 1..(n - 1) PROVE Q.next[list[k]] = Following(list, k)
  <2>1. CASE k < p
    <3>1. k \in 1..n /\ k # p /\ list[k] = nodes[k]
      BY <1>1, <1>6, <2>1
    <3>2. CASE k + 1 = p
      <4>1. Q.next[list[k]] = Following(nodes, p)
        BY <1>10, <3>1, <3>2
      <4>2. CASE p = n
        <5>1. k = n - 1
          BY <1>1, <3>2, <4>2
        <5> QED BY <1>6, <4>1, <4>2, <5>1 DEF Following
      <4>3. CASE p # n
        <5>1. k + 1 \in 1..(n - 1) /\ ~(k + 1 < p) /\ k # n - 1
          BY <1>1, <3>2, <4>3
        <5>2. list[k + 1] = nodes[p + 1]
          BY <1>6, <3>2, <5>1
        <5> QED BY <1>6, <4>1, <4>3, <5>1, <5>2 DEF Following
      <4> QED BY <4>2, <4>3
    <3>3. CASE k + 1 # p
      <4>1. Q.next[list[k]] = Following(nodes, k)
        BY <1>10, <3>1, <3>3
      <4>2. k + 1 \in 1..(n - 1) /\ k + 1 < p /\ k # n - 1 /\ k # n
        BY <1>1, <2>1, <3>3
      <4>3. list[k + 1] = nodes[k + 1]
        BY <1>6, <4>2
      <4> QED BY <1>6, <4>1, <4>2, <4>3 DEF Following
    <3> QED BY <3>2, <3>3
  <2>2. CASE ~(k < p)
    <3>1. k + 1 \in 1..n /\ k + 1 # p /\ k + 1 + 1 # p /\ list[k] = nodes[k + 1]
      BY <1>1, <1>6, <2>2
    <3>2. Q.next[list[k]] = Following(nodes, k + 1)
      BY <1>10, <3>1
    <3>3. CASE k = n - 1
      <4>1. k + 1 = n
        BY <1>1, <3>3
      <4> QED BY <1>6, <3>2, <3>3, <4>1 DEF Following
    <3>4. CASE k # n - 1
      <4>1. k + 1 \in 1..(n - 1) /\ ~(k + 1 < p) /\ k + 1 # n
        BY <1>1, <2>2, <3>4
      <4>2. list[k + 1] = nodes[k + 1 + 1]
        BY <1>6, <4>1
      <4> QED BY <1>6, <3>2, <3>4, <4>1, <4>2 DEF Following
    <3> QED BY <3>3, <3>4
  <2> QED BY <2>1, <2>2
<1>12. Linked(Q, list)
  BY <1>6, <1>7, <1>8, <1>9, <1>11 DEF Linked
<1>13. ASSUME NEW k \in p..n PROVE Q.next[nodes[k]] = Following(nodes, k)
  <2>1. CASE k = p
    BY <1>5, <2>1
  <2>2. CASE k # p
    <3>1. k \in 1..n /\ k + 1 # p
      BY <1>1, <2>2
    <3> QED BY <1>10, <2>2, <3>1
  <2> QED BY <2>1, <2>2
<1>14. \A k \in p..n : Q.next[nodes[k]] = Following(nodes, k)
  BY <1>13
<1> QED BY <1>12, <1>14 DEF Q, elt

(* One turn of kill_task's loop from w. *)
TurnOf(w, t) ==
    LET ring == IF w.it = t THEN del(w.ring, t) ELSE w.ring
    IN  IF w.it = Root THEN w ELSE [it |-> ring.next[w.it], ring |-> ring]

(* Where the walk that kills the p-th of these nodes is after k turns. *)
Stands(R, nodes, p, k) ==
    [it |-> Following(nodes, k), ring |-> IF k < p THEN R ELSE del(R, nodes[p])]

LEMMA TurnStands ==
    ASSUME Root \notin Nodes, NEW nodes \in Seq(Nodes), Apart(nodes), NEW R, Linked(R, nodes),
           NEW p \in 1..Len(nodes), NEW list, Dropped(list, nodes, p), NEW k \in 1..Len(nodes)
    PROVE  TurnOf(Stands(R, nodes, p, k - 1), nodes[p]) = Stands(R, nodes, p, k)
<1> DEFINE n == Len(nodes)
           t == nodes[p]
           w == Stands(R, nodes, p, k - 1)
           ring == IF w.it = t THEN del(w.ring, t) ELSE w.ring
           D == del(R, t)
<1>0. Steps(R, nodes)
  BY LinkedIs
<1>1. /\ n \in Nat /\ p \in 1..n /\ k \in 1..n /\ k - 1 # n /\ k - 1 + 1 = k
      /\ nodes[k] # Root
  BY <1>0 DEF Steps
<1>2. w.it = nodes[k] /\ w.ring = IF k - 1 < p THEN R ELSE D
  BY <1>1 DEF Stands, Following
<1>3. w.it = t <=> k = p
  BY <1>1, <1>2 DEF Apart
<1>4. \A j \in p..n : D.next[nodes[j]] = Following(nodes, j)
  BY DelLinked
<1>5. R.next[nodes[k]] = Following(nodes, k)
  BY <1>1 DEF Linked
<1>6. TurnOf(w, t) = [it |-> ring.next[nodes[k]], ring |-> ring]
  BY <1>1, <1>2 DEF TurnOf
<1> HIDE DEF w, D, t
<1>7. ring = IF k < p THEN R ELSE D
  <2>1. CASE k = p
    <3>1. k - 1 < p /\ ~(k < p)
      BY <1>1, <2>1
    <3> QED BY <1>2, <1>3, <2>1, <3>1 DEF D
  <2>2. CASE k # p
    <3>1. k - 1 < p <=> k < p
      BY <1>1, <2>2
    <3> QED BY <1>2, <1>3, <2>2, <3>1
  <2> QED BY <2>1, <2>2
<1>8. ring.next[nodes[k]] = Following(nodes, k)
  <2>1. CASE k < p
    BY <1>5, <1>7, <2>1
  <2>2. CASE ~(k < p)
    <3>1. k \in p..n
      BY <1>1, <2>2
    <3> QED BY <1>4, <1>7, <2>2, <3>1
  <2> QED BY <2>1, <2>2
<1> HIDE DEF ring
<1>9. TurnOf(w, t) = [it |-> Following(nodes, k), ring |-> IF k < p THEN R ELSE D]
  BY <1>6, <1>7, <1>8
<1> QED BY <1>9 DEF Stands, w, t, D

(* A walk goes by turns of the loop. *)
Walks(f, R, t, n) ==
    f = [k \in 0..n |-> IF k = 0 THEN [it |-> R.next[Root], ring |-> R] ELSE TurnOf(f[k - 1], t)]

LEMMA WalkChosen ==
    ASSUME NEW R, NEW t, NEW n
    PROVE  Walk(R, t, n) = CHOOSE f : Walks(f, R, t, n)
BY Zenon DEF Walk, Walks, TurnOf

LEMMA WalkIs ==
    ASSUME Root \notin Nodes, NEW nodes \in Seq(Nodes), Apart(nodes), NEW R, Linked(R, nodes),
           NEW p \in 1..Len(nodes), NEW list, Dropped(list, nodes, p)
    PROVE  \A k \in 0..Len(nodes) : Walk(R, nodes[p], Len(nodes))[k] = Stands(R, nodes, p, k)
<1> DEFINE n == Len(nodes)
           t == nodes[p]
           At(k) == Stands(R, nodes, p, k)
           g == [k \in 0..n |-> At(k)]
           f == Walk(R, t, n)
<1>1. n \in Nat
  OBVIOUS
<1>2. \A k \in 1..n : TurnOf(At(k - 1), t) = At(k)
  BY TurnStands
<1>3. At(0) = [it |-> R.next[Root], ring |-> R]
  <2>1. 0 < p /\ R.next[Root] = Following(nodes, 0)
    BY DEF Linked
  <2> QED BY <2>1 DEF Stands
<1> HIDE DEF n, t, At
<1>4. Walks(g, R, t, n)
  <2>1. \A k \in 0..n : g[k] = IF k = 0 THEN [it |-> R.next[Root], ring |-> R] ELSE TurnOf(g[k - 1], t)
    <3> TAKE k \in 0..n
    <3>1. CASE k = 0
      BY <1>1, <1>3, <3>1
    <3>2. CASE k # 0
      <4>1. k \in 1..n /\ k - 1 \in 0..n
        BY <1>1, <3>2
      <4>2. g[k - 1] = At(k - 1) /\ g[k] = At(k)
        BY <4>1
      <4> HIDE DEF g
      <4> QED BY <1>2, <3>2, <4>1, <4>2
    <3> QED BY <3>1, <3>2
  <2>2. g = [k \in 0..n |-> g[k]]
    OBVIOUS
  <2> HIDE DEF g
  <2> QED BY <2>1, <2>2 DEF Walks
<1>5. Walks(f, R, t, n)
  <2>1. f = CHOOSE h : Walks(h, R, t, n)
    BY WalkChosen
  <2> HIDE DEF f
  <2> QED BY <1>4, <2>1, Zenon
<1>6. \A k \in 0..n : f[k] = IF k = 0 THEN [it |-> R.next[Root], ring |-> R] ELSE TurnOf(f[k - 1], t)
  <2> HIDE DEF f
  <2> QED BY <1>5 DEF Walks
<1> HIDE DEF f, g
<1> DEFINE S == {k \in Nat : k <= n => f[k] = At(k)}
<1>7. 0 \in S
  BY <1>1, <1>3, <1>6
<1>8. ASSUME NEW k \in Nat, k \in S PROVE k + 1 \in S
  <2> SUFFICES ASSUME k + 1 <= n PROVE f[k + 1] = At(k + 1)
    OBVIOUS
  <2>1. k + 1 \in 0..n /\ k + 1 \in 1..n /\ k + 1 # 0 /\ k + 1 - 1 = k /\ k <= n
    BY <1>1
  <2>2. f[k] = At(k)
    BY <1>8, <2>1
  <2>3. f[k + 1] = TurnOf(f[k], t)
    BY <1>6, <2>1
  <2>4. TurnOf(At(k), t) = At(k + 1)
    BY <1>2, <2>1
  <2> QED BY <2>2, <2>3, <2>4
<1> HIDE DEF S
<1>9. Nat \subseteq S
  BY <1>7, <1>8, Induction
<1>10. \A k \in 0..n : f[k] = At(k)
  BY <1>1, <1>9 DEF S
<1> QED BY <1>10 DEF f, At, n, t

(* The pointers of list.cpp are the list, whatever nodes are put in it: the
   pushes of scheduler::init and new_task link them both ways round. *)
THEOREM BuiltRepresents ==
    ASSUME Root \notin Nodes, NEW nodes \in Seq(Nodes), Apart(nodes)
    PROVE  Represents(Built(nodes), nodes)
<1>1. Linked(Built(nodes), nodes)
  BY BuiltLinked
<1> HIDE DEF Built
<1> QED BY <1>1, LinkedRepresents

(* The rotation of select_next puts the first node of two or more behind the
   last, and leaves a shorter list as it is. *)
THEOREM RotatedRepresents ==
    ASSUME Root \notin Nodes, NEW nodes \in Seq(Nodes), Apart(nodes), NEW list \in Seq(Nodes),
           IF Len(nodes) < 2 THEN list = nodes ELSE Moved(list, nodes)
    PROVE  Represents(rotate(Built(nodes)), list)
<1>1. Linked(Built(nodes), nodes)
  BY BuiltLinked
<1> DEFINE R == Built(nodes)
<1> HIDE DEF R
<1>2. Linked(R, nodes)
  BY <1>1 DEF R
<1>3. Linked(rotate(R), list)
  <2>1. CASE Len(nodes) < 2
    BY <1>2, <2>1, RotateShort
  <2>2. CASE ~(Len(nodes) < 2)
    <3>1. Len(nodes) >= 2
      <4> DEFINE n == Len(nodes)
      <4>1. n \in Nat /\ ~(n < 2)
        BY <2>2
      <4> HIDE DEF n
      <4>2. n >= 2
        BY <4>1
      <4> QED BY <4>2 DEF n
    <3> QED BY <1>2, <2>2, <3>1, RotateLinked
  <2> QED BY <2>1, <2>2
<1>4. Represents(rotate(R), list)
  BY <1>3, LinkedRepresents
<1> QED BY <1>4 DEF R

(* The walk of kill_task, which unlinks the p-th node, frees it and then reads
   its next, comes by every node once, ends at the root and leaves the list
   linked without that node. *)
THEOREM WalkUnlinks ==
    ASSUME Root \notin Nodes, NEW nodes \in Seq(Nodes), Apart(nodes),
           NEW p \in 1..Len(nodes), NEW list \in Seq(Nodes), Dropped(list, nodes, p)
    PROVE  LET n    == Len(nodes)
               walk == Walk(Built(nodes), nodes[p], n)
           IN  /\ \A k \in 1..n : walk[k - 1].it = nodes[k]
               /\ walk[n].it = Root
               /\ Represents(walk[n].ring, list)
<1> DEFINE R == Built(nodes)
           n == Len(nodes)
           walk == Walk(R, nodes[p], n)
<1>1. Linked(R, nodes)
  BY BuiltLinked
<1> HIDE DEF R
<1>2. \A k \in 0..n : walk[k] = Stands(R, nodes, p, k)
  BY <1>1, WalkIs
<1> HIDE DEF walk
<1>3. n \in Nat /\ ~(n < p) /\ n \in 0..n
  OBVIOUS
<1>4. ASSUME NEW k \in 1..n PROVE walk[k - 1].it = nodes[k]
  <2>1. k - 1 \in 0..n /\ k - 1 # n /\ k - 1 + 1 = k
    BY <1>3
  <2>2. walk[k - 1] = Stands(R, nodes, p, k - 1)
    BY <1>2, <2>1
  <2>3. k - 1 # Len(nodes)
    BY <2>1
  <2>4. walk[k - 1].it = Following(nodes, k - 1)
    BY <2>2 DEF Stands
  <2> QED BY <2>1, <2>3, <2>4 DEF Following
<1>5. walk[n] = Stands(R, nodes, p, n)
  BY <1>2, <1>3
<1>6. walk[n].it = Root /\ walk[n].ring = del(R, nodes[p])
  BY <1>3, <1>5 DEF Stands, Following
<1>7. Linked(del(R, nodes[p]), list)
  BY <1>1, DelLinked
<1>8. Represents(walk[n].ring, list)
  BY <1>6, <1>7, LinkedRepresents
<1> QED BY <1>4, <1>6, <1>8 DEF walk, R
=============================================================================
