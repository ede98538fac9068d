--------------------------- MODULE ConsoleProofs ----------------------------
(***************************************************************************)
(* The ring of the keyboard is the queue KeyQueue, and the modifiers follow *)
(* the keys, up to the first interrupt that tears another one's arrival     *)
(* apart (torn of Console); the display follows the cache and the line      *)
(* stays left of the cursor; for every keyboard, ring, screen and line      *)
(* length, and however many keys are typed and handlers suspended.          *)
(*                                                                          *)
(* Reflects says how the modifiers that are down follow from the flags of   *)
(* the terminal and the scancodes it has not dealt with: the last one about *)
(* a modifier decides, and the flag where there is none.  Told says which   *)
(* keys the ring has been told of: those that are down, but for the         *)
(* scancode that a suspended handler has read and not put.                  *)
(***************************************************************************)
EXTENDS Console, SequenceTheorems, TLAPS

Rings == [Places -> Codes]

Nth(r, k) == IF r + k < Size THEN r + k ELSE r + k - Size

(* The scancodes that are not dealt with, the one in hand included. *)
Busy == IF pc \in {"get", "got"} THEN 1 ELSE 0
Count == Ahead(rindex, windex, Busy)

Last(B, r, n, m, k) == B[Nth(r, k)][1] = m /\ \A j \in (k + 1)..(n - 1) : B[Nth(r, j)][1] # m

Reflects(B, r, n, F, H) ==
    \A m \in Modifiers :
        \/ \E k \in 0..(n - 1) : Last(B, r, n, m, k) /\ (B[Nth(r, k)][2] <=> m \in H)
        \/ (\A k \in 0..(n - 1) : B[Nth(r, k)][1] # m) /\ (m \in F <=> m \in H)

(* The keys that are down after scancode c. *)
Follows(c, H, H2) == \A m \in Modifiers : IF m = c[1] THEN (m \in H2 <=> c[2]) ELSE (m \in H2 <=> m \in H)

Told(H) == IF Suspended = {} THEN H = held ELSE \A h \in Suspended : Follows(frame[h].c, H, held)

(* A handler is suspended only with the gate open, and if nothing is torn it is
   the only one, and behind inb(0x60). *)
Handled ==
    /\ ~open => Suspended = {} /\ ~torn
    /\ \A h \in Suspended : frame[h].at # "none" /\ frame[h].c \in Codes /\ (frame[h].at = "put" \/ torn)
    /\ ~torn => \A g, h \in Suspended : g = h

Meant ==
    /\ pc = "got" => code = buffer[rindex]
    /\ \E H \in SUBSET Keys : Told(H) /\ Reflects(buffer, rindex, Count, flags, H)

IInv ==
    /\ TypeOK
    /\ pc # "print" => Len(line) < MaxLineLen - 1
    /\ IF pc = "got" THEN code \in Codes ELSE code = NoCode
    /\ ScreenTrue
    /\ Handled
    /\ ~overrun /\ ~torn => Meant
-----------------------------------------------------------------------------
(* The ring *)

LEMMA SizeFacts == Size \in Nat /\ Size > 1 /\ Places \subseteq Int
BY SizeAssumption DEF Places

LEMMA NthFacts ==
    ASSUME NEW r \in Places, NEW k \in 0..(Size - 1)
    PROVE  /\ Nth(r, k) \in Places
           /\ \A j \in 0..(Size - 1) : Nth(r, j) = Nth(r, k) => j = k
           /\ Succ(r) \in Places
           /\ k + 1 < Size => Nth(Succ(r), k) = Nth(r, k + 1)
           /\ Nth(r, 0) = r
BY SizeAssumption DEF Nth, Places, Succ

(* How many scancodes there are from r on, and what an arrival makes of it. *)
LEMMA AheadFacts ==
    ASSUME NEW r \in Places, NEW w \in Places, NEW l \in {0, 1}
    PROVE  /\ Ahead(r, w, l) \in Nat /\ l <= Ahead(r, w, l) /\ Ahead(r, w, l) <= Size - 1 + l
           /\ Ahead(r, w, l) < Size - 1 + l =>
                  Ahead(r, Succ(w), l) = Ahead(r, w, l) + 1 /\ w = Nth(r, Ahead(r, w, l))
           /\ Ahead(r, w, l) = Size - 1 + l => Ahead(r, Succ(w), l) = l /\ (l = 1 => w = r)
           /\ Ahead(r, w, 0) = 0 <=> r = w
           /\ r # w => Ahead(r, w, 0) = Ahead(r, w, 1)
           /\ Ahead(Succ(r), w, 0) = Ahead(r, w, 1) - 1
BY SizeAssumption DEF Ahead, Nth, Places, Succ

LEMMA UnreadFacts ==
    ASSUME NEW C, NEW B \in [Places -> C], NEW r \in Places, NEW n \in 0..Size
    PROVE  /\ Unread(B, r, n) \in Seq(C) /\ Len(Unread(B, r, n)) = n
           /\ \A k \in 1..n : Unread(B, r, n)[k] = B[Nth(r, k - 1)]
<1>1. Size \in Nat /\ n \in Nat
  BY SizeAssumption
<1>2. ASSUME NEW k \in 1..n
      PROVE  /\ k - 1 \in 0..(Size - 1)
             /\ (IF r + k - 1 < Size THEN r + k - 1 ELSE r + k - 1 - Size) = Nth(r, k - 1)
  BY <1>1 DEF Nth, Places
<1>3. \A k \in 1..n : B[Nth(r, k - 1)] \in C
  BY <1>2, NthFacts
<1>4. Unread(B, r, n) = [k \in 1..n |-> B[Nth(r, k - 1)]]
  BY <1>2 DEF Unread
<1>5. Unread(B, r, n) \in [1..n -> C]
  BY <1>3, <1>4
<1>6. Unread(B, r, n) \in Seq(C)
  BY <1>1, <1>5, SeqDef
<1>7. Len(Unread(B, r, n)) = n
  <2>1. DOMAIN Unread(B, r, n) = 1..n
    BY <1>5
  <2>2. Len(Unread(B, r, n)) \in Nat /\ DOMAIN Unread(B, r, n) = 1..Len(Unread(B, r, n))
    BY <1>6, LenProperties
  <2> QED
    BY <1>1, <2>1, <2>2
<1> QED
  BY <1>4, <1>6, <1>7

(* The queue q of n, after the arrival of c. *)
Added(q, n, l, c) == IF n < Size - 1 + l THEN Append(q, c) ELSE IF l = 1 THEN <<c>> ELSE <<>>

Written(B2, B, w, c) == B2 = [B EXCEPT ![w] = c]

(* kbd_buf::put, seen from a reader at r that counts on l scancodes. *)
LEMMA PutQueue ==
    ASSUME NEW B \in Rings, NEW r \in Places, NEW w \in Places, NEW l \in {0, 1},
           NEW c \in Codes, NEW B2, Written(B2, B, w, c)
    PROVE  Unread(B2, r, Ahead(r, Succ(w), l)) = Added(Unread(B, r, Ahead(r, w, l)), Ahead(r, w, l), l, c)
<1> DEFINE C == Codes
           n == Ahead(r, w, l)
           n2 == Ahead(r, Succ(w), l)
           q == Unread(B, r, n)
           q2 == Unread(B2, r, n2)
<1>0. Size \in Nat /\ Size > 1 /\ 0 \in 0..(Size - 1)
  BY SizeAssumption
<1>1. n \in Nat /\ n <= Size - 1 + l /\ n \in 0..Size
  BY <1>0, AheadFacts
<1>2. Succ(w) \in Places
  BY <1>0, NthFacts
<1>3. n2 \in Nat /\ n2 <= Size - 1 + l /\ n2 \in 0..Size
  BY <1>0, <1>2, AheadFacts
<1>4. /\ B \in [Places -> C] /\ B2 \in [Places -> C] /\ c \in C
      /\ B2[w] = c /\ \A p \in Places : p # w => B2[p] = B[p]
  BY DEF Written, Rings
<1> HIDE DEF C
<1>5. q \in Seq(C) /\ Len(q) = n /\ \A k \in 1..n : q[k] = B[Nth(r, k - 1)]
  BY <1>1, <1>4, UnreadFacts
<1>6. q2 \in Seq(C) /\ Len(q2) = n2 /\ \A k \in 1..n2 : q2[k] = B2[Nth(r, k - 1)]
  BY <1>3, <1>4, UnreadFacts
<1>7. CASE n < Size - 1 + l
  <2>1. n2 = n + 1 /\ w = Nth(r, n)
    BY <1>7, AheadFacts
  <2>2. n \in 0..(Size - 1)
    BY <1>0, <1>1, <1>7
  <2> HIDE DEF n, n2, q, q2
  <2>3. /\ Append(q, c) \in Seq(C) /\ Len(Append(q, c)) = n + 1
        /\ \A k \in 1..n : Append(q, c)[k] = q[k]
        /\ Append(q, c)[n + 1] = c
    BY <1>4, <1>5, AppendProperties
  <2>4. ASSUME NEW k \in 1..(n + 1) PROVE q2[k] = Append(q, c)[k]
    <3>1. q2[k] = B2[Nth(r, k - 1)] /\ k - 1 \in 0..(Size - 1) /\ Nth(r, k - 1) \in Places
      <4>1. k - 1 \in 0..(Size - 1)
        BY <1>0, <1>1, <2>2
      <4> QED
        BY <1>6, <2>1, <4>1, NthFacts
    <3>2. CASE k = n + 1
      <4>1. k - 1 = n
        BY <1>1, <3>2
      <4> QED
        BY <1>4, <2>1, <2>3, <3>1, <3>2, <4>1
    <3>3. CASE k # n + 1
      <4>1. k \in 1..n /\ k - 1 # n
        BY <1>1, <3>3
      <4>2. Nth(r, k - 1) # w
        BY <2>1, <2>2, <3>1, <4>1, NthFacts
      <4> QED
        BY <1>4, <1>5, <2>3, <3>1, <4>1, <4>2
    <3> QED
      BY <3>2, <3>3
  <2>5. Len(q2) = Len(Append(q, c)) /\ \A k \in 1..Len(q2) : q2[k] = Append(q, c)[k]
    BY <1>6, <2>1, <2>3, <2>4
  <2>6. q2 = Append(q, c)
    BY <1>6, <2>3, <2>5, SeqEqual
  <2> QED
    BY <1>7, <2>6 DEF n, n2, q, q2, Added
<1>8. CASE ~(n < Size - 1 + l)
  <2>1. n2 = l /\ (l = 1 => w = r)
    BY <1>0, <1>1, <1>8, AheadFacts
  <2>2. CASE l = 0
    <3>1. Len(q2) = 0
      BY <1>6, <2>1, <2>2
    <3>2. q2 = <<>>
      BY <1>6, <3>1, EmptySeq
    <3> QED
      BY <1>8, <2>2, <3>2 DEF Added
  <2>3. CASE l = 1
    <3>1. Nth(r, 0) = r
      BY <1>0, NthFacts
    <3>2. Len(q2) = 1 /\ q2[1] = c
      BY <1>4, <1>6, <2>1, <2>3, <3>1
    <3>3. <<c>> \in Seq(C) /\ Len(<<c>>) = 1 /\ <<c>>[1] = c
      BY <1>4
    <3> HIDE DEF n, n2, q, q2
    <3>4. \A k \in 1..Len(q2) : q2[k] = <<c>>[k]
      BY <3>2, <3>3
    <3>5. q2 = <<c>>
      BY <1>6, <3>2, <3>3, <3>4, SeqEqual
    <3> QED
      BY <1>8, <2>3, <3>5 DEF n, n2, q, q2, Added
  <2> QED
    BY <2>2, <2>3
<1> QED
  BY <1>7, <1>8

(* kbd_buf::get: reading is taking the head. *)
LEMMA GetQueue ==
    ASSUME NEW B \in Rings, NEW r \in Places, NEW w \in Places
    PROVE  /\ Unread(B, r, Ahead(r, w, 1)) # <<>>
           /\ Head(Unread(B, r, Ahead(r, w, 1))) = B[r]
           /\ Unread(B, Succ(r), Ahead(Succ(r), w, 0)) = Tail(Unread(B, r, Ahead(r, w, 1)))
<1> DEFINE C == Codes
           n == Ahead(r, w, 1)
           n2 == Ahead(Succ(r), w, 0)
           q == Unread(B, r, n)
           q2 == Unread(B, Succ(r), n2)
<1>0. Size \in Nat /\ Size > 1 /\ 0 \in 0..(Size - 1)
  BY SizeAssumption
<1>a. B \in [Places -> C]
  BY DEF Rings
<1> HIDE DEF C
<1>1. n \in Nat /\ 1 <= n /\ n <= Size /\ n \in 0..Size /\ n2 = n - 1 /\ n2 \in 0..Size
  BY <1>0, AheadFacts
<1>2. Succ(r) \in Places /\ Nth(r, 0) = r
  BY <1>0, NthFacts
<1>3. q \in Seq(C) /\ Len(q) = n /\ \A k \in 1..n : q[k] = B[Nth(r, k - 1)]
  BY <1>a, <1>1, UnreadFacts
<1>4. q2 \in Seq(C) /\ Len(q2) = n2 /\ \A k \in 1..n2 : q2[k] = B[Nth(Succ(r), k - 1)]
  BY <1>a, <1>1, <1>2, UnreadFacts
<1> HIDE DEF n, n2, q, q2
<1>5. q # <<>>
  BY <1>1, <1>3, EmptySeq
<1>6. Tail(q) \in Seq(C) /\ Len(Tail(q)) = n - 1 /\ \A k \in 1..(n - 1) : Tail(q)[k] = q[k + 1]
  BY <1>3, <1>5, HeadTailProperties
<1>7. Head(q) = q[1]
  BY <1>3, <1>5
<1>8. Head(q) = B[r]
  BY <1>1, <1>2, <1>3, <1>7
<1>9. ASSUME NEW k \in 1..(n - 1) PROVE q2[k] = Tail(q)[k]
  <2>1. k - 1 \in 0..(Size - 1) /\ (k - 1) + 1 < Size /\ (k - 1) + 1 = k /\ (k + 1) - 1 = k /\ k + 1 \in 1..n
    BY <1>0, <1>1
  <2>2. Nth(Succ(r), k - 1) = Nth(r, k)
    BY <2>1, NthFacts
  <2>3. Tail(q)[k] = q[k + 1] /\ q[k + 1] = B[Nth(r, (k + 1) - 1)]
    BY <1>3, <1>6, <2>1
  <2>4. q2[k] = B[Nth(Succ(r), k - 1)]
    BY <1>1, <1>4
  <2> QED
    BY <2>1, <2>2, <2>3, <2>4
<1>10. Len(q2) = Len(Tail(q)) /\ \A k \in 1..Len(q2) : q2[k] = Tail(q)[k]
  BY <1>1, <1>4, <1>6, <1>9
<1>11. q2 = Tail(q)
  BY <1>4, <1>6, <1>10, SeqEqual
<1> QED
  BY <1>5, <1>8, <1>11 DEF n, n2, q, q2
-----------------------------------------------------------------------------
(* What the ring says of the modifiers *)

Roomy(r, w, l) == Ahead(r, w, l) < Size - 1 + l

OneMore(B, B2, r, n, n2, l, c) ==
    /\ n \in 0..(Size - 1) /\ n2 = n + 1
    /\ B2[Nth(r, n)] = c
    /\ \A k \in 0..(n - 1) : B2[Nth(r, k)] = B[Nth(r, k)]
    /\ l = 1 => B2[r] = B[r]

(* An arrival that finds room. *)
LEMMA PutPlaces ==
    ASSUME NEW B \in Rings, NEW B2, NEW r \in Places, NEW w \in Places, NEW l \in {0, 1},
           NEW c \in Codes, Written(B2, B, w, c), Roomy(r, w, l)
    PROVE  OneMore(B, B2, r, Ahead(r, w, l), Ahead(r, Succ(w), l), l, c)
<1> DEFINE n == Ahead(r, w, l)
<1>1. Size \in Nat /\ Size > 1
  BY SizeAssumption
<1>2. n \in Nat /\ l <= n /\ w = Nth(r, n) /\ Ahead(r, Succ(w), l) = n + 1
  BY AheadFacts DEF Roomy
<1> HIDE DEF n
<1>3. n < Size - 1 + l /\ n \in 0..(Size - 1)
  <2>1. n < Size - 1 + l
    BY DEF n, Roomy
  <2> QED
    BY <1>1, <1>2, <2>1
<1>4. B2[w] = c /\ \A p \in Places : p # w => B2[p] = B[p]
  BY DEF Written, Rings
<1>5. ASSUME NEW k \in 0..(n - 1) PROVE B2[Nth(r, k)] = B[Nth(r, k)]
  <2>1. k \in 0..(Size - 1) /\ k # n
    BY <1>1, <1>3
  <2>2. Nth(r, k) \in Places /\ Nth(r, k) # w
    BY <1>2, <1>3, <2>1, NthFacts
  <2> QED
    BY <1>4, <2>2
<1>6. ASSUME l = 1 PROVE B2[r] = B[r]
  <2>1. 0 \in 0..(n - 1) /\ 0 \in 0..(Size - 1)
    BY <1>1, <1>2, <1>6
  <2> QED
    BY <1>5, <2>1, NthFacts
<1> QED
  BY <1>2, <1>3, <1>4, <1>5, <1>6 DEF n, OneMore

LEMMA ReflectsPut ==
    ASSUME NEW B \in Rings, NEW B2, NEW r \in Places, NEW w \in Places, NEW l \in {0, 1},
           NEW c \in Codes, Written(B2, B, w, c), Roomy(r, w, l),
           NEW F, NEW H, NEW H2, Follows(c, H, H2), Reflects(B, r, Ahead(r, w, l), F, H)
    PROVE  Reflects(B2, r, Ahead(r, Succ(w), l), F, H2)
<1> DEFINE n == Ahead(r, w, l)
<1>1. /\ n \in 0..(Size - 1) /\ Ahead(r, Succ(w), l) = n + 1
      /\ B2[Nth(r, n)] = c
      /\ \A k \in 0..(n - 1) : B2[Nth(r, k)] = B[Nth(r, k)]
  <2>1. OneMore(B, B2, r, Ahead(r, w, l), Ahead(r, Succ(w), l), l, c)
    BY PutPlaces
  <2> QED
    BY <2>1 DEF OneMore
<1>2. Reflects(B, r, n, F, H)
  OBVIOUS
<1> HIDE DEF n
<1>3. n \in Nat /\ n \in 0..((n + 1) - 1)
  BY <1>1, SizeAssumption
<1>4. \A k \in 0..((n + 1) - 1) : k = n \/ k \in 0..(n - 1)
  BY <1>3
<1>5. \A k \in 0..(n - 1) : k \in 0..((n + 1) - 1) /\ (\A j \in (k + 1)..((n + 1) - 1) : j = n \/ j \in (k + 1)..(n - 1))
  BY <1>3
<1>6. \A j \in (n + 1)..((n + 1) - 1) : FALSE
  BY <1>3
<1>7. ASSUME NEW m \in Modifiers
      PROVE  \/ \E k \in 0..((n + 1) - 1) : Last(B2, r, n + 1, m, k) /\ (B2[Nth(r, k)][2] <=> m \in H2)
             \/ (\A k \in 0..((n + 1) - 1) : B2[Nth(r, k)][1] # m) /\ (m \in F <=> m \in H2)
  <2>1. CASE m = c[1]
    <3>1. Last(B2, r, n + 1, m, n)
      BY <1>1, <1>6, <2>1 DEF Last
    <3>2. B2[Nth(r, n)][2] <=> m \in H2
      BY <1>1, <2>1 DEF Follows
    <3> QED
      BY <1>3, <3>1, <3>2
  <2>2. CASE m # c[1]
    <3>1. m \in H2 <=> m \in H
      BY <2>2 DEF Follows
    <3>2. CASE \E k \in 0..(n - 1) : Last(B, r, n, m, k) /\ (B[Nth(r, k)][2] <=> m \in H)
      <4>1. PICK k \in 0..(n - 1) : Last(B, r, n, m, k) /\ (B[Nth(r, k)][2] <=> m \in H)
        BY <3>2
      <4>2. k \in Int
        OBVIOUS
      <4>3. \A j \in (k + 1)..(n - 1) : j \in 0..(n - 1)
        BY <1>3
      <4>4. Last(B2, r, n + 1, m, k)
        BY <1>1, <1>5, <2>2, <4>1, <4>3 DEF Last
      <4>5. B2[Nth(r, k)][2] <=> m \in H2
        BY <1>1, <3>1, <4>1
      <4> QED
        BY <1>5, <4>4, <4>5
    <3>3. CASE (\A k \in 0..(n - 1) : B[Nth(r, k)][1] # m) /\ (m \in F <=> m \in H)
      BY <1>1, <1>4, <2>2, <3>1, <3>3
    <3> QED
      BY <1>2, <3>2, <3>3 DEF Reflects
  <2> QED
    BY <2>1, <2>2
<1> QED
  BY <1>1, <1>7 DEF Reflects

(* What is left when the first has been dealt with. *)
LEMMA GetPlaces ==
    ASSUME NEW r \in Places, NEW w \in Places
    PROVE  /\ Ahead(r, w, 1) \in 1..Size /\ Ahead(Succ(r), w, 0) = Ahead(r, w, 1) - 1
           /\ \A k \in 0..(Ahead(r, w, 1) - 2) : Nth(Succ(r), k) = Nth(r, k + 1)
           /\ Nth(r, 0) = r /\ Succ(r) \in Places
<1>1. Size \in Nat /\ Size > 1 /\ 0 \in 0..(Size - 1)
  BY SizeAssumption
<1>2. Ahead(r, w, 1) \in 1..Size /\ Ahead(Succ(r), w, 0) = Ahead(r, w, 1) - 1
  BY <1>1, AheadFacts
<1>3. \A k \in 0..(Ahead(r, w, 1) - 2) : k \in 0..(Size - 1) /\ k + 1 < Size
  BY <1>1, <1>2
<1> QED
  BY <1>1, <1>2, <1>3, NthFacts

LEMMA ReflectsGet ==
    ASSUME NEW B \in Rings, NEW r \in Places, NEW w \in Places, NEW F, NEW F2, NEW H,
           Follows(B[r], F, F2), Reflects(B, r, Ahead(r, w, 1), F, H)
    PROVE  Reflects(B, Succ(r), Ahead(Succ(r), w, 0), F2, H)
<1> DEFINE n == Ahead(r, w, 1)
<1>1. /\ n \in 1..Size /\ Ahead(Succ(r), w, 0) = n - 1
      /\ \A k \in 0..(n - 2) : Nth(Succ(r), k) = Nth(r, k + 1)
      /\ Nth(r, 0) = r
  BY GetPlaces
<1>2. Reflects(B, r, n, F, H)
  OBVIOUS
<1> HIDE DEF n
<1>3. n \in Nat /\ 0 \in 0..(n - 1)
  BY <1>1, SizeAssumption
<1>4. \A k \in 0..((n - 1) - 1) : k + 1 \in 0..(n - 1) /\ k + 1 # 0 /\ Nth(Succ(r), k) = Nth(r, k + 1)
  BY <1>1, <1>3
<1>5. ASSUME NEW m \in Modifiers
      PROVE  \/ \E k \in 0..((n - 1) - 1) : Last(B, Succ(r), n - 1, m, k) /\ (B[Nth(Succ(r), k)][2] <=> m \in H)
             \/ (\A k \in 0..((n - 1) - 1) : B[Nth(Succ(r), k)][1] # m) /\ (m \in F2 <=> m \in H)
  <2>1. CASE \E k \in 0..(n - 1) : Last(B, r, n, m, k) /\ (B[Nth(r, k)][2] <=> m \in H)
    <3>1. PICK k \in 0..(n - 1) : Last(B, r, n, m, k) /\ (B[Nth(r, k)][2] <=> m \in H)
      BY <2>1
    <3>2. CASE k = 0
      <4>1. m = B[r][1] /\ (B[r][2] <=> m \in H)
        BY <1>1, <3>1, <3>2 DEF Last
      <4>2. m \in F2 <=> m \in H
        BY <4>1 DEF Follows
      <4>3. \A j \in 0..((n - 1) - 1) : j + 1 \in (0 + 1)..(n - 1)
        BY <1>3
      <4>4. \A j \in 0..((n - 1) - 1) : B[Nth(Succ(r), j)][1] # m
        BY <1>4, <3>1, <3>2, <4>3 DEF Last
      <4> QED
        BY <4>2, <4>4
    <3>3. CASE k # 0
      <4> DEFINE i == k - 1
      <4>1. i \in 0..((n - 1) - 1) /\ i + 1 = k
        BY <1>3, <3>3
      <4>2. \A j \in (i + 1)..((n - 1) - 1) : j \in 0..((n - 1) - 1) /\ j + 1 \in (k + 1)..(n - 1)
        BY <1>3, <4>1
      <4> HIDE DEF i
      <4>3. B[Nth(Succ(r), i)] = B[Nth(r, k)]
        BY <1>4, <4>1
      <4>4. Last(B, Succ(r), n - 1, m, i)
        BY <1>4, <3>1, <4>2, <4>3 DEF Last
      <4> QED
        BY <3>1, <4>1, <4>3, <4>4
    <3> QED
      BY <3>2, <3>3
  <2>2. CASE (\A k \in 0..(n - 1) : B[Nth(r, k)][1] # m) /\ (m \in F <=> m \in H)
    <3>1. m # B[r][1]
      BY <1>1, <1>3, <2>2
    <3>2. m \in F2 <=> m \in H
      BY <2>2, <3>1 DEF Follows
    <3> QED
      BY <1>4, <2>2, <3>2
  <2> QED
    BY <1>2, <2>1, <2>2 DEF Reflects
<1> QED
  BY <1>1, <1>5 DEF Reflects
-----------------------------------------------------------------------------
(* The screen *)

Xs == 0..(VGA_WIDTH - 1)
Ys == 0..(VGA_HEIGHT - 1)
Screens == [x : Xs, y : Ys, cache : [Cells -> Chars]]

LEMMA SizesFacts == VGA_WIDTH \in Nat \ {0} /\ VGA_HEIGHT \in Nat \ {0} /\ " " \in Chars /\ ">" \in Chars /\ "o" \in Chars
BY ScreenAssumption DEF Chars

LEMMA PlaceFacts ==
    /\ 0 \in Xs /\ 0 \in Ys /\ VGA_WIDTH - 1 \in Xs
    /\ \A x \in Xs : (x > 0 => x - 1 \in Xs) /\ (x < VGA_WIDTH - 1 => x + 1 \in Xs)
    /\ \A y \in Ys : (y > 0 => y - 1 \in Ys) /\ (y < VGA_HEIGHT - 1 => y + 1 \in Ys)
<1>1. VGA_WIDTH \in Nat /\ VGA_WIDTH # 0 /\ VGA_HEIGHT \in Nat /\ VGA_HEIGHT # 0
  BY SizesFacts
<1>2. VGA_WIDTH \in Int /\ VGA_WIDTH >= 1 /\ VGA_HEIGHT \in Int /\ VGA_HEIGHT >= 1
  BY <1>1
<1> QED
  BY <1>2 DEF Xs, Ys

LEMMA MoveScreen ==
    ASSUME NEW s \in Screens, NEW x \in Xs, NEW y \in Ys
    PROVE  /\ [s EXCEPT !.x = x] \in Screens
           /\ [s EXCEPT !.x = x, !.y = y] \in Screens
           /\ s.x \in Xs /\ s.y \in Ys
BY DEF Screens

LEMMA PaintScreen ==
    ASSUME NEW s \in Screens, NEW p, NEW c \in Chars
    PROVE  [s EXCEPT !.cache[p] = c] \in Screens
BY DEF Screens

LEMMA ScrollScreen ==
    ASSUME NEW s \in Screens, NEW x \in Xs
    PROVE  [s EXCEPT !.x = x, !.cache = Scrolled(@)] \in Screens
<1>1. Scrolled(s.cache) \in [Cells -> Chars]
  <2>1. s.cache \in [Cells -> Chars]
    BY DEF Screens
  <2>2. \A p \in Cells : (IF p + VGA_WIDTH \in Cells THEN s.cache[p + VGA_WIDTH] ELSE " ") \in Chars
    BY <2>1, SizesFacts
  <2> QED
    BY <2>2 DEF Scrolled
<1> QED
  BY <1>1 DEF Screens

LEMMA NextLineScreen ==
    ASSUME NEW s \in Screens
    PROVE  NextLine(s) \in Screens
<1>1. CASE s.y < VGA_HEIGHT - 1
  <2>1. s.y + 1 \in Ys
    BY <1>1, PlaceFacts, MoveScreen
  <2> QED
    BY <1>1, <2>1, PlaceFacts, MoveScreen DEF NextLine
<1>2. CASE ~(s.y < VGA_HEIGHT - 1)
  BY <1>2, PlaceFacts, ScrollScreen DEF NextLine
<1> QED
  BY <1>1, <1>2

LEMMA NextCellScreen ==
    ASSUME NEW s \in Screens
    PROVE  NextCell(s) \in Screens
<1>1. CASE s.x < VGA_WIDTH - 1
  <2>1. s.x + 1 \in Xs
    BY <1>1, PlaceFacts, MoveScreen
  <2> QED
    BY <1>1, <2>1, PlaceFacts, MoveScreen DEF NextCell
<1>2. CASE ~(s.x < VGA_WIDTH - 1)
  BY <1>2, NextLineScreen DEF NextCell
<1> QED
  BY <1>1, <1>2

LEMMA PutScreen ==
    ASSUME NEW s \in Screens, NEW c, c \in Chars \/ c = "\n"
    PROVE  tputc(s, c) \in Screens
<1>1. CASE c = "\n"
  BY <1>1, NextLineScreen DEF tputc
<1>2. CASE c # "\n"
  <2>1. [s EXCEPT !.cache[Pos(s)] = c] \in Screens
    BY <1>2, PaintScreen
  <2> QED
    BY <1>2, <2>1, NextCellScreen DEF tputc
<1> QED
  BY <1>1, <1>2

LEMMA BackspaceScreen ==
    ASSUME NEW s \in Screens
    PROVE  Backspace(s) \in Screens
<1> DEFINE moved == IF s.x > 0 THEN [s EXCEPT !.x = @ - 1]
                    ELSE IF s.y > 0 THEN [s EXCEPT !.x = VGA_WIDTH - 1, !.y = @ - 1]
                    ELSE s
<1>1. moved \in Screens
  <2>1. CASE s.x > 0
    <3>1. s.x - 1 \in Xs
      BY <2>1, PlaceFacts, MoveScreen
    <3> QED
      BY <2>1, <3>1, PlaceFacts, MoveScreen
  <2>2. CASE ~(s.x > 0) /\ s.y > 0
    <3>1. s.y - 1 \in Ys
      BY <2>2, PlaceFacts, MoveScreen
    <3> QED
      BY <2>2, <3>1, PlaceFacts, MoveScreen
  <2>3. CASE ~(s.x > 0) /\ ~(s.y > 0)
    BY <2>3
  <2> QED
    BY <2>1, <2>2, <2>3
<1>2. Backspace(s) = [moved EXCEPT !.cache[Pos(moved)] = " "]
  BY DEF Backspace
<1> HIDE DEF moved
<1>3. [moved EXCEPT !.cache[Pos(moved)] = " "] \in Screens
  BY <1>1, SizesFacts DEF Screens
<1> QED
  BY <1>2, <1>3

LEMMA ClearedScreen == Cleared \in Screens
BY PlaceFacts, SizesFacts DEF Screens, Cleared, Blank

LEMMA CursorFacts ==
    ASSUME NEW s \in Screens
    PROVE  /\ s.cache \in [Cells -> Chars \cup {CursorCell}]
           /\ WithCursor(s) \in [Cells -> Chars \cup {CursorCell}]
BY DEF Screens, WithCursor
-----------------------------------------------------------------------------
(* The steps, and what KeyQueue says of them *)

Frames == [at : {"none", "put", "store", "load", "move"}, c : Codes \cup {NoCode}, i : Places]

LEMMA TypeOKIs ==
    TypeOK <=>
        /\ buffer \in Rings /\ rindex \in Places /\ windex \in Places
        /\ pc \in {"print", "wait", "get", "got"} /\ code \in Codes \cup {NoCode}
        /\ flags \subseteq Modifiers /\ held \subseteq Keys
        /\ line \in Seq(Chars) /\ Len(line) < MaxLineLen
        /\ scr \in Screens /\ vga \in [Cells -> Chars \cup {CursorCell}]
        /\ open \in BOOLEAN /\ torn \in BOOLEAN /\ frame \in [Handlers -> Frames]
        /\ overrun \in BOOLEAN /\ typed \in 0..MaxTyped /\ printed \in 0..MaxPrinted
BY DEF TypeOK, Rings, Screens, Xs, Ys, Frames

LEMMA SuccPlace == ASSUME NEW i \in Places PROVE Succ(i) \in Places
BY SizeAssumption DEF Succ, Places

LEMMA InitStep ==
    ASSUME Init
    PROVE  IInv /\ Promise!Init
<1>1. 0 \in Places /\ Ahead(0, 0, 0) = 0
  BY SizeAssumption DEF Places, Ahead
<1>2. Busy = 0 /\ Least = 0 /\ From = 0 /\ rindex = 0 /\ windex = 0
  BY DEF Init, Busy, Least, From
<1>3. Count = 0 /\ Ahead(From, windex, Least) = 0
  BY <1>1, <1>2 DEF Count
<1>4. TypeOK
  <2>1. buffer \in Rings /\ flags \subseteq Modifiers /\ held \subseteq Keys
    BY CodeAssumption DEF Init, Rings
  <2>2. line \in Seq(Chars) /\ Len(line) = 0 /\ 0 < MaxLineLen
    BY ScreenAssumption DEF Init
  <2>3. typed \in 0..MaxTyped /\ printed \in 0..MaxPrinted
    BY ScreenAssumption DEF Init
  <2>4. scr \in Screens /\ vga \in [Cells -> Chars \cup {CursorCell}]
    BY ClearedScreen, SizesFacts DEF Init, Blank
  <2>5. pc = "print" /\ code = NoCode /\ overrun = FALSE /\ open = FALSE /\ torn = FALSE
    BY DEF Init
  <2>6. frame \in [Handlers -> Frames]
    <3>1. NoFrame \in Frames
      BY <1>1 DEF NoFrame, Frames
    <3> QED
      BY <3>1 DEF Init
  <2> QED
    BY <1>1, <1>2, <2>1, <2>2, <2>3, <2>4, <2>5, <2>6, TypeOKIs
<1>5. Suspended = {} /\ Told(held) /\ Handled
  <2>1. Suspended = {}
    BY DEF Init, Suspended
  <2> QED
    BY <2>1 DEF Init, Told, Handled
<1>6. Reflects(buffer, rindex, 0, flags, held)
  BY DEF Init, Reflects
<1>7. IInv
  <2>1. Meant
    BY <1>3, <1>4, <1>5, <1>6, TypeOKIs DEF Meant, Init
  <2> QED
    BY <1>4, <1>5, <2>1 DEF IInv, Init, ScreenTrue
<1>8. Pending = <<>>
  <2>1. 0 \in 0..Size /\ buffer \in [Places -> {ZeroCode}]
    BY SizeAssumption DEF Init
  <2>2. Unread(buffer, 0, 0) \in Seq({ZeroCode}) /\ Len(Unread(buffer, 0, 0)) = 0
    BY <1>1, <2>1, UnreadFacts
  <2>3. Pending = Unread(buffer, 0, 0)
    BY <1>2, <1>3 DEF Pending
  <2> QED
    BY <2>2, <2>3, EmptySeq
<1> QED
  BY <1>7, <1>8 DEF Promise!Init, Init

(* Pending and Count, by what the shell is doing. *)
LEMMA PcFacts ==
    /\ pc \in {"print", "wait"} => From = rindex /\ Least = 0 /\ Busy = 0 /\ Promise!Room = Size - 1
    /\ pc = "get" => From = rindex /\ Least = 1 /\ Busy = 1 /\ Promise!Room = Size
    /\ pc = "got" => From = Succ(rindex) /\ Least = 0 /\ Busy = 1 /\ Promise!Room = Size - 1
BY DEF From, Least, Busy, Promise!Room

LEMMA PendingFacts ==
    ASSUME TypeOK
    PROVE  /\ From \in Places /\ Least \in {0, 1} /\ Busy \in {0, 1}
           /\ Promise!Room = Size - 1 + Least
           /\ Pending \in Seq(Codes) /\ Len(Pending) = Ahead(From, windex, Least)
           /\ Count \in Nat /\ Count <= Size - 1 + Busy
           /\ ~Roomy(rindex, windex, Busy) => Len(Pending) = Promise!Room
<1>1. /\ buffer \in [Places -> Codes] /\ rindex \in Places /\ windex \in Places
      /\ pc \in {"print", "wait", "get", "got"}
  BY DEF TypeOK
<1>2. Succ(rindex) \in Places /\ Size \in Nat /\ Size > 1
  BY <1>1, SuccPlace, SizeAssumption
<1>3. From \in Places /\ Least \in {0, 1} /\ Busy \in {0, 1} /\ Promise!Room = Size - 1 + Least
  BY <1>1, <1>2, PcFacts
<1>4. Ahead(From, windex, Least) \in 0..Size
  BY <1>1, <1>2, <1>3, AheadFacts
<1>5. /\ Unread(buffer, From, Ahead(From, windex, Least)) \in Seq(Codes)
      /\ Len(Unread(buffer, From, Ahead(From, windex, Least))) = Ahead(From, windex, Least)
  BY <1>1, <1>3, <1>4, UnreadFacts
<1>6. Count \in Nat /\ Count <= Size - 1 + Busy
  BY <1>1, <1>3, AheadFacts DEF Count
<1>7. ASSUME ~Roomy(rindex, windex, Busy) PROVE Len(Pending) = Promise!Room
  <2>1. Count = Size - 1 + Busy
    BY <1>2, <1>3, <1>6, <1>7 DEF Roomy, Count
  <2>2. CASE pc = "got"
    <3>1. Ahead(Succ(rindex), windex, 0) = Ahead(rindex, windex, 1) - 1
      BY <1>1, AheadFacts
    <3> QED
      BY <1>2, <1>5, <2>1, <2>2, <3>1, PcFacts DEF Count, Pending
  <2>3. CASE pc # "got"
    <3>1. From = rindex /\ Least = Busy
      BY <1>1, <2>3, PcFacts
    <3> QED
      BY <1>3, <1>5, <2>1, <3>1 DEF Count, Pending
  <2> QED
    BY <2>2, <2>3
<1> QED
  BY <1>3, <1>5, <1>6, <1>7 DEF Pending

(* put, seen from KeyQueue and from what the shell will make of it. *)
LEMMA StoreRing ==
    ASSUME TypeOK, NEW c \in Codes, Store(c),
           rindex' = rindex, pc' = pc, code' = code
    PROVE  /\ buffer' \in Rings /\ windex' \in Places /\ overrun' \in BOOLEAN
           /\ Written(buffer', buffer, windex, c) /\ windex' = Succ(windex)
           /\ ~overrun' => ~overrun /\ Roomy(rindex, windex, Busy)
           /\ torn' = torn => Promise!Arrive(c)
<1>1. buffer \in Rings /\ rindex \in Places /\ windex \in Places /\ overrun \in BOOLEAN
  BY TypeOKIs
<1>2. /\ Written(buffer', buffer, windex, c) /\ windex' = Succ(windex)
      /\ overrun' = (overrun \/ Len(Pending) = Promise!Room)
  BY DEF Store, put, Written
<1>3. buffer' \in Rings /\ windex' \in Places /\ overrun' \in BOOLEAN
  BY <1>1, <1>2, SuccPlace DEF Written, Rings
<1>4. ~overrun' => ~overrun /\ Roomy(rindex, windex, Busy)
  BY <1>2, PendingFacts
<1>5. ASSUME torn' = torn PROVE Promise!Arrive(c)
  <2>1. Pending' = Unread(buffer', From, Ahead(From, Succ(windex), Least))
    BY <1>2 DEF Pending, From, Least
  <2>2. From \in Places /\ Least \in {0, 1} /\ Promise!Room = Size - 1 + Least
        /\ Len(Pending) = Ahead(From, windex, Least)
    BY PendingFacts
  <2>3. Pending' = Added(Pending, Ahead(From, windex, Least), Least, c)
    <3>1. Unread(buffer', From, Ahead(From, Succ(windex), Least))
              = Added(Unread(buffer, From, Ahead(From, windex, Least)), Ahead(From, windex, Least), Least, c)
      BY <1>1, <1>2, <2>2, PutQueue
    <3> QED
      BY <2>1, <3>1 DEF Pending
  <2>4. Least = 1 <=> pc = "get"
    BY DEF Least
  <2> QED
    BY <1>5, <2>2, <2>3, <2>4 DEF Promise!Arrive, Added
<1> QED
  BY <1>2, <1>3, <1>4, <1>5

LEMMA StoreReflects ==
    ASSUME TypeOK, NEW c \in Codes, Store(c), ~overrun',
           rindex' = rindex, pc' = pc, code' = code, flags' = flags,
           pc = "got" => code = buffer[rindex],
           NEW H, NEW H2, Follows(c, H, H2), Reflects(buffer, rindex, Count, flags, H)
    PROVE  /\ Reflects(buffer', rindex', Count', flags', H2)
           /\ pc' = "got" => code' = buffer'[rindex']
<1>1. buffer \in Rings /\ rindex \in Places /\ windex \in Places /\ Busy \in {0, 1}
  BY TypeOKIs, PendingFacts
<1>2. /\ Written(buffer', buffer, windex, c) /\ windex' = Succ(windex)
      /\ Roomy(rindex, windex, Busy)
  BY StoreRing
<1>3. Count' = Ahead(rindex, Succ(windex), Busy) /\ Count = Ahead(rindex, windex, Busy)
  BY <1>2 DEF Count, Busy
<1>4. Reflects(buffer', rindex, Ahead(rindex, Succ(windex), Busy), flags, H2)
  <2>1. Reflects(buffer, rindex, Ahead(rindex, windex, Busy), flags, H)
    BY <1>3
  <2> QED
    BY <1>1, <1>2, <2>1, ReflectsPut
<1>5. OneMore(buffer, buffer', rindex, Ahead(rindex, windex, Busy), Ahead(rindex, Succ(windex), Busy), Busy, c)
  BY <1>1, <1>2, PutPlaces
<1>6. ASSUME pc = "got" PROVE code = buffer'[rindex]
  <2>1. Busy = 1
    BY <1>6, PcFacts
  <2> QED
    BY <1>5, <1>6, <2>1 DEF OneMore
<1> QED
  BY <1>3, <1>4, <1>6

(* What a step of a handler leaves alone. *)
Elsewhere ==
    /\ rindex' = rindex /\ pc' = pc /\ code' = code /\ open' = open
    /\ flags' = flags /\ line' = line /\ scr' = scr /\ vga' = vga /\ printed' = printed

LEMMA HandlerInv ==
    ASSUME IInv, Elsewhere, Handled',
           buffer' \in Rings, windex' \in Places, held' \subseteq Keys,
           torn' \in BOOLEAN, overrun' \in BOOLEAN, frame' \in [Handlers -> Frames],
           typed' \in 0..MaxTyped,
           ~overrun' /\ ~torn' => Meant'
    PROVE  IInv'
<1>1. TypeOK'
  BY DEF IInv, TypeOK, Rings, Frames, Elsewhere
<1>2. ScreenTrue'
  BY DEF IInv, ScreenTrue, WithCursor, Pos, Elsewhere
<1> QED
  BY <1>1, <1>2 DEF IInv, Elsewhere

LEMMA KeystrokeFacts ==
    ASSUME IInv, NEW key \in Keys, NEW down \in BOOLEAN, Keystroke(key, down)
    PROVE  /\ Elsewhere /\ <<key, down>> \in Codes
           /\ held' \subseteq Keys /\ typed' \in 0..MaxTyped /\ torn' \in BOOLEAN
           /\ torn => torn'
           /\ ~torn' => Suspended = {} /\ ~torn
           /\ torn' => torn \/ Suspended # {}
           /\ Follows(<<key, down>>, held, held')
<1>1. TypeOK /\ held \subseteq Keys /\ typed \in 0..MaxTyped /\ torn \in BOOLEAN
  BY TypeOKIs DEF IInv
<1>2. <<key, down>> \in Codes
  BY DEF Codes
<1>3. typed' \in 0..MaxTyped
  <2>1. typed < MaxTyped /\ typed' = typed + 1
    BY DEF Keystroke
  <2> QED
    BY <1>1, <2>1, ScreenAssumption
<1>4. held' = IF down THEN held \cup {key} ELSE held \ {key}
  BY DEF Keystroke
<1>5. Follows(<<key, down>>, held, held')
  <2>1. ASSUME NEW m \in Modifiers
        PROVE  IF m = key THEN (m \in held' <=> down) ELSE (m \in held' <=> m \in held)
    BY <1>4
  <2> QED
    BY <2>1 DEF Follows
<1>6. torn' = (torn \/ Suspended # {})
  BY DEF Keystroke
<1>7. Elsewhere
  BY DEF Keystroke, Elsewhere, lineVars
<1>8. held' \subseteq Keys
  BY <1>1, <1>4
<1> QED
  BY <1>1, <1>2, <1>3, <1>5, <1>6, <1>7, <1>8

LEMMA KeyStep ==
    ASSUME IInv, NEW key \in Keys, NEW down \in BOOLEAN, KeyboardInterrupt(key, down)
    PROVE  IInv' /\ Promise!Next
<1> DEFINE c == <<key, down>>
<1>1. /\ Keystroke(key, down) /\ Store(c) /\ frame' = frame
  BY DEF KeyboardInterrupt
<1>2. /\ Elsewhere /\ c \in Codes
      /\ held' \subseteq Keys /\ typed' \in 0..MaxTyped /\ torn' \in BOOLEAN
      /\ torn => torn'
      /\ ~torn' => Suspended = {} /\ ~torn
      /\ torn' => torn \/ Suspended # {}
      /\ Follows(c, held, held')
  BY <1>1, KeystrokeFacts
<1> HIDE DEF c
<1>3. TypeOK /\ Handled /\ frame \in [Handlers -> Frames] /\ torn \in BOOLEAN /\ held \subseteq Keys
  BY TypeOKIs DEF IInv
<1>4. rindex' = rindex /\ pc' = pc /\ code' = code /\ flags' = flags /\ open' = open
  BY <1>2 DEF Elsewhere
<1>5. /\ buffer' \in Rings /\ windex' \in Places /\ overrun' \in BOOLEAN
      /\ ~overrun' => ~overrun
      /\ torn' = torn => Promise!Arrive(c)
  BY <1>1, <1>2, <1>3, <1>4, StoreRing
<1>6. Suspended' = Suspended
  BY <1>1 DEF Suspended
<1>7. Handled'
  <2>1. ~open' => Suspended' = {} /\ ~torn'
    BY <1>2, <1>3, <1>4, <1>6 DEF Handled
  <2>2. \A h \in Suspended' : frame'[h].at # "none" /\ frame'[h].c \in Codes /\ (frame'[h].at = "put" \/ torn')
    BY <1>1, <1>2, <1>3, <1>6 DEF Handled
  <2> QED
    BY <1>2, <1>6, <2>1, <2>2 DEF Handled
<1>8. ASSUME ~overrun', ~torn' PROVE Meant'
  <2>1. ~overrun /\ ~torn /\ Suspended = {}
    BY <1>2, <1>5, <1>8
  <2>2. Meant
    BY <2>1 DEF IInv
  <2>3. (pc = "got" => code = buffer[rindex]) /\ Reflects(buffer, rindex, Count, flags, held)
    BY <2>1, <2>2 DEF Meant, Told
  <2>4. Reflects(buffer', rindex', Count', flags', held') /\ (pc' = "got" => code' = buffer'[rindex'])
    BY <1>1, <1>2, <1>3, <1>4, <1>8, <2>3, StoreReflects
  <2>5. Told(held)'
    BY <1>6, <2>1 DEF Told
  <2> QED
    BY <1>2, <2>4, <2>5 DEF Meant, Told
<1>9. IInv'
  BY <1>1, <1>2, <1>3, <1>5, <1>7, <1>8, HandlerInv
<1>10. Promise!Next
  <2>1. torn' = torn \/ torn' = TRUE
    BY <1>2, <1>3
  <2> QED
    BY <1>2, <1>5, <2>1 DEF Promise!Next, Promise!Break
<1> QED
  BY <1>9, <1>10

(* A handler's frame, and those that are suspended then. *)
LEMMA FrameFacts ==
    ASSUME IInv, NEW h \in Handlers, NEW f \in Frames, frame' = [frame EXCEPT ![h] = f]
    PROVE  /\ frame' \in [Handlers -> Frames] /\ frame'[h] = f
           /\ \A g \in Handlers : g # h => frame'[g] = frame[g]
           /\ Suspended' = IF f = NoFrame THEN Suspended \ {h} ELSE Suspended \cup {h}
<1>1. frame \in [Handlers -> Frames]
  BY TypeOKIs DEF IInv
<1>2. /\ frame' \in [Handlers -> Frames] /\ frame'[h] = f
      /\ \A g \in Handlers : g # h => frame'[g] = frame[g]
  BY <1>1
<1>3. \A g \in Handlers : g \in Suspended' <=> frame'[g] # NoFrame
  BY DEF Suspended
<1>4. \A g \in Handlers : g \in Suspended <=> frame[g] # NoFrame
  BY DEF Suspended
<1>5. Suspended' \subseteq Handlers /\ Suspended \subseteq Handlers
  BY DEF Suspended
<1>6. CASE f = NoFrame
  BY <1>2, <1>3, <1>4, <1>5, <1>6
<1>7. CASE f # NoFrame
  BY <1>2, <1>3, <1>4, <1>5, <1>7
<1> QED
  BY <1>2, <1>6, <1>7

LEMMA ReadStep ==
    ASSUME IInv, NEW key \in Keys, NEW down \in BOOLEAN, NEW h \in Handlers, ReadScancode(h, key, down)
    PROVE  IInv' /\ [Promise!Next]_Promise!qvars
<1> DEFINE c == <<key, down>>
           f == [at |-> "put", c |-> c, i |-> 0]
<1>1. /\ Keystroke(key, down) /\ open /\ frame[h] = NoFrame /\ frame' = [frame EXCEPT ![h] = f]
      /\ buffer' = buffer /\ windex' = windex /\ overrun' = overrun
  BY DEF ReadScancode
<1>2. /\ Elsewhere /\ c \in Codes
      /\ held' \subseteq Keys /\ typed' \in 0..MaxTyped /\ torn' \in BOOLEAN
      /\ torn => torn'
      /\ ~torn' => Suspended = {} /\ ~torn
      /\ torn' => torn \/ Suspended # {}
      /\ Follows(c, held, held')
  BY <1>1, KeystrokeFacts
<1> HIDE DEF c
<1>3. /\ TypeOK /\ Handled /\ buffer \in Rings /\ windex \in Places /\ overrun \in BOOLEAN
      /\ torn \in BOOLEAN /\ held \subseteq Keys
  BY TypeOKIs DEF IInv
<1>4. rindex' = rindex /\ pc' = pc /\ code' = code /\ flags' = flags /\ open' = open
  BY <1>2 DEF Elsewhere
<1>5. f \in Frames /\ f # NoFrame /\ f.at = "put" /\ f.c = c
  <2>1. 0 \in Places
    BY SizeAssumption DEF Places
  <2> QED
    BY <1>2, <2>1 DEF Frames, NoFrame
<1> HIDE DEF f
<1>6. /\ frame' \in [Handlers -> Frames] /\ frame'[h] = f
      /\ \A g \in Handlers : g # h => frame'[g] = frame[g]
      /\ Suspended' = Suspended \cup {h}
  BY <1>1, <1>5, FrameFacts
<1>7. Suspended \subseteq Handlers /\ h \notin Suspended
  BY <1>1 DEF Suspended
<1>8. Handled'
  <2>1. \A g \in Suspended' : frame'[g].at # "none" /\ frame'[g].c \in Codes /\ (frame'[g].at = "put" \/ torn')
    BY <1>2, <1>3, <1>5, <1>6, <1>7 DEF Handled
  <2>2. ~torn' => \A g, i \in Suspended' : g = i
    BY <1>2, <1>6
  <2> QED
    BY <1>1, <1>4, <2>1, <2>2 DEF Handled
<1>9. Count' = Count
  BY <1>1, <1>4 DEF Count, Busy
<1>10. ASSUME ~overrun', ~torn' PROVE Meant'
  <2>1. ~overrun /\ ~torn /\ Suspended = {}
    BY <1>1, <1>2, <1>10
  <2>2. Meant
    BY <2>1 DEF IInv
  <2>3. (pc = "got" => code = buffer[rindex]) /\ Reflects(buffer, rindex, Count, flags, held)
    BY <2>1, <2>2 DEF Meant, Told
  <2>4. Suspended' = {h}
    BY <1>6, <2>1
  <2>5. \A g \in Suspended' : Follows(frame'[g].c, held, held')
    BY <1>2, <1>5, <1>6, <2>4
  <2>6. Reflects(buffer', rindex', Count', flags', held) /\ (pc' = "got" => code' = buffer'[rindex'])
    BY <1>1, <1>4, <1>9, <2>3
  <2>7. \E H \in SUBSET Keys : /\ IF Suspended' = {} THEN H = held' ELSE \A g \in Suspended' : Follows(frame'[g].c, H, held')
                               /\ Reflects(buffer', rindex', Count', flags', H)
    BY <1>3, <2>4, <2>5, <2>6
  <2> QED
    BY <2>6, <2>7 DEF Meant, Told
<1>11. IInv'
  BY <1>1, <1>2, <1>3, <1>6, <1>8, <1>10, HandlerInv
<1>12. Pending' = Pending
  BY <1>1, <1>4 DEF Pending, From, Least
<1>13. CASE torn' = torn
  BY <1>4, <1>11, <1>12, <1>13 DEF Promise!qvars
<1>14. CASE torn' = TRUE
  BY <1>11, <1>14 DEF Promise!Next, Promise!Break
<1> QED
  BY <1>2, <1>3, <1>13, <1>14

(* What a suspended handler starts from. *)
LEMMA ContinueFacts ==
    ASSUME IInv, NEW h \in Handlers, NEW from \in {"put", "store", "load", "move"}, NEW f, Continue(h, from, f)
    PROVE  /\ Elsewhere /\ held' = held /\ typed' = typed /\ frame' = [frame EXCEPT ![h] = f]
           /\ h \in Suspended /\ open
           /\ frame[h] \in Frames /\ frame[h].at = from /\ frame[h].c \in Codes /\ frame[h].i \in Places
           /\ from # "put" => torn
           /\ held \subseteq Keys /\ typed \in 0..MaxTyped
<1>1. /\ TypeOK /\ Handled /\ frame \in [Handlers -> Frames] /\ held \subseteq Keys
      /\ typed \in 0..MaxTyped
  BY TypeOKIs DEF IInv
<1>2. /\ Elsewhere /\ held' = held /\ typed' = typed /\ frame' = [frame EXCEPT ![h] = f]
      /\ frame[h].at = from
  BY DEF Continue, Elsewhere, lineVars
<1>3. h \in Suspended
  <2>1. frame[h] # NoFrame
    BY <1>2 DEF NoFrame
  <2> QED
    BY <2>1 DEF Suspended
<1>4. open /\ frame[h].c \in Codes /\ (from # "put" => torn)
  BY <1>1, <1>2, <1>3 DEF Handled
<1>5. frame[h] \in Frames
  BY <1>1
<1>6. frame[h].i \in Places
  BY <1>5 DEF Frames
<1> QED
  BY <1>1, <1>2, <1>3, <1>4, <1>5, <1>6

LEMMA ResumeStep ==
    ASSUME IInv, NEW h \in Handlers, Resume(h)
    PROVE  IInv' /\ Promise!Next
<1> DEFINE c == frame[h].c
<1>1. Continue(h, "put", NoFrame) /\ Store(c) /\ torn' = torn
  BY DEF Resume
<1>2. /\ Elsewhere /\ held' = held /\ typed' = typed /\ frame' = [frame EXCEPT ![h] = NoFrame]
      /\ h \in Suspended /\ open /\ c \in Codes
      /\ held \subseteq Keys /\ typed \in 0..MaxTyped
  BY <1>1, ContinueFacts
<1>3. TypeOK /\ Handled /\ torn \in BOOLEAN
  BY TypeOKIs DEF IInv
<1>4. rindex' = rindex /\ pc' = pc /\ code' = code /\ flags' = flags /\ open' = open
  BY <1>2 DEF Elsewhere
<1>5. /\ buffer' \in Rings /\ windex' \in Places /\ overrun' \in BOOLEAN
      /\ ~overrun' => ~overrun
      /\ Promise!Arrive(c)
  BY <1>1, <1>2, <1>3, <1>4, StoreRing
<1>6. /\ frame' \in [Handlers -> Frames]
      /\ \A g \in Handlers : g # h => frame'[g] = frame[g]
      /\ Suspended' = Suspended \ {h}
  <2>1. NoFrame \in Frames
    <3>1. 0 \in Places
      BY SizeAssumption DEF Places
    <3> QED
      BY <3>1 DEF Frames, NoFrame
  <2> QED
    BY <1>2, <2>1, FrameFacts
<1>7. Suspended \subseteq Handlers
  BY DEF Suspended
<1>8. Handled'
  <2>1. \A g \in Suspended' : frame'[g].at # "none" /\ frame'[g].c \in Codes /\ (frame'[g].at = "put" \/ torn')
    BY <1>1, <1>3, <1>6, <1>7 DEF Handled
  <2>2. ~torn' => \A g, i \in Suspended' : g = i
    BY <1>1, <1>3, <1>6 DEF Handled
  <2> QED
    BY <1>2, <1>4, <2>1, <2>2 DEF Handled
<1>9. ASSUME ~overrun', ~torn' PROVE Meant'
  <2>1. ~overrun /\ ~torn /\ Meant
    BY <1>1, <1>5, <1>9 DEF IInv
  <2>2. Suspended # {} /\ Suspended' = {}
    BY <1>2, <1>3, <1>6, <2>1 DEF Handled
  <2>3. PICK H \in SUBSET Keys : Told(H) /\ Reflects(buffer, rindex, Count, flags, H)
    BY <2>1 DEF Meant
  <2>4. Follows(c, H, held)
    BY <1>2, <2>2, <2>3 DEF Told
  <2>5. pc = "got" => code = buffer[rindex]
    BY <2>1 DEF Meant
  <2>6. Reflects(buffer', rindex', Count', flags', held) /\ (pc' = "got" => code' = buffer'[rindex'])
    BY <1>1, <1>2, <1>3, <1>4, <1>9, <2>3, <2>4, <2>5, StoreReflects
  <2>7. \E G \in SUBSET Keys : /\ IF Suspended' = {} THEN G = held' ELSE \A g \in Suspended' : Follows(frame'[g].c, G, held')
                               /\ Reflects(buffer', rindex', Count', flags', G)
    BY <1>2, <2>2, <2>6
  <2> QED
    BY <2>6, <2>7 DEF Meant, Told
<1>10. IInv'
  <2>1. held' \subseteq Keys /\ typed' \in 0..MaxTyped /\ torn' \in BOOLEAN
    BY <1>1, <1>2, <1>3
  <2> QED
    BY <1>2, <1>5, <1>6, <1>8, <1>9, <2>1, HandlerInv
<1> QED
  BY <1>2, <1>5, <1>10 DEF Promise!Next

(* The steps of a put that is suspended once more. *)
LEMMA TornStep ==
    ASSUME IInv, NEW h \in Handlers,
           LoadPlace(h) \/ StoreScancode(h) \/ LoadIndex(h) \/ StoreIndex(h)
    PROVE  IInv' /\ Promise!Next
<1>1. /\ TypeOK /\ Handled /\ buffer \in Rings /\ windex \in Places /\ overrun \in BOOLEAN
      /\ torn \in BOOLEAN /\ Succ(windex) \in Places
  BY TypeOKIs, SuccPlace DEF IInv
<1>2. ASSUME NEW from \in {"put", "store", "load", "move"}, NEW f \in Frames, Continue(h, from, f),
             f = NoFrame \/ (f.at # "none" /\ f.c \in Codes),
             buffer' \in Rings, windex' \in Places, overrun' = overrun, torn' = TRUE
      PROVE  IInv' /\ Promise!Next
  <2>1. /\ Elsewhere /\ held' = held /\ typed' = typed /\ frame' = [frame EXCEPT ![h] = f]
        /\ open /\ held \subseteq Keys /\ typed \in 0..MaxTyped
    BY <1>2, ContinueFacts
  <2>2. /\ frame' \in [Handlers -> Frames] /\ frame'[h] = f
        /\ \A g \in Handlers : g # h => frame'[g] = frame[g]
        /\ Suspended' = IF f = NoFrame THEN Suspended \ {h} ELSE Suspended \cup {h}
    BY <1>2, <2>1, FrameFacts
  <2>3. Suspended \subseteq Handlers /\ open'
    BY <2>1 DEF Suspended, Elsewhere
  <2>4. \A g \in Suspended' : frame'[g].at # "none" /\ frame'[g].c \in Codes
    BY <1>1, <1>2, <2>2, <2>3 DEF Handled
  <2>5. Handled'
    BY <1>2, <2>3, <2>4 DEF Handled
  <2>6. held' \subseteq Keys /\ typed' \in 0..MaxTyped /\ overrun' \in BOOLEAN /\ torn' \in BOOLEAN
    BY <1>1, <1>2, <2>1
  <2>7. IInv'
    BY <1>2, <2>1, <2>2, <2>5, <2>6, HandlerInv
  <2> QED
    BY <1>2, <2>7 DEF Promise!Next, Promise!Break
<1>3. CASE LoadPlace(h)
  <2> DEFINE f == [frame[h] EXCEPT !.at = "store", !.i = windex]
  <2>1. /\ Continue(h, "put", f) /\ torn' = TRUE
        /\ buffer' = buffer /\ windex' = windex /\ overrun' = overrun
    BY <1>3 DEF LoadPlace
  <2>2. frame[h] \in Frames /\ frame[h].c \in Codes
    BY <2>1, ContinueFacts
  <2>3. f \in Frames /\ f.at # "none" /\ f.c \in Codes
    BY <1>1, <2>2 DEF Frames
  <2> HIDE DEF f
  <2> QED
    BY <1>1, <1>2, <2>1, <2>3
<1>4. CASE StoreScancode(h)
  <2> DEFINE f == [frame[h] EXCEPT !.at = "load"]
  <2>1. /\ Continue(h, "store", f) /\ torn' = torn
        /\ buffer' = [buffer EXCEPT ![frame[h].i] = frame[h].c] /\ windex' = windex /\ overrun' = overrun
    BY <1>4 DEF StoreScancode
  <2>2. frame[h] \in Frames /\ frame[h].c \in Codes /\ torn
    BY <2>1, ContinueFacts
  <2>3. f \in Frames /\ f.at # "none" /\ f.c \in Codes
    BY <2>2 DEF Frames
  <2>4. buffer' \in Rings
    BY <1>1, <2>1, <2>2 DEF Rings
  <2>5. torn' = TRUE
    BY <1>1, <2>1, <2>2
  <2> HIDE DEF f
  <2> QED
    BY <1>1, <1>2, <2>1, <2>3, <2>4, <2>5
<1>5. CASE LoadIndex(h)
  <2> DEFINE f == [frame[h] EXCEPT !.at = "move", !.i = Succ(windex)]
  <2>1. /\ Continue(h, "load", f) /\ torn' = torn
        /\ buffer' = buffer /\ windex' = windex /\ overrun' = overrun
    BY <1>5 DEF LoadIndex
  <2>2. frame[h] \in Frames /\ frame[h].c \in Codes /\ torn
    BY <2>1, ContinueFacts
  <2>3. f \in Frames /\ f.at # "none" /\ f.c \in Codes
    BY <1>1, <2>2 DEF Frames
  <2>4. torn' = TRUE
    BY <1>1, <2>1, <2>2
  <2> HIDE DEF f
  <2> QED
    BY <1>1, <1>2, <2>1, <2>3, <2>4
<1>6. CASE StoreIndex(h)
  <2>1. /\ Continue(h, "move", NoFrame) /\ torn' = torn
        /\ buffer' = buffer /\ windex' = frame[h].i /\ overrun' = overrun
    BY <1>6 DEF StoreIndex
  <2>2. frame[h].i \in Places /\ torn
    BY <2>1, ContinueFacts
  <2>3. NoFrame \in Frames
    <3>1. 0 \in Places
      BY SizeAssumption DEF Places
    <3> QED
      BY <3>1 DEF Frames, NoFrame
  <2>4. torn' = TRUE
    BY <1>1, <2>1, <2>2
  <2> QED
    BY <1>1, <1>2, <2>1, <2>2, <2>3, <2>4
<1> QED
  BY <1>3, <1>4, <1>5, <1>6

(* The first idle opens the gate. *)
LEMMA IdleStep ==
    ASSUME IInv, Idle
    PROVE  IInv' /\ UNCHANGED Promise!qvars
<1>1. /\ buffer' = buffer /\ rindex' = rindex /\ windex' = windex /\ pc' = pc /\ code' = code
      /\ flags' = flags /\ line' = line /\ scr' = scr /\ vga' = vga /\ printed' = printed
      /\ held' = held /\ overrun' = overrun /\ typed' = typed /\ torn' = torn /\ frame' = frame
      /\ open' = TRUE
  BY DEF Idle, ringVars, lineVars
<1>2. Count' = Count /\ Pending' = Pending /\ Suspended' = Suspended
  BY <1>1 DEF Count, Busy, Pending, From, Least, Suspended
<1>3. TypeOK'
  BY <1>1 DEF IInv, TypeOK
<1>4. ScreenTrue' /\ Handled'
  <2>1. ScreenTrue'
    BY <1>1 DEF IInv, ScreenTrue, WithCursor, Pos
  <2>2. Handled'
    BY <1>1, <1>2 DEF IInv, Handled
  <2> QED
    BY <2>1, <2>2
<1>5. ASSUME ~overrun', ~torn' PROVE Meant'
  BY <1>1, <1>2, <1>5 DEF IInv, Meant, Told
<1>6. IInv'
  BY <1>1, <1>3, <1>4, <1>5 DEF IInv
<1> QED
  BY <1>1, <1>2, <1>6 DEF Promise!qvars

LEMMA LookStep ==
    ASSUME IInv, Look
    PROVE  IInv' /\ Promise!Look
<1>1. /\ TypeOK /\ buffer \in Rings /\ rindex \in Places /\ windex \in Places
      /\ pc = "wait" /\ pc' = "get" /\ rindex # windex
      /\ buffer' = buffer /\ rindex' = rindex /\ windex' = windex /\ code' = code /\ code = NoCode
      /\ flags' = flags /\ line' = line /\ scr' = scr /\ vga' = vga /\ printed' = printed
      /\ held' = held /\ overrun' = overrun /\ typed' = typed /\ torn' = torn /\ open' = open /\ frame' = frame
  BY TypeOKIs DEF IInv, Look, available, ringVars, lineVars, kbdVars, gateVars
<1>2. /\ Ahead(rindex, windex, 0) = Ahead(rindex, windex, 1)
      /\ Ahead(rindex, windex, 1) >= 1 /\ Ahead(rindex, windex, 1) \in 0..Size
  BY <1>1, SizeAssumption, AheadFacts
<1>3. Busy = 0 /\ Busy' = 1 /\ From = rindex /\ From' = rindex /\ Least = 0 /\ Least' = 1
  BY <1>1 DEF Busy, From, Least
<1>4. Count' = Count
  BY <1>1, <1>2, <1>3 DEF Count
<1>5. TypeOK'
  BY <1>1 DEF TypeOK
<1>6. Handled'
  BY <1>1 DEF IInv, Handled, Suspended
<1>7. ASSUME ~overrun', ~torn' PROVE Meant'
  BY <1>1, <1>3, <1>4, <1>7 DEF IInv, Meant, Told, Suspended
<1>8. IInv'
  BY <1>1, <1>5, <1>6, <1>7 DEF IInv, ScreenTrue, WithCursor, Pos
<1>9. Pending' = Pending /\ Pending # <<>>
  <2>1. Pending' = Pending /\ Pending = Unread(buffer, rindex, Ahead(rindex, windex, 1))
    BY <1>1, <1>2, <1>3 DEF Pending
  <2> QED
    BY <1>1, <2>1, GetQueue
<1> QED
  BY <1>1, <1>8, <1>9 DEF Promise!Look

LEMMA GetStep ==
    ASSUME IInv, Get
    PROVE  IInv' /\ Promise!Take
<1>1. /\ TypeOK /\ buffer \in Rings /\ rindex \in Places /\ windex \in Places
      /\ pc = "get" /\ pc' = "got" /\ code' = buffer[rindex]
      /\ buffer' = buffer /\ rindex' = rindex /\ windex' = windex
      /\ flags' = flags /\ line' = line /\ scr' = scr /\ vga' = vga /\ printed' = printed
      /\ held' = held /\ overrun' = overrun /\ typed' = typed /\ torn' = torn /\ open' = open /\ frame' = frame
  BY TypeOKIs DEF IInv, Get, ringVars, lineVars, kbdVars, gateVars
<1>2. Busy = 1 /\ Busy' = 1 /\ From = rindex /\ From' = Succ(rindex) /\ Least = 1 /\ Least' = 0
  BY <1>1 DEF Busy, From, Least
<1>3. Count' = Count /\ Count = Ahead(rindex, windex, 1)
  BY <1>1, <1>2 DEF Count
<1>4. code' \in Codes
  BY <1>1 DEF Rings
<1>5. TypeOK'
  BY <1>1, <1>4 DEF TypeOK
<1>6. Handled'
  BY <1>1 DEF IInv, Handled, Suspended
<1>7. ASSUME ~overrun', ~torn' PROVE Meant'
  BY <1>1, <1>3, <1>4, <1>7 DEF IInv, Meant, Told, Suspended
<1>8. IInv'
  BY <1>1, <1>4, <1>5, <1>6, <1>7 DEF IInv, ScreenTrue, WithCursor, Pos
<1>9. Pending # <<>> /\ Head(Pending) = code' /\ Tail(Pending) = Pending'
  <2>1. Pending = Unread(buffer, rindex, Ahead(rindex, windex, 1))
    BY <1>2 DEF Pending
  <2>2. Pending' = Unread(buffer, Succ(rindex), Ahead(Succ(rindex), windex, 0))
    BY <1>1, <1>2 DEF Pending
  <2> QED
    BY <1>1, <2>1, <2>2, GetQueue
<1> QED
  BY <1>1, <1>8, <1>9 DEF Promise!Take

(* What the disjuncts of Handle have in common. *)
LEMMA GotRing ==
    ASSUME IInv, NEW next \in {"wait", "print"}, Got(next),
           Follows(code, flags, flags')
    PROVE  /\ Handled'
           /\ ~overrun' /\ ~torn' => Meant'
           /\ code' = NoCode
           /\ Promise!Use
<1>1. /\ TypeOK /\ buffer \in Rings /\ rindex \in Places /\ windex \in Places
      /\ pc = "got" /\ pc' \in {"wait", "print"} /\ code \in Codes /\ code' = NoCode
      /\ buffer' = buffer /\ rindex' = Succ(rindex) /\ windex' = windex
      /\ held' = held /\ overrun' = overrun /\ torn' = torn /\ open' = open /\ frame' = frame
  BY TypeOKIs DEF IInv, Got, kbdVars, gateVars
<1>2. Busy = 1 /\ Busy' = 0 /\ From = Succ(rindex) /\ From' = Succ(rindex) /\ Least = 0 /\ Least' = 0
  BY <1>1 DEF Busy, From, Least
<1>3. Count = Ahead(rindex, windex, 1) /\ Count' = Ahead(Succ(rindex), windex, 0)
  BY <1>1, <1>2 DEF Count
<1>4. Suspended' = Suspended /\ Handled'
  BY <1>1 DEF IInv, Handled, Suspended
<1>5. ASSUME ~overrun', ~torn' PROVE Meant'
  <2>1. Meant
    BY <1>1, <1>5 DEF IInv
  <2>2. PICK H \in SUBSET Keys : Told(H) /\ Reflects(buffer, rindex, Ahead(rindex, windex, 1), flags, H)
    BY <1>3, <2>1 DEF Meant
  <2>3. Follows(buffer[rindex], flags, flags')
    BY <1>1, <2>1 DEF Meant
  <2>4. Reflects(buffer, Succ(rindex), Count', flags', H)
    BY <1>1, <1>3, <2>2, <2>3, ReflectsGet
  <2>5. IF Suspended' = {} THEN H = held' ELSE \A h \in Suspended' : Follows(frame'[h].c, H, held')
    BY <1>1, <1>4, <2>2 DEF Told
  <2>6. Reflects(buffer', rindex', Count', flags', H) /\ pc' # "got"
    BY <1>1, <2>4
  <2> QED
    BY <2>5, <2>6 DEF Meant, Told
<1>6. Promise!Use
  <2>1. Pending' = Pending
    BY <1>1, <1>2 DEF Pending
  <2> QED
    BY <1>1, <2>1, CodeAssumption DEF Promise!Use
<1> QED
  BY <1>1, <1>4, <1>5, <1>6

Displays == [Cells -> Chars \cup {CursorCell}]

LEMMA GotStep ==
    ASSUME IInv, NEW next \in {"wait", "print"}, Got(next),
           Follows(code, flags, flags'), flags' \subseteq Modifiers,
           line' \in Seq(Chars), Len(line') < MaxLineLen,
           scr' \in Screens, vga' \in Displays,
           next = "wait" => Len(line') < MaxLineLen - 1 /\ vga' = WithCursor(scr')
    PROVE  IInv' /\ Promise!Use
<1>1. /\ Handled' /\ code' = NoCode /\ Promise!Use
      /\ ~overrun' /\ ~torn' => Meant'
  BY GotRing
<1>2. /\ TypeOK /\ pc' = next /\ buffer' = buffer /\ rindex' = Succ(rindex) /\ windex' = windex
      /\ printed' = printed /\ held' = held /\ overrun' = overrun /\ typed' = typed
      /\ torn' = torn /\ open' = open /\ frame' = frame
  BY DEF IInv, Got, kbdVars, gateVars
<1>3. buffer \in Rings /\ rindex \in Places /\ Succ(rindex) \in Places /\ windex \in Places
  BY <1>2, TypeOKIs, SuccPlace
<1>4. TypeOK'
  BY <1>1, <1>2, <1>3 DEF TypeOK, Rings, Screens, Xs, Ys, Displays
<1> QED
  BY <1>1, <1>2, <1>4 DEF IInv, ScreenTrue

LEMMA AscFacts ==
    ASSUME TypeOK, code \in Codes
    PROVE  Key \in Keys /\ Asc \in Chars /\ Echoed \in Chars
<1>1. Key \in Keys
  BY DEF Key, Codes
<1>2. kbdus[Key] \in Chars
  BY <1>1 DEF Chars
<1>3. \A c \in DOMAIN uppercase : uppercase[c] \in Chars
  BY DEF Chars
<1>4. Asc \in Chars
  BY <1>2, <1>3 DEF Asc
<1> QED
  BY <1>1, <1>4, SizesFacts DEF Echoed

(* What a disjunct of Handle starts from. *)
LEMMA GotFacts ==
    ASSUME IInv, NEW next, Got(next)
    PROVE  /\ code \in Codes /\ Down \in BOOLEAN /\ Key = code[1] /\ Down = code[2]
           /\ flags \subseteq Modifiers /\ line \in Seq(Chars) /\ Len(line) < MaxLineLen - 1
           /\ scr \in Screens /\ vga \in Displays /\ vga = WithCursor(scr)
           /\ Key \notin Modifiers => Follows(code, flags, flags)
<1>1. pc = "got" /\ code \in Codes
  BY DEF IInv, Got
<1>2. Down \in BOOLEAN /\ Key = code[1] /\ Down = code[2]
  BY <1>1 DEF Down, Key, Codes
<1>3. Key \notin Modifiers => Follows(code, flags, flags)
  BY <1>2 DEF Follows
<1> QED
  BY <1>1, <1>2, <1>3, TypeOKIs DEF IInv, ScreenTrue, Displays

LEMMA HandleStep ==
    ASSUME IInv, Handle
    PROVE  IInv' /\ Promise!Use
<1>1. CASE GetModifier
  <2>1. /\ Got("wait") /\ Key \in Modifiers /\ line' = line /\ scr' = scr /\ vga' = vga
        /\ flags' = IF Down THEN flags \cup {Key} ELSE flags \ {Key}
    BY <1>1 DEF GetModifier
  <2>2. /\ Key = code[1] /\ Down = code[2] /\ flags \subseteq Modifiers
        /\ line \in Seq(Chars) /\ Len(line) < MaxLineLen - 1
        /\ scr \in Screens /\ vga \in Displays /\ vga = WithCursor(scr)
    BY <2>1, GotFacts
  <2>3. ASSUME NEW m \in Modifiers
        PROVE  IF m = Key THEN (m \in flags' <=> Down) ELSE (m \in flags' <=> m \in flags)
    BY <2>1
  <2>4. Follows(code, flags, flags') /\ flags' \subseteq Modifiers
    BY <2>1, <2>2, <2>3 DEF Follows
  <2>5. Len(line) < MaxLineLen
    BY <2>2, ScreenAssumption
  <2> QED
    BY <2>1, <2>2, <2>4, <2>5, GotStep
<1>2. CASE GetRelease
  <2>1. /\ Got("wait") /\ Key \notin Modifiers
        /\ flags' = flags /\ line' = line /\ scr' = scr /\ vga' = vga
    BY <1>2 DEF GetRelease
  <2>2. /\ Follows(code, flags, flags') /\ flags \subseteq Modifiers
        /\ line \in Seq(Chars) /\ Len(line) < MaxLineLen - 1
        /\ scr \in Screens /\ vga \in Displays /\ vga = WithCursor(scr)
    BY <2>1, GotFacts
  <2>3. Len(line) < MaxLineLen
    BY <2>2, ScreenAssumption
  <2> QED
    BY <2>1, <2>2, <2>3, GotStep
<1>3. CASE GetBind
  <2>1. /\ Got("wait") /\ Key \notin Modifiers
        /\ flags' = flags /\ line' = line /\ scr' = Cleared /\ vga' = WithCursor(scr')
    BY <1>3 DEF GetBind, Pressed, Show
  <2>2. /\ Follows(code, flags, flags') /\ flags \subseteq Modifiers
        /\ line \in Seq(Chars) /\ Len(line) < MaxLineLen - 1
    BY <2>1, GotFacts
  <2>3. Len(line) < MaxLineLen
    BY <2>2, ScreenAssumption
  <2>4. scr' \in Screens /\ vga' \in Displays
    BY <2>1, ClearedScreen, CursorFacts DEF Displays
  <2> QED
    BY <2>1, <2>2, <2>3, <2>4, GotStep
<1>4. CASE GetBackspace
  <2>1. /\ Got("wait") /\ Key \notin Modifiers /\ flags' = flags
        /\ \/ /\ line # <<>> /\ line' = SubSeq(line, 1, Len(line) - 1)
              /\ scr' = Backspace(scr) /\ vga' = WithCursor(scr')
           \/ line' = line /\ scr' = scr /\ vga' = vga
    BY <1>4 DEF GetBackspace, Pressed, Show
  <2>2. /\ Follows(code, flags, flags') /\ flags \subseteq Modifiers
        /\ line \in Seq(Chars) /\ Len(line) < MaxLineLen - 1
        /\ scr \in Screens /\ vga \in Displays /\ vga = WithCursor(scr)
    BY <2>1, GotFacts
  <2>3. line' \in Seq(Chars) /\ Len(line') <= Len(line)
    <3>1. CASE line # <<>> /\ line' = SubSeq(line, 1, Len(line) - 1)
      <4>1. Len(line) \in Nat /\ Len(line) # 0
        BY <2>2, <3>1, EmptySeq, LenProperties
      <4>2. Len(line) - 1 \in 0..Len(line) /\ 1 \in 1..(Len(line) + 1)
        BY <4>1
      <4>3. line' \in Seq(Chars) /\ Len(line') = IF 1 <= Len(line) - 1 THEN (Len(line) - 1) - 1 + 1 ELSE 0
        BY <2>2, <3>1, <4>2, SubSeqProperties
      <4> QED
        BY <4>1, <4>3
    <3>2. CASE line' = line
      <4>1. Len(line) \in Nat
        BY <2>2, LenProperties
      <4> QED
        BY <2>2, <3>2, <4>1
    <3> QED
      BY <2>1, <3>1, <3>2
  <2>4. Len(line') < MaxLineLen - 1 /\ Len(line') < MaxLineLen
    <3>1. Len(line) \in Nat /\ Len(line') \in Nat
      BY <2>2, <2>3, LenProperties
    <3> QED
      BY <2>2, <2>3, <3>1, ScreenAssumption
  <2>5. scr' \in Screens /\ vga' \in Displays /\ vga' = WithCursor(scr')
    BY <2>1, <2>2, BackspaceScreen, CursorFacts DEF Displays
  <2> QED
    BY <2>1, <2>2, <2>3, <2>4, <2>5, GotStep
<1>5. CASE GetChar
  <2> DEFINE next == IF Ended THEN "print" ELSE "wait"
  <2>1. /\ Got(next) /\ Key \notin Modifiers /\ flags' = flags
        /\ line' = Append(line, Echoed) /\ scr' = tputc(scr, Echoed)
        /\ IF Ended THEN vga' = scr'.cache ELSE vga' = WithCursor(scr')
    BY <1>5 DEF GetChar, Pressed, Show
  <2>2. next \in {"wait", "print"} /\ (next = "wait" => ~Ended)
    OBVIOUS
  <2> HIDE DEF next
  <2>3. /\ Follows(code, flags, flags') /\ flags \subseteq Modifiers /\ code \in Codes
        /\ line \in Seq(Chars) /\ Len(line) < MaxLineLen - 1 /\ scr \in Screens
    BY <2>1, GotFacts
  <2>4. Echoed \in Chars
    BY <2>3, AscFacts DEF IInv
  <2>5. line' \in Seq(Chars) /\ Len(line') = Len(line) + 1
    BY <2>1, <2>3, <2>4, AppendProperties
  <2>6. Len(line') < MaxLineLen /\ (next = "wait" => Len(line') < MaxLineLen - 1)
    <3>1. Len(line) \in Nat /\ MaxLineLen \in Nat
      BY <2>3, LenProperties, ScreenAssumption
    <3>2. ~Ended => Len(line) + 1 # MaxLineLen - 1
      BY DEF Ended
    <3> QED
      BY <2>2, <2>3, <2>5, <3>1, <3>2
  <2>7. scr' \in Screens
    BY <2>1, <2>3, <2>4, PutScreen
  <2>8. vga' \in Displays /\ (next = "wait" => vga' = WithCursor(scr'))
    BY <2>1, <2>2, <2>7, CursorFacts DEF Displays
  <2> QED
    BY <2>1, <2>2, <2>3, <2>5, <2>6, <2>7, <2>8, GotStep
<1> QED
  BY <1>1, <1>2, <1>3, <1>4, <1>5 DEF Handle

(* The steps that do not touch the ring. *)
LEMMA PrintRest ==
    ASSUME IInv, pc = "print", pc' \in {"print", "wait"},
           buffer' = buffer, rindex' = rindex, windex' = windex, code' = code, flags' = flags,
           held' = held, overrun' = overrun, typed' = typed, gateVars' = gateVars, torn' = torn,
           line' \in Seq(Chars), Len(line') < MaxLineLen, printed' \in 0..MaxPrinted,
           scr' \in Screens, vga' \in Displays,
           pc' = "wait" => Len(line') < MaxLineLen - 1 /\ vga' = WithCursor(scr')
    PROVE  IInv' /\ UNCHANGED Promise!qvars
<1>0. open' = open /\ frame' = frame
  BY DEF gateVars
<1>1. TypeOK'
  BY <1>0 DEF IInv, TypeOK, Screens, Xs, Ys, Displays
<1>2. Busy = 0 /\ Busy' = 0 /\ From = rindex /\ From' = rindex /\ Least = 0 /\ Least' = 0
  BY DEF Busy, From, Least
<1>3. Count' = Count /\ Pending' = Pending
  BY <1>2 DEF Count, Pending
<1>4. IInv'
  <2>1. Suspended' = Suspended
    BY <1>0 DEF Suspended
  <2>2. Handled'
    BY <1>0, <2>1 DEF IInv, Handled
  <2>3. ~overrun' /\ ~torn' => Meant'
    BY <1>0, <1>3, <2>1 DEF IInv, Meant, Told
  <2> QED
    BY <1>1, <2>2, <2>3 DEF IInv, ScreenTrue
<1> QED
  BY <1>3, <1>4 DEF Promise!qvars

LEMMA PrintStep ==
    ASSUME IInv, NEW c \in {"o", "\n"}, NEW copied \in BOOLEAN, PutChar(c, copied)
    PROVE  IInv' /\ UNCHANGED Promise!qvars
<1>1. /\ pc = "print" /\ pc' = pc /\ printed < MaxPrinted /\ printed' = printed + 1
      /\ buffer' = buffer /\ rindex' = rindex /\ windex' = windex /\ code' = code /\ flags' = flags
      /\ held' = held /\ overrun' = overrun /\ typed' = typed /\ gateVars' = gateVars /\ torn' = torn /\ line' = line
      /\ scr' = tputc(scr, c)
      /\ vga' = scr'.cache \/ vga' = vga \/ vga' = [vga EXCEPT ![Pos(scr')] = CursorCell]
  BY DEF PutChar, ringVars, kbdVars
<1>2. /\ line \in Seq(Chars) /\ Len(line) < MaxLineLen /\ scr \in Screens /\ vga \in Displays
      /\ printed \in 0..MaxPrinted
  BY TypeOKIs DEF IInv, Displays
<1>3. scr' \in Screens
  BY <1>1, <1>2, SizesFacts, PutScreen
<1>4. vga' \in Displays
  BY <1>1, <1>2, <1>3, CursorFacts DEF Displays
<1>5. printed' \in 0..MaxPrinted
  BY <1>1, <1>2, ScreenAssumption
<1> QED
  BY <1>1, <1>2, <1>3, <1>4, <1>5, PrintRest

LEMMA ClearStep ==
    ASSUME IInv, Clear
    PROVE  IInv' /\ UNCHANGED Promise!qvars
<1>1. /\ pc = "print" /\ pc' = pc /\ printed' = printed
      /\ buffer' = buffer /\ rindex' = rindex /\ windex' = windex /\ code' = code /\ flags' = flags
      /\ held' = held /\ overrun' = overrun /\ typed' = typed /\ gateVars' = gateVars /\ torn' = torn /\ line' = line
      /\ scr' = Cleared /\ vga' = Blank
  BY DEF Clear, ringVars, kbdVars
<1>2. line \in Seq(Chars) /\ Len(line) < MaxLineLen /\ printed \in 0..MaxPrinted
  BY TypeOKIs DEF IInv
<1>3. vga' \in Displays
  BY <1>1, SizesFacts DEF Displays, Blank
<1> QED
  BY <1>1, <1>2, <1>3, ClearedScreen, PrintRest

LEMMA PromptStep ==
    ASSUME IInv, Prompt
    PROVE  IInv' /\ UNCHANGED Promise!qvars
<1>1. /\ pc = "print" /\ pc' = (IF MaxLineLen > 1 THEN "wait" ELSE "print") /\ printed' = 0
      /\ buffer' = buffer /\ rindex' = rindex /\ windex' = windex /\ code' = code /\ flags' = flags
      /\ held' = held /\ overrun' = overrun /\ typed' = typed /\ gateVars' = gateVars /\ torn' = torn /\ line' = <<>>
      /\ scr' = tputc(tputc(scr, ">"), " ") /\ vga' = WithCursor(scr')
  BY DEF Prompt, Show, ringVars, kbdVars
<1>2. pc' \in {"print", "wait"} /\ printed' \in 0..MaxPrinted
  <2>1. MaxPrinted \in Nat /\ 0 \in 0..MaxPrinted
    BY ScreenAssumption
  <2>2. pc' \in {"print", "wait"}
    BY <1>1
  <2> QED
    BY <1>1, <2>1, <2>2
<1>3. line' \in Seq(Chars) /\ Len(line') < MaxLineLen /\ (pc' = "wait" => Len(line') < MaxLineLen - 1)
  <2>1. <<>> \in Seq(Chars) /\ Len(<<>>) = 0
    BY EmptySeq
  <2>2. line' \in Seq(Chars) /\ Len(line') = 0
    BY <1>1, <2>1
  <2>3. MaxLineLen \in Nat /\ MaxLineLen # 0
    BY ScreenAssumption
  <2>4. pc' = "wait" => MaxLineLen > 1
    BY <1>1
  <2> QED
    BY <2>2, <2>3, <2>4
<1>4. scr' \in Screens /\ vga' \in Displays
  <2>1. scr \in Screens
    BY TypeOKIs DEF IInv
  <2>2. tputc(scr, ">") \in Screens
    BY <2>1, SizesFacts, PutScreen
  <2>3. scr' \in Screens
    BY <1>1, <2>2, SizesFacts, PutScreen
  <2> QED
    BY <1>1, <2>3, CursorFacts DEF Displays
<1> QED
  BY <1>1, <1>2, <1>3, <1>4, PrintRest

(* A step of the console is a step of the queue, or none. *)
LEMMA NextStep ==
    ASSUME IInv, [Next]_vars
    PROVE  IInv' /\ [Promise!Next]_Promise!qvars
<1>1. ASSUME NEW key \in Keys, NEW down \in BOOLEAN,
             KeyboardInterrupt(key, down) \/ \E h \in Handlers : ReadScancode(h, key, down)
      PROVE  IInv' /\ [Promise!Next]_Promise!qvars
  BY <1>1, KeyStep, ReadStep
<1>2. ASSUME NEW c \in {"o", "\n"}, NEW copied \in BOOLEAN, PutChar(c, copied)
      PROVE  IInv' /\ UNCHANGED Promise!qvars
  BY <1>2, PrintStep
<1>3. CASE Clear
  BY <1>3, ClearStep
<1>4. CASE Prompt
  BY <1>4, PromptStep
<1>5. CASE Look
  BY <1>5, LookStep DEF Promise!Next
<1>6. CASE Get
  BY <1>6, GetStep DEF Promise!Next
<1>7. CASE Handle
  BY <1>7, HandleStep DEF Promise!Next
<1>8. ASSUME NEW h \in Handlers, Handler(h)
      PROVE  IInv' /\ Promise!Next
  BY <1>8, ResumeStep, TornStep DEF Handler
<1>9. CASE Idle
  BY <1>9, IdleStep
<1>10. CASE UNCHANGED vars
  <2>1. /\ buffer' = buffer /\ rindex' = rindex /\ windex' = windex /\ pc' = pc /\ code' = code
        /\ flags' = flags /\ line' = line /\ scr' = scr /\ vga' = vga /\ printed' = printed
        /\ held' = held /\ overrun' = overrun /\ typed' = typed
        /\ torn' = torn /\ open' = open /\ frame' = frame
    BY <1>10 DEF vars, ringVars, lineVars, kbdVars, gateVars
  <2>2. Count' = Count /\ Pending' = Pending /\ Suspended' = Suspended
    BY <2>1 DEF Count, Busy, Pending, From, Least, Suspended
  <2>3. TypeOK'
    BY <2>1 DEF IInv, TypeOK
  <2>4. ScreenTrue'
    BY <2>1 DEF IInv, ScreenTrue, WithCursor, Pos
  <2>5. Handled'
    BY <2>1, <2>2 DEF IInv, Handled
  <2>6. ~overrun' /\ ~torn' => Meant'
    BY <2>1, <2>2 DEF IInv, Meant, Told
  <2>7. IInv'
    BY <2>1, <2>3, <2>4, <2>5, <2>6 DEF IInv
  <2> QED
    BY <2>1, <2>2, <2>7 DEF Promise!qvars
<1> QED
  BY <1>1, <1>2, <1>3, <1>4, <1>5, <1>6, <1>7, <1>8, <1>9, <1>10 DEF Next, Shell

LEMMA Inductive == Spec => []IInv
<1>1. Init => IInv
  BY InitStep
<1>2. IInv /\ [Next]_vars => IInv'
  BY NextStep
<1> QED
  BY <1>1, <1>2, PTL DEF Spec
-----------------------------------------------------------------------------
(* The indices stay in the ring, the cursor on the screen and the line in its
   buffer (put, tcur_next, tread_line). *)
THEOREM TypeCorrect == Spec => []TypeOK
<1>1. IInv => TypeOK
  BY DEF IInv
<1> QED
  BY <1>1, Inductive, PTL

(* The ring that the interrupt fills and get_scancode empties without a lock
   is the queue KeyQueue, overruns included: for as long as the stub's pop_ints
   closes the gate, and also once idle has opened it, up to the first interrupt
   of the keyboard inside its own handler or of any kind inside put. *)
THEOREM RingIsQueue == Spec => KeyQueueKept
<1>1. Init => Promise!Init
  BY InitStep
<1>2. IInv /\ [Next]_vars => [Promise!Next]_Promise!qvars
  BY NextStep
<1> QED
  BY <1>1, <1>2, Inductive, PTL DEF Spec, KeyQueueKept, Promise!Spec

(* Before idle has run for the first time no handler is suspended, so that
   nothing is torn: the two theorems about the ring hold without exception up to
   there (pop_ints of the stub, interrupts.s:25). *)
THEOREM NothingTornBeforeIdle == Spec => [](~open => Suspended = {} /\ ~torn)
<1>1. IInv => (~open => Suspended = {} /\ ~torn)
  BY DEF IInv, Handled
<1> QED
  BY <1>1, Inductive, PTL

(* The flags of get_scancode are the modifiers that are down, once the ring
   is empty and no handler is suspended, if it never overran and no interrupt
   came inside put or, of the keyboard, inside its handler. *)
THEOREM ModifiersFollow == Spec => []ModifiersTrue
<1>1. ASSUME IInv, pc \notin {"get", "got"}, rindex = windex, Suspended = {}, ~overrun, ~torn
      PROVE  flags = held \cap Modifiers
  <2>1. TypeOK /\ rindex \in Places /\ flags \subseteq Modifiers /\ held \subseteq Keys
    BY <1>1, TypeOKIs DEF IInv
  <2>2. Count = 0
    <3>1. Busy = 0
      BY <1>1 DEF Busy
    <3> QED
      BY <1>1, <2>1, <3>1, AheadFacts DEF Count
  <2>3. Reflects(buffer, rindex, 0, flags, held)
    <3>1. Meant
      BY <1>1 DEF IInv
    <3> QED
      BY <1>1, <2>2, <3>1 DEF Meant, Told
  <2>4. \A k \in 0..(0 - 1) : FALSE
    OBVIOUS
  <2>5. \A m \in Modifiers : m \in flags <=> m \in held
    BY <2>3, <2>4 DEF Reflects
  <2> QED
    BY <2>1, <2>5
<1>2. IInv => ModifiersTrue
  BY <1>1 DEF ModifiersTrue
<1> QED
  BY <1>2, Inductive, PTL

(* While a line is read, the display is the cache and the cursor, whatever a
   command left on it. *)
THEOREM ScreenFollows == Spec => []ScreenTrue
<1>1. IInv => ScreenTrue
  BY DEF IInv
<1> QED
  BY <1>1, Inductive, PTL
-----------------------------------------------------------------------------
(* The line on the screen *)

(* Left of the cursor is what there is of the line. *)
Shows(s, l) ==
    \A k \in 1..Len(l) : Pos(s) - k \in Cells => s.cache[Pos(s) - k] = l[Len(l) + 1 - k]

LEMMA RowFacts ==
    ASSUME NEW w \in Nat, NEW n \in Nat
    PROVE  /\ n * w \in Nat /\ (n + 1) * w = n * w + w
           /\ n > 0 => (n - 1) * w \in Nat /\ (n - 1) * w = n * w - w
  OBVIOUS

LEMMA RowsBelow ==
    ASSUME NEW w \in Nat, NEW h \in Nat, NEW y \in 0..(h - 1)
    PROVE  y * w + w <= h * w
<1>1. PICK d \in Nat : h = (y + 1) + d
  <2>1. h - (y + 1) \in Nat /\ h = (y + 1) + (h - (y + 1))
    OBVIOUS
  <2> QED
    BY <2>1
<1>2. h * w = (y + 1) * w + d * w /\ d * w \in Nat /\ (y + 1) * w = y * w + w
  BY <1>1
<1>3. y * w \in Nat
  OBVIOUS
<1> QED
  BY <1>2, <1>3

(* The cell of the cursor, by its row. *)
LEMMA PosFacts ==
    ASSUME NEW s \in Screens
    PROVE  /\ s.x \in Xs /\ s.y \in Ys /\ s.cache \in [Cells -> Chars]
           /\ s.y * VGA_WIDTH \in Nat /\ VGA_HEIGHT * VGA_WIDTH \in Nat
           /\ Pos(s) = s.y * VGA_WIDTH + s.x /\ Pos(s) \in Cells
           /\ Cells = 0..(VGA_HEIGHT * VGA_WIDTH - 1)
           /\ s.y = VGA_HEIGHT - 1 => s.y * VGA_WIDTH + VGA_WIDTH = VGA_HEIGHT * VGA_WIDTH
<1>1. /\ VGA_WIDTH \in Nat /\ VGA_WIDTH # 0 /\ VGA_HEIGHT \in Nat /\ VGA_HEIGHT # 0
      /\ s.x \in Xs /\ s.y \in Ys /\ s.cache \in [Cells -> Chars]
  BY SizesFacts DEF Screens
<1> DEFINE w == VGA_WIDTH
           h == VGA_HEIGHT
           a == s.y * w
           b == h * w
<1>2. s.y \in 0..(h - 1) /\ s.y \in Nat /\ s.x \in 0..(w - 1)
  BY <1>1 DEF Xs, Ys
<1>3. a \in Nat /\ b \in Nat /\ a + w <= b
  BY <1>1, <1>2, RowFacts, RowsBelow
<1>4. Cells = 0..(b - 1)
  <2>1. VGA_WIDTH * VGA_HEIGHT = VGA_HEIGHT * VGA_WIDTH
    BY <1>1
  <2> QED
    BY <2>1 DEF Cells
<1>5. s.y = h - 1 => a + w = b
  <2>1. SUFFICES ASSUME s.y = h - 1 PROVE a + w = b
    OBVIOUS
  <2>2. s.y + 1 = h /\ (s.y + 1) * w = s.y * w + w
    BY <1>1, <1>2, <2>1, RowFacts
  <2> QED
    BY <2>2
<1>6. Pos(s) = a + s.x
  BY DEF Pos
<1> HIDE DEF a, b
<1>7. Pos(s) \in Cells
  BY <1>1, <1>2, <1>3, <1>4, <1>6
<1> USE DEF a, b
<1> QED
  BY <1>1, <1>3, <1>4, <1>5, <1>6, <1>7

(* The cursor goes one cell on, and where it passes the last one all rows go
   up by one. *)
LEMMA NextCellMoves ==
    ASSUME NEW s \in Screens
    PROVE  \/ Pos(NextCell(s)) = Pos(s) + 1 /\ NextCell(s).cache = s.cache
           \/ Pos(NextCell(s)) = Pos(s) + 1 - VGA_WIDTH /\ NextCell(s).cache = Scrolled(s.cache)
<1>1. /\ VGA_WIDTH \in Nat /\ VGA_WIDTH # 0 /\ VGA_HEIGHT \in Nat /\ VGA_HEIGHT # 0
  BY SizesFacts
<1>2. /\ s.x \in Xs /\ s.y \in Ys /\ s.y * VGA_WIDTH \in Nat
      /\ Pos(s) = s.y * VGA_WIDTH + s.x
  BY PosFacts
<1>3. CASE s.x < VGA_WIDTH - 1
  <2> DEFINE t == [s EXCEPT !.x = s.x + 1]
  <2>1. NextCell(s) = t /\ t.x = s.x + 1 /\ t.y = s.y /\ t.cache = s.cache
    BY <1>3 DEF NextCell, Screens
  <2>2. Pos(t) = s.y * VGA_WIDTH + (s.x + 1)
    BY <2>1 DEF Pos
  <2> HIDE DEF t
  <2> QED
    BY <1>2, <2>1, <2>2 DEF Xs
<1>4. CASE ~(s.x < VGA_WIDTH - 1) /\ s.y < VGA_HEIGHT - 1
  <2> DEFINE t == [s EXCEPT !.x = 0, !.y = s.y + 1]
  <2>1. NextCell(s) = t /\ t.x = 0 /\ t.y = s.y + 1 /\ t.cache = s.cache
    BY <1>4 DEF NextCell, NextLine, Screens
  <2>2. Pos(t) = (s.y + 1) * VGA_WIDTH + 0
    BY <2>1 DEF Pos
  <2> HIDE DEF t
  <2>3. (s.y + 1) * VGA_WIDTH = s.y * VGA_WIDTH + VGA_WIDTH
    BY <1>1, <1>2, RowFacts DEF Ys
  <2>4. s.x = VGA_WIDTH - 1
    BY <1>1, <1>2, <1>4 DEF Xs
  <2> QED
    BY <1>1, <1>2, <2>1, <2>2, <2>3, <2>4
<1>5. CASE ~(s.x < VGA_WIDTH - 1) /\ ~(s.y < VGA_HEIGHT - 1)
  <2> DEFINE t == [s EXCEPT !.x = 0, !.cache = Scrolled(s.cache)]
  <2>1. NextCell(s) = t /\ t.x = 0 /\ t.y = s.y /\ t.cache = Scrolled(s.cache)
    BY <1>5 DEF NextCell, NextLine, Screens
  <2>2. Pos(t) = s.y * VGA_WIDTH + 0
    BY <2>1 DEF Pos
  <2> HIDE DEF t
  <2>3. s.x = VGA_WIDTH - 1
    BY <1>1, <1>2, <1>5 DEF Xs
  <2> QED
    BY <1>1, <1>2, <2>1, <2>2, <2>3
<1> QED
  BY <1>3, <1>4, <1>5

(* A character that is echoed is shown behind the line. *)
LEMMA PutShows ==
    ASSUME NEW s \in Screens, NEW l \in Seq(Chars), Shows(s, l),
           NEW c \in Chars, c # "\n"
    PROVE  Shows(tputc(s, c), Append(l, c))
<1> DEFINE u == [s EXCEPT !.cache[Pos(s)] = c]
           t == NextCell(u)
           n == Len(l)
           m == Append(l, c)
           P == Pos(s)
<1>1. /\ P \in Cells /\ s.cache \in [Cells -> Chars]
      /\ VGA_HEIGHT * VGA_WIDTH \in Nat /\ Cells = 0..(VGA_HEIGHT * VGA_WIDTH - 1)
  BY PosFacts
<1>2. u \in Screens /\ tputc(s, c) = t
  BY PaintScreen DEF tputc
<1>3. /\ Pos(u) = P /\ u.cache[P] = c
      /\ \A p \in Cells : p # P => u.cache[p] = s.cache[p]
  <2>1. u.x = s.x /\ u.y = s.y /\ u.cache = [s.cache EXCEPT ![P] = c]
    BY DEF Screens
  <2> QED
    BY <1>1, <2>1 DEF Pos
<1>4. PICK d \in {0, VGA_WIDTH} :
         /\ Pos(t) = P + 1 - d
         /\ \A p \in Cells : p + d \in Cells => t.cache[p] = u.cache[p + d]
  <2>1. CASE Pos(t) = P + 1 /\ t.cache = u.cache
    <3>1. \A p \in Cells : p + 0 = p
      BY <1>1
    <3>2. P + 1 = P + 1 - 0
      BY <1>1
    <3> QED
      BY <1>3, <2>1, <3>1, <3>2
  <2>2. CASE Pos(t) = P + 1 - VGA_WIDTH /\ t.cache = Scrolled(u.cache)
    BY <2>2 DEF Scrolled
  <2> QED
    BY <1>2, <1>3, <2>1, <2>2, NextCellMoves
<1>5. n \in Nat /\ Len(m) = n + 1 /\ m[n + 1] = c /\ \A k \in 1..n : m[k] = l[k]
  BY AppendProperties, LenProperties
<1>6. d \in Nat
  <2>1. VGA_WIDTH \in Nat /\ 0 \in Nat /\ d \in {0, VGA_WIDTH}
    BY <1>4, SizesFacts
  <2> QED
    BY <2>1
<1> HIDE DEF u, t, m, n, P
<1>7. ASSUME NEW k \in 1..(n + 1), Pos(t) - k \in Cells
      PROVE  t.cache[Pos(t) - k] = m[(n + 1) + 1 - k]
  <2>1. /\ Pos(t) - k + d = P + 1 - k /\ P + 1 - k \in Cells
    BY <1>1, <1>4, <1>5, <1>6, <1>7
  <2>2. t.cache[Pos(t) - k] = u.cache[P + 1 - k]
    BY <1>4, <1>7, <2>1
  <2>3. CASE k = 1
    <3>1. P + 1 - k = P /\ (n + 1) + 1 - k = n + 1
      BY <1>1, <1>5, <2>3
    <3> QED
      BY <1>3, <1>5, <2>2, <3>1
  <2>4. CASE k # 1
    <3>1. /\ k - 1 \in 1..n /\ P - (k - 1) = P + 1 - k /\ P + 1 - k # P
          /\ n + 1 - (k - 1) = (n + 1) + 1 - k /\ (n + 1) + 1 - k \in 1..n
      BY <1>1, <1>5, <2>4
    <3>2. s.cache[P - (k - 1)] = l[n + 1 - (k - 1)]
      BY <2>1, <3>1 DEF Shows, P, n
    <3> QED
      BY <1>3, <1>5, <2>1, <2>2, <3>1, <3>2
  <2> QED
    BY <2>3, <2>4
<1>8. Shows(t, m)
  BY <1>5, <1>7 DEF Shows
<1> QED
  BY <1>2, <1>8 DEF m

(* A backspace goes back one cell, over row ends too, unless it is at the
   first one already. *)
LEMMA BackspaceShows ==
    ASSUME NEW s \in Screens, NEW l \in Seq(Chars), l # <<>>, Shows(s, l)
    PROVE  Shows(Backspace(s), SubSeq(l, 1, Len(l) - 1))
<1> DEFINE moved == IF s.x > 0 THEN [s EXCEPT !.x = @ - 1]
                    ELSE IF s.y > 0 THEN [s EXCEPT !.x = VGA_WIDTH - 1, !.y = @ - 1]
                    ELSE s
           t == [moved EXCEPT !.cache[Pos(moved)] = " "]
           n == Len(l)
           m == SubSeq(l, 1, n - 1)
           P == Pos(s)
<1>1. /\ s.x \in Xs /\ s.y \in Ys /\ s.y * VGA_WIDTH \in Nat
      /\ P = s.y * VGA_WIDTH + s.x /\ P \in Cells /\ s.cache \in [Cells -> Chars]
      /\ VGA_HEIGHT * VGA_WIDTH \in Nat /\ Cells = 0..(VGA_HEIGHT * VGA_WIDTH - 1)
      /\ VGA_WIDTH \in Nat /\ VGA_WIDTH # 0
  BY PosFacts, SizesFacts
<1>2. moved \in Screens /\ moved.cache = s.cache /\ (Pos(moved) = P - 1 \/ Pos(moved) = 0)
  <2>1. CASE s.x > 0
    <3>1. s.x - 1 \in Xs
      BY <2>1, PlaceFacts, MoveScreen
    <3>2. moved \in Screens /\ moved.x = s.x - 1 /\ moved.y = s.y /\ moved.cache = s.cache
      BY <2>1, <3>1, PlaceFacts, MoveScreen DEF Screens
    <3>3. Pos(moved) = s.y * VGA_WIDTH + (s.x - 1)
      BY <3>2 DEF Pos
    <3> HIDE DEF moved
    <3> QED
      BY <1>1, <3>2, <3>3 DEF Xs
  <2>2. CASE ~(s.x > 0) /\ s.y > 0
    <3>1. s.y - 1 \in Ys
      BY <2>2, PlaceFacts, MoveScreen
    <3>2. /\ moved \in Screens /\ moved.x = VGA_WIDTH - 1 /\ moved.y = s.y - 1
          /\ moved.cache = s.cache
      BY <2>2, <3>1, PlaceFacts, MoveScreen DEF Screens
    <3>3. Pos(moved) = (s.y - 1) * VGA_WIDTH + (VGA_WIDTH - 1)
      BY <3>2 DEF Pos
    <3> HIDE DEF moved
    <3>4. (s.y - 1) * VGA_WIDTH = s.y * VGA_WIDTH - VGA_WIDTH
      BY <1>1, <2>2, RowFacts DEF Ys
    <3>5. s.x = 0
      BY <1>1, <2>2 DEF Xs
    <3> QED
      BY <1>1, <3>2, <3>3, <3>4, <3>5
  <2>3. CASE ~(s.x > 0) /\ ~(s.y > 0)
    <3>1. moved = s
      BY <2>3
    <3>2. s.x = 0 /\ s.y = 0
      BY <1>1, <2>3 DEF Xs, Ys
    <3>3. Pos(s) = 0 * VGA_WIDTH + 0
      BY <3>2 DEF Pos
    <3> QED
      BY <1>1, <3>1, <3>3
  <2> QED
    BY <2>1, <2>2, <2>3
<1>3. Backspace(s) = t
  BY DEF Backspace
<1> HIDE DEF moved
<1>4. /\ Pos(t) = Pos(moved)
      /\ \A p \in Cells : p # Pos(moved) => t.cache[p] = s.cache[p]
  <2>1. t.x = moved.x /\ t.y = moved.y /\ t.cache = [moved.cache EXCEPT ![Pos(moved)] = " "]
    BY <1>2 DEF Screens
  <2> QED
    BY <1>1, <1>2, <2>1 DEF Pos
<1>5. n \in Nat /\ n # 0 /\ Len(m) = n - 1 /\ \A k \in 1..(n - 1) : m[k] = l[k]
  <2>1. n \in Nat /\ n # 0
    BY EmptySeq, LenProperties
  <2>2. n - 1 \in 0..n /\ 1 \in 1..(n + 1)
    BY <2>1
  <2>3. /\ Len(m) = IF 1 <= n - 1 THEN (n - 1) - 1 + 1 ELSE 0
        /\ \A k \in 1..((n - 1) - 1 + 1) : m[k] = l[1 + k - 1]
    BY <2>2, SubSeqProperties
  <2>4. Len(m) = n - 1
    BY <2>1, <2>3
  <2>5. ASSUME NEW k \in 1..(n - 1) PROVE m[k] = l[k]
    <3>1. k \in 1..((n - 1) - 1 + 1) /\ 1 + k - 1 = k
      BY <2>1
    <3> QED
      BY <2>3, <3>1
  <2> QED
    BY <2>1, <2>4, <2>5
<1> HIDE DEF t, m, n, P
<1>6. ASSUME NEW k \in 1..(n - 1), Pos(t) - k \in Cells
      PROVE  t.cache[Pos(t) - k] = m[(n - 1) + 1 - k]
  <2>1. Pos(t) = P - 1
    BY <1>1, <1>2, <1>4, <1>5, <1>6
  <2>2. /\ Pos(t) - k = P - (k + 1) /\ Pos(t) - k # Pos(moved)
        /\ k + 1 \in 1..n /\ n + 1 - (k + 1) = (n - 1) + 1 - k
        /\ (n - 1) + 1 - k \in 1..(n - 1)
    BY <1>1, <1>4, <1>5, <2>1
  <2>3. s.cache[P - (k + 1)] = l[n + 1 - (k + 1)]
    BY <1>6, <2>2 DEF Shows, P, n
  <2> QED
    BY <1>4, <1>5, <1>6, <2>2, <2>3
<1>7. Shows(t, m)
  BY <1>5, <1>6 DEF Shows
<1> QED
  BY <1>3, <1>7 DEF m, n

LEMMA LineStep ==
    ASSUME IInv, LineOnScreen, [Next]_vars
    PROVE  LineOnScreen'
<1>1. line \in Seq(Chars) /\ scr \in Screens
  BY TypeOKIs DEF IInv
<1>2. pc # "print" => Shows(scr, line)
  BY DEF LineOnScreen, Shows
<1>3. SUFFICES pc' # "print" => Shows(scr', line')
  BY DEF LineOnScreen, Shows, Pos
<1>4. ASSUME NEW key \in Keys, NEW down \in BOOLEAN,
             KeyboardInterrupt(key, down) \/ \E h \in Handlers : ReadScancode(h, key, down)
      PROVE  pc' # "print" => Shows(scr', line')
  <2>1. pc' = pc /\ scr' = scr /\ line' = line
    BY <1>4 DEF KeyboardInterrupt, ReadScancode, Keystroke, lineVars
  <2> QED
    BY <1>2, <2>1
<1>5. ASSUME NEW c \in {"o", "\n"}, NEW copied \in BOOLEAN, PutChar(c, copied)
      PROVE  pc' # "print" => Shows(scr', line')
  BY <1>5 DEF PutChar
<1>6. CASE Clear
  BY <1>6 DEF Clear
<1>7. CASE Prompt
  <2>1. line' = <<>>
    BY <1>7 DEF Prompt
  <2>2. Len(line') = 0
    BY <2>1, EmptySeq
  <2> QED
    BY <2>2 DEF Shows
<1>8. CASE Look \/ Get
  <2>1. pc # "print" /\ scr' = scr /\ line' = line
    BY <1>8 DEF Look, Get, lineVars
  <2> QED
    BY <1>2, <2>1
<1>9. CASE GetModifier \/ GetRelease
  <2>1. pc # "print" /\ scr' = scr /\ line' = line
    BY <1>9 DEF GetModifier, GetRelease, Got
  <2> QED
    BY <1>2, <2>1
<1>10. CASE GetBind
  <2>1. scr' = Cleared /\ line' = line
    BY <1>10 DEF GetBind, Show
  <2>2. Pos(Cleared) = 0
    <3>1. Pos(Cleared) = 0 * VGA_WIDTH + 0
      BY DEF Pos, Cleared
    <3>2. VGA_WIDTH \in Nat
      BY SizesFacts
    <3> QED
      BY <3>1, <3>2
  <2>3. ASSUME NEW k \in 1..Len(line) PROVE Pos(Cleared) - k \notin Cells
    <3>1. Cells = 0..(VGA_HEIGHT * VGA_WIDTH - 1) /\ VGA_HEIGHT * VGA_WIDTH \in Nat
      BY <1>1, PosFacts
    <3>2. k \in Nat /\ k >= 1
      BY <1>1, LenProperties
    <3> QED
      BY <2>2, <3>1, <3>2
  <2> QED
    BY <2>1, <2>2, <2>3 DEF Shows
<1>11. CASE GetBackspace
  <2>1. /\ pc # "print"
        /\ \/ /\ line # <<>> /\ line' = SubSeq(line, 1, Len(line) - 1)
              /\ scr' = Backspace(scr)
           \/ line' = line /\ scr' = scr
    BY <1>11 DEF GetBackspace, Got, Show
  <2> QED
    BY <1>1, <1>2, <2>1, BackspaceShows
<1>12. CASE GetChar
  <2>1. /\ pc = "got" /\ pc' = (IF Ended THEN "print" ELSE "wait") /\ Got(pc')
        /\ line' = Append(line, Echoed) /\ scr' = tputc(scr, Echoed)
    BY <1>12 DEF GetChar, Got, Show
  <2>2. code \in Codes
    BY <2>1 DEF IInv
  <2>3. Echoed \in Chars
    BY <2>2, AscFacts DEF IInv
  <2>4. pc' # "print" => Echoed # "\n"
    BY <2>1 DEF Ended
  <2> QED
    BY <1>1, <1>2, <2>1, <2>3, <2>4, PutShows
<1>13. ASSUME NEW h \in Handlers, Handler(h)
       PROVE  pc' # "print" => Shows(scr', line')
  <2>1. pc' = pc /\ scr' = scr /\ line' = line
    BY <1>13 DEF Handler, Resume, LoadPlace, StoreScancode, LoadIndex, StoreIndex, Continue, lineVars
  <2> QED
    BY <1>2, <2>1
<1>14. CASE Idle \/ UNCHANGED vars
  <2>1. pc' = pc /\ scr' = scr /\ line' = line
    BY <1>14 DEF Idle, vars, lineVars
  <2> QED
    BY <1>2, <2>1
<1> QED
  BY <1>4, <1>5, <1>6, <1>7, <1>8, <1>9, <1>10, <1>11, <1>12, <1>13, <1>14 DEF Next, Shell, Handle

(* The line being edited stays on the screen left of the cursor: over the ends
   of rows, when the screen scrolls, and when backspaces go back over both
   (tputc, tcur_next, tread_line). *)
THEOREM LineFollows == Spec => []LineOnScreen
<1>1. Init => LineOnScreen
  BY DEF Init, LineOnScreen
<1>2. IInv /\ LineOnScreen /\ [Next]_vars => LineOnScreen'
  BY LineStep
<1> QED
  BY <1>1, <1>2, Inductive, PTL DEF Spec
=============================================================================
