---------------------------- MODULE KheapProofs -----------------------------
(***************************************************************************)
(* Theorems about Kheap, for any memory, boot reserve, page tables and      *)
(* requests.                                                                *)
(***************************************************************************)
EXTENDS Kheap, TLAPS, WellFoundedInduction, FiniteSetTheorems, SequenceTheorems

(* Blocks that lie side by side and fill the first n pages. *)
End(b) == b[1] + Span[b[2]]

Apart(b, c) == End(b) <= c[1] \/ End(c) <= b[1]

Tiles(S, n) ==
    /\ \A b \in S : End(b) <= n
    /\ \A p \in 0..(n - 1) : \E b \in S : b[1] <= p /\ p < End(b)
    /\ \A b, c \in S : b # c => Apart(b, c)
-----------------------------------------------------------------------------
(* Arithmetic *)

LEMMA SpanFacts ==
    ASSUME NEW k \in 0..WordOrder
    PROVE  /\ Span[k] \in Nat /\ Span[k] >= 1 /\ Span[0] = 1
           /\ k < WordOrder => Span[k + 1] = 2 * Span[k]
           /\ \A j \in 0..k : Span[j] <= Span[k]
  BY SpanAssumption DEF WordOrder

Less == {ss \in Nat \X Nat : ss[1] < ss[2]}

LEMMA MinNat ==
    ASSUME NEW S \in SUBSET Nat, S # {}
    PROVE  Min(S) \in S /\ \A y \in S : Min(S) <= y
<1>1. IsWellFoundedOn(Less, Nat)
  BY NatLessThanWellFounded, Zenon DEF Less, OpToRel
<1>2. \E x \in S : \A y \in S : ~ (<<y, x>> \in Less)
  BY <1>1, WFMin
<1>3. PICK x \in S : \A y \in S : <<y, x>> \notin Less
  BY <1>2
<1>4. ASSUME NEW y \in S PROVE x <= y
  <2>1. <<y, x>> \in Nat \X Nat /\ <<y, x>>[1] = y /\ <<y, x>>[2] = x
    OBVIOUS
  <2>2. ~ (y < x)
    BY <1>3, <2>1 DEF Less
  <2> QED
    BY <2>2
<1> QED
  BY <1>4 DEF Min

(* A number is a multiple of q, and the bit above q is that of the multiple. *)
LEMMA BitOfMultiple ==
    ASSUME NEW q \in Nat \ {0}, NEW i \in Nat
    PROVE  ((i * q) \div q) % 2 = i % 2
<1>1. (i * q) \div q = i
  OBVIOUS
<1> QED
  BY <1>1

LEMMA HalvesAndDoubles ==
    ASSUME NEW q \in Nat \ {0}, NEW i \in Nat
    PROVE  /\ (2 * i) * q = i * (2 * q)
           /\ (2 * i + 1) * q = i * (2 * q) + q
           /\ i % 2 = 1 => \E j \in Nat : i = 2 * j + 1
           /\ i % 2 # 1 => \E j \in Nat : i = 2 * j
           /\ (2 * i) % 2 = 0
           /\ i * q \in Nat
  OBVIOUS

Aligned(page, k) == \E i \in Nat : page = i * Span[k]

(* Of an aligned block of order k, as an upper or a lower half. *)
LEMMA Halves ==
    ASSUME NEW k \in 0..(WordOrder - 1), NEW page \in Nat, Aligned(page, k)
    PROVE  /\ Clear(page, k) \in Nat /\ Aligned(Clear(page, k), k + 1)
           /\ {page, Flip(page, k)} = {Clear(page, k), Clear(page, k) + Span[k]}
           /\ Flip(page, k) # page
<1>1. Span[k] \in Nat \ {0} /\ Span[k + 1] = 2 * Span[k]
  BY SpanFacts DEF WordOrder
<1>2. PICK i \in Nat : page = i * Span[k]
  BY DEF Aligned
<1>3. Bit(page, k) <=> i % 2 = 1
  BY <1>1, <1>2, BitOfMultiple DEF Bit
<1>4. CASE i % 2 = 1
  <2>1. PICK j \in Nat : i = 2 * j + 1
    BY <1>4, <1>1, HalvesAndDoubles
  <2>2. page = j * (2 * Span[k]) + Span[k] /\ j * (2 * Span[k]) \in Nat
    BY <1>1, <1>2, <2>1, HalvesAndDoubles
  <2> QED
    BY <1>1, <1>3, <1>4, <2>2 DEF Clear, Flip, Aligned
<1>5. CASE i % 2 # 1
  <2>1. PICK j \in Nat : i = 2 * j
    BY <1>5, <1>1, HalvesAndDoubles
  <2>2. page = j * (2 * Span[k])
    BY <1>1, <1>2, <2>1, HalvesAndDoubles
  <2> QED
    BY <1>1, <1>3, <1>5, <2>2 DEF Clear, Flip, Aligned
<1> QED
  BY <1>4, <1>5

LEMMA LowerHalf ==
    ASSUME NEW k \in 0..(WordOrder - 1), NEW page \in Nat, Aligned(page, k + 1)
    PROVE  /\ Flip(page, k) = page + Span[k]
           /\ Aligned(page, k) /\ Aligned(page + Span[k], k)
<1>1. Span[k] \in Nat \ {0} /\ Span[k + 1] = 2 * Span[k]
  BY SpanFacts DEF WordOrder
<1>2. PICK i \in Nat : page = i * (2 * Span[k])
  BY <1>1 DEF Aligned
<1>3. page = (2 * i) * Span[k] /\ page + Span[k] = (2 * i + 1) * Span[k]
  BY <1>1, <1>2, HalvesAndDoubles
<1>4. ~ Bit(page, k)
  BY <1>1, <1>3, BitOfMultiple, HalvesAndDoubles DEF Bit
<1> QED
  BY <1>3, <1>4 DEF Flip, Aligned
-----------------------------------------------------------------------------
(* Tilings *)

LEMMA SplitTiles ==
    ASSUME NEW k \in 0..(WordOrder - 1), NEW n \in Nat, NEW a \in Nat,
           NEW S, S \subseteq Nat \X (0..WordOrder),
           <<a, k + 1>> \in S, Tiles(S, n)
    PROVE  /\ Tiles((S \ {<<a, k + 1>>}) \cup {<<a, k>>, <<a + Span[k], k>>}, n)
           /\ <<a, k>> \notin S /\ <<a + Span[k], k>> \notin S
<1> DEFINE whole == <<a, k + 1>>
           low   == <<a, k>>
           high  == <<a + Span[k], k>>
           T     == (S \ {whole}) \cup {low, high}
<1>1. /\ Span[k] \in Nat /\ Span[k] >= 1
      /\ End(whole) = a + Span[k] + Span[k]
      /\ End(low) = a + Span[k] /\ End(high) = a + Span[k] + Span[k]
  BY SpanFacts DEF End, WordOrder
<1>2. \A b \in S : b[1] \in Nat /\ b[2] \in 0..WordOrder /\ End(b) \in Nat /\ End(b) > b[1]
  BY SpanFacts DEF End
<1>3. \A b \in T : End(b) <= n
  BY <1>1, <1>2 DEF Tiles
<1>4. \A p \in 0..(n - 1) : \E b \in T : b[1] <= p /\ p < End(b)
  <2> SUFFICES ASSUME NEW p \in 0..(n - 1) PROVE \E b \in T : b[1] <= p /\ p < End(b)
    OBVIOUS
  <2>1. PICK b \in S : b[1] <= p /\ p < End(b)
    BY DEF Tiles
  <2>2. CASE b = whole
    BY <1>1, <2>1, <2>2
  <2> QED
    BY <2>1, <2>2
<1>5. \A c \in S \ {whole} : Apart(low, c) /\ Apart(high, c) /\ Apart(c, low) /\ Apart(c, high)
  BY <1>1, <1>2 DEF Tiles, Apart
<1>6. Apart(low, high) /\ Apart(high, low)
  BY <1>1 DEF Apart
<1>7. \A b, c \in T : b # c => Apart(b, c)
  BY <1>5, <1>6 DEF Tiles
<1>8. low \notin S /\ high \notin S
  <2>1. low # whole /\ high # whole
    OBVIOUS
  <2> QED
    BY <1>1, <1>5, <2>1 DEF Apart
<1> QED
  BY <1>3, <1>4, <1>7, <1>8 DEF Tiles

LEMMA MergeTiles ==
    ASSUME NEW k \in 0..(WordOrder - 1), NEW n \in Nat, NEW a \in Nat,
           NEW S, S \subseteq Nat \X (0..WordOrder),
           <<a, k>> \in S, <<a + Span[k], k>> \in S, Tiles(S, n)
    PROVE  /\ Tiles((S \ {<<a, k>>, <<a + Span[k], k>>}) \cup {<<a, k + 1>>}, n)
           /\ <<a, k + 1>> \notin S
<1> DEFINE whole == <<a, k + 1>>
           low   == <<a, k>>
           high  == <<a + Span[k], k>>
           T     == (S \ {low, high}) \cup {whole}
<1>1. /\ Span[k] \in Nat /\ Span[k] >= 1
      /\ End(whole) = a + Span[k] + Span[k]
      /\ End(low) = a + Span[k] /\ End(high) = a + Span[k] + Span[k]
  BY SpanFacts DEF End, WordOrder
<1>2. \A b \in S : b[1] \in Nat /\ b[2] \in 0..WordOrder /\ End(b) \in Nat /\ End(b) > b[1]
  BY SpanFacts DEF End
<1>3. \A b \in T : End(b) <= n
  BY <1>1, <1>2 DEF Tiles
<1>4. \A p \in 0..(n - 1) : \E b \in T : b[1] <= p /\ p < End(b)
  <2> SUFFICES ASSUME NEW p \in 0..(n - 1) PROVE \E b \in T : b[1] <= p /\ p < End(b)
    OBVIOUS
  <2>1. PICK b \in S : b[1] <= p /\ p < End(b)
    BY DEF Tiles
  <2>2. CASE b \in {low, high}
    BY <1>1, <2>1, <2>2
  <2> QED
    BY <2>1, <2>2
<1>5. \A c \in S \ {low, high} : Apart(whole, c) /\ Apart(c, whole)
  <2> SUFFICES ASSUME NEW c \in S \ {low, high} PROVE Apart(whole, c)
    BY DEF Apart
  <2>1. Apart(low, c) /\ Apart(high, c)
    BY DEF Tiles
  <2> QED
    BY <1>1, <1>2, <2>1 DEF Apart
<1>7. \A b, c \in T : b # c => Apart(b, c)
  BY <1>5 DEF Tiles
<1>8. whole \notin S
  <2>1. low # whole /\ high # whole
    OBVIOUS
  <2> QED
    BY <1>1, <1>5, <2>1 DEF Apart
<1> QED
  BY <1>3, <1>4, <1>7, <1>8 DEF Tiles

(* Two halves side by side fit into the reserve only if they are smaller. *)
LEMMA HalvesBelow ==
    ASSUME NEW r \in 0..(WordOrder - 1), NEW k \in 0..WordOrder, NEW a \in Nat,
           a + Span[k] + Span[k] <= Span[r]
    PROVE  k < r
<1>1. Span[k] \in Nat /\ Span[k] >= 1 /\ Span[r] \in Nat
  BY SpanAssumption DEF WordOrder
<1>2. k >= r => Span[r] <= Span[k]
  BY SpanAssumption DEF WordOrder
<1> QED
  BY <1>1, <1>2 DEF WordOrder

LEMMA GrowTiles ==
    ASSUME NEW r \in 0..(WordOrder - 1), NEW S, S \subseteq Nat \X (0..WordOrder),
           Tiles(S, Span[r])
    PROVE  /\ Tiles(S \cup {<<Span[r], r>>}, Span[r + 1])
           /\ <<Span[r], r>> \notin S
<1> DEFINE half == <<Span[r], r>>
           T    == S \cup {half}
<1>1. /\ Span[r] \in Nat /\ Span[r] >= 1 /\ Span[r + 1] = Span[r] + Span[r]
      /\ End(half) = Span[r] + Span[r]
  BY SpanFacts DEF End, WordOrder
<1>2. \A b \in S : b[1] \in Nat /\ b[2] \in 0..WordOrder /\ End(b) \in Nat /\ End(b) > b[1]
  BY SpanFacts DEF End
<1>3. \A b \in T : End(b) <= Span[r + 1]
  BY <1>1, <1>2 DEF Tiles
<1>4. \A p \in 0..(Span[r + 1] - 1) : \E b \in T : b[1] <= p /\ p < End(b)
  <2> SUFFICES ASSUME NEW p \in 0..(Span[r + 1] - 1) PROVE \E b \in T : b[1] <= p /\ p < End(b)
    OBVIOUS
  <2>1. CASE p < Span[r]
    BY <1>1, <2>1 DEF Tiles
  <2>2. CASE p >= Span[r]
    BY <1>1, <2>2
  <2> QED
    BY <1>1, <2>1, <2>2
<1>5. \A c \in S : Apart(c, half) /\ Apart(half, c)
  BY <1>1, <1>2 DEF Tiles, Apart
<1>6. \A b, c \in T : b # c => Apart(b, c)
  BY <1>5 DEF Tiles
<1> QED
  BY <1>1, <1>2, <1>3, <1>4, <1>6 DEF Tiles
-----------------------------------------------------------------------------
(* Free lists without repetition *)

LEMMA ListFacts ==
    ASSUME NEW s \in Seq(Nat)
    PROVE  /\ Len(s) \in Nat
           /\ \A i \in 1..Len(s) : s[i] \in Nat
           /\ \A v \in Range(s) : v \in Nat /\ \E i \in 1..Len(s) : s[i] = v
           /\ \A i \in 1..Len(s) : s[i] \in Range(s)
           /\ IsInjective(s) <=> \A i, j \in 1..Len(s) : s[i] = s[j] => i = j
<1>1. DOMAIN s = 1..Len(s) /\ Len(s) \in Nat
  OBVIOUS
<1> QED
  BY <1>1, ElementOfSeq DEF Range, IsInjective

LEMMA PushList ==
    ASSUME NEW s \in Seq(Nat), NEW x \in Nat, x \notin Range(s), IsInjective(s)
    PROVE  /\ <<x>> \o s \in Seq(Nat)
           /\ Range(<<x>> \o s) = {x} \cup Range(s)
           /\ IsInjective(<<x>> \o s)
<1> DEFINE t == <<x>> \o s
<1>1. /\ t \in Seq(Nat) /\ Len(t) = Len(s) + 1
      /\ t[1] = x /\ \A i \in 1..Len(s) : t[i + 1] = s[i]
  OBVIOUS
<1> HIDE DEF t
<1>2. ASSUME NEW i \in 1..Len(t), i # 1
      PROVE  i - 1 \in 1..Len(s) /\ t[i] = s[i - 1] /\ t[i] \in Range(s)
  <2>1. i - 1 \in 1..Len(s) /\ (i - 1) + 1 = i
    BY <1>1, <1>2
  <2>2. t[i] = s[i - 1]
    BY <1>1, <2>1
  <2> QED
    BY <2>1, <2>2, ListFacts
<1>3. Range(t) \subseteq {x} \cup Range(s)
  BY <1>1, <1>2, ListFacts
<1>4. x \in Range(t)
  <2>1. 1 \in 1..Len(t)
    BY <1>1
  <2> QED
    BY <1>1, <2>1, ListFacts
<1>5. Range(s) \subseteq Range(t)
  <2> SUFFICES ASSUME NEW v \in Range(s) PROVE v \in Range(t)
    OBVIOUS
  <2>1. PICK i \in 1..Len(s) : s[i] = v
    BY ListFacts
  <2>2. i + 1 \in 1..Len(t) /\ t[i + 1] = v
    BY <1>1, <2>1
  <2> QED
    BY <1>1, <2>2, ListFacts
<1>6. ASSUME NEW i \in 1..Len(t), NEW j \in 1..Len(t), t[i] = t[j] PROVE i = j
  <2>1. CASE i = 1 \/ j = 1
    BY <1>1, <1>2, <1>6, <2>1
  <2>2. CASE i # 1 /\ j # 1
    <3>1. /\ i - 1 \in 1..Len(s) /\ j - 1 \in 1..Len(s)
          /\ s[i - 1] = s[j - 1]
      BY <1>2, <1>6, <2>2
    <3>2. i - 1 = j - 1
      BY <3>1, ListFacts
    <3> QED
      BY <3>2, <1>1
  <2> QED
    BY <2>1, <2>2
<1>7. IsInjective(t)
  BY <1>1, <1>6, ListFacts
<1> QED
  BY <1>1, <1>3, <1>4, <1>5, <1>7 DEF t

LEMMA TailList ==
    ASSUME NEW s \in Seq(Nat), s # << >>, IsInjective(s)
    PROVE  /\ Tail(s) \in Seq(Nat) /\ Head(s) \in Range(s) /\ Head(s) \in Nat
           /\ Range(Tail(s)) = Range(s) \ {Head(s)}
           /\ IsInjective(Tail(s))
<1> DEFINE t == Tail(s)
<1>1. /\ t \in Seq(Nat) /\ Len(t) = Len(s) - 1 /\ Len(s) \in Nat /\ Len(s) >= 1
      /\ Head(s) = s[1] /\ \A i \in 1..Len(t) : t[i] = s[i + 1]
      /\ Head(s) \in Nat
  OBVIOUS
<1> HIDE DEF t
<1>2. 1 \in 1..Len(s) /\ Head(s) \in Range(s)
  BY <1>1, ListFacts
<1>3. ASSUME NEW i \in 1..Len(t)
      PROVE  i + 1 \in 1..Len(s) /\ t[i] = s[i + 1] /\ t[i] # Head(s)
  <2>1. i + 1 \in 1..Len(s) /\ t[i] = s[i + 1] /\ i + 1 # 1
    BY <1>1
  <2>2. s[i + 1] # s[1]
    BY <1>2, <2>1, ListFacts
  <2> QED
    BY <1>1, <2>1, <2>2
<1>4. Range(t) \subseteq Range(s) \ {Head(s)}
  <2> SUFFICES ASSUME NEW v \in Range(t) PROVE v \in Range(s) /\ v # Head(s)
    OBVIOUS
  <2>1. PICK i \in 1..Len(t) : t[i] = v
    BY <1>1, ListFacts
  <2>2. i + 1 \in 1..Len(s) /\ v = s[i + 1] /\ v # Head(s)
    BY <1>3, <2>1
  <2> QED
    BY <2>2, ListFacts
<1>5. Range(s) \ {Head(s)} \subseteq Range(t)
  <2> SUFFICES ASSUME NEW v \in Range(s), v # Head(s) PROVE v \in Range(t)
    OBVIOUS
  <2>1. PICK i \in 1..Len(s) : s[i] = v
    BY ListFacts
  <2>2. i # 1
    BY <1>1, <2>1
  <2>3. i - 1 \in 1..Len(t) /\ (i - 1) + 1 = i
    BY <1>1, <2>2
  <2>4. t[i - 1] = v
    BY <1>1, <2>1, <2>3
  <2> QED
    BY <1>1, <2>3, <2>4, ListFacts
<1>6. ASSUME NEW i \in 1..Len(t), NEW j \in 1..Len(t), t[i] = t[j] PROVE i = j
  <2>1. s[i + 1] = s[j + 1] /\ i + 1 \in 1..Len(s) /\ j + 1 \in 1..Len(s)
    BY <1>3, <1>6
  <2>2. i + 1 = j + 1
    BY <2>1, ListFacts
  <2> QED
    BY <2>2, <1>1
<1>7. IsInjective(t)
  BY <1>1, <1>6, ListFacts
<1> QED
  BY <1>1, <1>2, <1>4, <1>5, <1>7 DEF t

LEMMA UnlinkList ==
    ASSUME NEW s \in Seq(Nat), NEW x \in Range(s), IsInjective(s)
    PROVE  /\ Unlinked(s, x) \in Seq(Nat)
           /\ Range(Unlinked(s, x)) = Range(s) \ {x}
           /\ IsInjective(Unlinked(s, x))
<1> DEFINE n == CHOOSE j \in DOMAIN s : s[j] = x
           a == SubSeq(s, 1, n - 1)
           b == SubSeq(s, n + 1, Len(s))
           t == a \o b
<1>1. n \in 1..Len(s) /\ s[n] = x /\ Len(s) \in Nat
  BY DEF Range
<1>2. Unlinked(s, x) = t
  BY DEF Unlinked, RemoveAt
<1> HIDE DEF n
<1>3. /\ a \in Seq(Nat) /\ Len(a) = n - 1 /\ \A j \in 1..(n - 1) : a[j] = s[j]
      /\ b \in Seq(Nat) /\ Len(b) = Len(s) - n
      /\ \A j \in 1..(Len(s) - n) : b[j] = s[n + j]
  <2>1. /\ \A j \in 1..(n - 1) : s[j] \in Nat
        /\ \A j \in (n + 1)..Len(s) : s[j] \in Nat
    BY <1>1, ElementOfSeq
  <2> QED
    BY <1>1, <2>1, SubSeqProperties
<1> HIDE DEF a, b
<1>4. t \in Seq(Nat) /\ Len(t) = Len(s) - 1
  BY <1>1, <1>3
<1>5. ASSUME NEW j \in 1..Len(t), j < n PROVE t[j] = s[j]
  BY <1>1, <1>3, <1>4, <1>5
<1>6. ASSUME NEW j \in 1..Len(t), j >= n PROVE t[j] = s[j + 1]
  <2>1. t[j] = b[j - Len(a)]
    <3>1. j \in 1..(Len(a) + Len(b)) /\ ~ (j <= Len(a))
      BY <1>1, <1>3, <1>4, <1>6
    <3> QED
      BY <1>3, <3>1, ConcatProperties
  <2>2. j - (n - 1) \in 1..(Len(s) - n) /\ n + (j - (n - 1)) = j + 1
    BY <1>1, <1>4, <1>6
  <2> QED
    BY <1>3, <2>1, <2>2
<1> HIDE DEF t
<1> DEFINE at0(j) == IF j < n THEN j ELSE j + 1
<1>7. ASSUME NEW j \in 1..Len(t)
      PROVE  at0(j) \in 1..Len(s) /\ at0(j) # n /\ t[j] = s[at0(j)]
  BY <1>1, <1>4, <1>5, <1>6
<1>8. Range(t) \subseteq Range(s) \ {x}
  <2> SUFFICES ASSUME NEW v \in Range(t) PROVE v \in Range(s) /\ v # x
    OBVIOUS
  <2>1. PICK j \in 1..Len(t) : t[j] = v
    BY <1>4, ListFacts
  <2>2. PICK i \in 1..Len(s) : i # n /\ v = s[i]
    BY <1>7, <2>1
  <2> QED
    BY <1>1, <2>2, ListFacts
<1>9. Range(s) \ {x} \subseteq Range(t)
  <2> SUFFICES ASSUME NEW v \in Range(s), v # x PROVE v \in Range(t)
    OBVIOUS
  <2>1. PICK i \in 1..Len(s) : s[i] = v
    BY ListFacts
  <2>2. CASE i < n
    <3>1. i \in 1..Len(t) /\ t[i] = v
      BY <1>1, <1>4, <1>5, <2>1, <2>2
    <3> QED
      BY <1>4, <3>1, ListFacts
  <2>3. CASE i > n
    <3>1. i - 1 \in 1..Len(t) /\ i - 1 >= n /\ (i - 1) + 1 = i
      BY <1>1, <1>4, <2>3
    <3>2. t[i - 1] = v
      BY <1>6, <2>1, <3>1
    <3> QED
      BY <1>4, <3>1, <3>2, ListFacts
  <2> QED
    BY <1>1, <2>1, <2>2, <2>3
<1>10. ASSUME NEW j \in 1..Len(t), NEW k \in 1..Len(t), t[j] = t[k] PROVE j = k
  <2>1. at0(j) \in 1..Len(s) /\ at0(k) \in 1..Len(s) /\ s[at0(j)] = s[at0(k)]
    BY <1>7, <1>10
  <2> HIDE DEF at0
  <2>2. at0(j) = at0(k)
    BY <2>1, ListFacts
  <2> QED
    BY <1>1, <1>4, <2>2 DEF at0
<1>11. IsInjective(t)
  BY <1>4, <1>10, ListFacts
<1> QED
  BY <1>2, <1>4, <1>8, <1>9, <1>11
-----------------------------------------------------------------------------
(* Where the blocks are: F in the free lists, H with callers, W in hand. *)

Sound(F, H, W, n) ==
    /\ F \cup H \cup W \subseteq Nat \X (0..WordOrder)
    /\ Tiles(F \cup H \cup W, n)
    /\ \A b \in F \cup H \cup W : Aligned(b[1], b[2])
    /\ F \cap H = {} /\ W \cap (F \cup H) = {}
    /\ Boot \in H

LEMMA SoundBounds ==
    ASSUME NEW F, NEW H, NEW W, NEW n \in Nat, Sound(F, H, W, n),
           NEW b \in F \cup H \cup W
    PROVE  b[1] \in Nat /\ b[2] \in 0..WordOrder /\ b[1] < n /\ b[1] + Span[b[2]] <= n
<1>1. b[1] \in Nat /\ b[2] \in 0..WordOrder
  BY DEF Sound
<1>2. Span[b[2]] \in Nat /\ Span[b[2]] >= 1
  BY <1>1, SpanFacts
<1>3. End(b) <= n
  BY DEF Sound, Tiles
<1> QED
  BY <1>1, <1>2, <1>3 DEF End

LEMMA SoundSplit ==
    ASSUME NEW k \in 0..(WordOrder - 1), NEW a \in Nat, NEW n \in Nat, NEW F, NEW H,
           Sound(F, H, {<<a, k + 1>>}, n)
    PROVE  /\ Sound(F \cup {<<Flip(a, k), k>>}, H, {<<a, k>>}, n)
           /\ Flip(a, k) \in Nat /\ <<Flip(a, k), k>> \notin F
<1> DEFINE whole == <<a, k + 1>>
           low   == <<a, k>>
           high  == <<a + Span[k], k>>
           S     == F \cup H \cup {whole}
<1>1. Aligned(a, k + 1)
  <2>1. whole \in S /\ whole[1] = a /\ whole[2] = k + 1
    OBVIOUS
  <2> QED
    BY <2>1 DEF Sound
<1>2. /\ Flip(a, k) = a + Span[k]
      /\ Aligned(a, k) /\ Aligned(a + Span[k], k)
  BY <1>1, LowerHalf
<1>3. Span[k] \in Nat /\ Span[k] >= 1
  BY SpanFacts DEF WordOrder
<1>4. S \subseteq Nat \X (0..WordOrder) /\ Tiles(S, n) /\ whole \in S
  BY DEF Sound
<1>5. /\ Tiles((S \ {whole}) \cup {low, high}, n)
      /\ low \notin S /\ high \notin S
  BY <1>4, SplitTiles
<1>6. whole \notin F \cup H
  BY DEF Sound
<1>7. (S \ {whole}) \cup {low, high} = (F \cup {high}) \cup H \cup {low}
  BY <1>6
<1>8. low # high
  BY <1>3
<1>9. low \in Nat \X (0..WordOrder) /\ high \in Nat \X (0..WordOrder)
  BY <1>3 DEF WordOrder
<1>10. \A b \in (F \cup {high}) \cup H \cup {low} : Aligned(b[1], b[2])
  BY <1>2 DEF Sound
<1>11. /\ (F \cup {high}) \cap H = {} /\ {low} \cap ((F \cup {high}) \cup H) = {}
       /\ Boot \in H
  BY <1>5, <1>8 DEF Sound
<1>12. (F \cup {high}) \cup H \cup {low} \subseteq Nat \X (0..WordOrder)
  BY <1>4, <1>9
<1>13. Sound(F \cup {high}, H, {low}, n)
  BY <1>5, <1>7, <1>10, <1>11, <1>12 DEF Sound
<1> QED
  BY <1>2, <1>3, <1>5, <1>13

LEMMA SoundMerge ==
    ASSUME NEW r \in 0..(WordOrder - 1), NEW k \in 0..(WordOrder - 1), NEW a \in Nat,
           NEW F, NEW H, Sound(F, H, {<<a, k>>}, Span[r]), <<Flip(a, k), k>> \in F
    PROVE  /\ Sound(F \ {<<Flip(a, k), k>>}, H, {<<Clear(a, k), k + 1>>}, Span[r])
           /\ k < r
           /\ Clear(a, k) \in Nat /\ Clear(a, k) <= a
<1> DEFINE c     == Clear(a, k)
           whole == <<c, k + 1>>
           low   == <<c, k>>
           high  == <<c + Span[k], k>>
           own   == <<a, k>>
           buddy == <<Flip(a, k), k>>
           S     == F \cup H \cup {own}
<1>1. Aligned(a, k)
  <2>1. own \in S /\ own[1] = a /\ own[2] = k
    OBVIOUS
  <2> QED
    BY <2>1 DEF Sound
<1>2. /\ c \in Nat /\ Aligned(c, k + 1)
      /\ {a, Flip(a, k)} = {c, c + Span[k]}
  BY <1>1, Halves
<1>3. Span[k] \in Nat /\ Span[k] >= 1 /\ Span[r] \in Nat
  BY SpanAssumption DEF WordOrder
<1> HIDE DEF c
<1>4. c <= a
  BY <1>2, <1>3
<1>5. {own, buddy} = {low, high}
  BY <1>2
<1>6. /\ S \subseteq Nat \X (0..WordOrder) /\ Tiles(S, Span[r])
      /\ low \in S /\ high \in S
  BY <1>5 DEF Sound
<1> HIDE DEF S
<1>7. Tiles((S \ {low, high}) \cup {whole}, Span[r]) /\ whole \notin S
  BY <1>2, <1>3, <1>6, MergeTiles
<1> USE DEF S
<1>8. own \notin F \cup H /\ buddy \notin H
  BY DEF Sound
<1>9. (S \ {low, high}) \cup {whole} = (F \ {buddy}) \cup H \cup {whole}
  <2>1. S \ {own, buddy} = (F \ {buddy}) \cup H
    BY <1>8
  <2> QED
    BY <1>5, <2>1
<1>10. k < r
  <2>1. c + Span[k] + Span[k] <= Span[r]
    <3>1. End(high) <= Span[r]
      BY <1>6 DEF Tiles
    <3> QED
      BY <3>1 DEF End
  <2> QED
    BY <1>2, <2>1, HalvesBelow DEF WordOrder
<1>11. whole \in Nat \X (0..WordOrder)
  BY <1>2 DEF WordOrder
<1>12. \A b \in (F \ {buddy}) \cup H \cup {whole} : Aligned(b[1], b[2])
  BY <1>2 DEF Sound
<1>13. /\ (F \ {buddy}) \cap H = {} /\ {whole} \cap ((F \ {buddy}) \cup H) = {}
       /\ Boot \in H
  BY <1>7 DEF Sound
<1>14. (F \ {buddy}) \cup H \cup {whole} \subseteq Nat \X (0..WordOrder)
  BY <1>6, <1>11
<1>15. Sound(F \ {buddy}, H, {whole}, Span[r])
  BY <1>7, <1>9, <1>12, <1>13, <1>14 DEF Sound
<1> QED
  BY <1>2, <1>4, <1>10, <1>15 DEF c

LEMMA SoundGrow ==
    ASSUME NEW r \in 0..(WordOrder - 1), NEW F, NEW H, Sound(F, H, {}, Span[r])
    PROVE  /\ Sound(F \cup {<<Span[r], r>>}, H, {}, Span[r + 1])
           /\ \A page : <<page, r>> \notin F
<1> DEFINE half == <<Span[r], r>>
           S    == F \cup H \cup {}
<1>1. Span[r] \in Nat /\ Span[r] >= 1 /\ Span[0] = 1
  BY SpanFacts DEF WordOrder
<1>2. /\ Tiles(S \cup {half}, Span[r + 1]) /\ half \notin S
  <2>1. S \subseteq Nat \X (0..WordOrder) /\ Tiles(S, Span[r])
    BY DEF Sound
  <2> QED
    BY <2>1, GrowTiles
<1>3. S \cup {half} = (F \cup {half}) \cup H \cup {}
  OBVIOUS
<1>4. Aligned(Span[r], r)
  <2>1. Span[r] = 1 * Span[r]
    BY <1>1
  <2> QED
    BY <2>1 DEF Aligned
<1>5. half \in Nat \X (0..WordOrder)
  BY <1>1 DEF WordOrder
<1>6. \A b \in (F \cup {half}) \cup H \cup {} : Aligned(b[1], b[2])
  BY <1>4 DEF Sound
<1>7. /\ (F \cup {half}) \cap H = {} /\ Boot \in H
  BY <1>2 DEF Sound
<1>8. (F \cup {half}) \cup H \cup {} \subseteq Nat \X (0..WordOrder)
  BY <1>5 DEF Sound
<1>9. Sound(F \cup {half}, H, {}, Span[r + 1])
  BY <1>2, <1>3, <1>6, <1>7, <1>8 DEF Sound
<1>10. ASSUME NEW page, <<page, r>> \in F PROVE FALSE
  <2> DEFINE b == <<page, r>>
  <2>1. b \in S /\ Boot \in S /\ b # Boot
    BY <1>10 DEF Sound
  <2>2. page \in Nat /\ page + Span[r] <= Span[r]
    <3>1. b[1] \in Nat /\ b[1] + Span[b[2]] <= Span[r]
      BY <1>1, <2>1, SoundBounds
    <3> QED
      BY <3>1
  <2>3. Apart(b, Boot)
    BY <2>1 DEF Sound, Tiles
  <2>4. page + Span[r] <= 0 \/ 0 + 1 <= page
    BY <1>1, <2>3 DEF Apart, End, Boot
  <2> QED
    BY <1>1, <2>2, <2>4
<1> QED
  BY <1>9, <1>10
-----------------------------------------------------------------------------
(* The free lists, as a set of blocks *)

FreeIn(f, K) == UNION {Range(f[k]) \X {k} : k \in K}

LEMMA InFree ==
    ASSUME NEW K, NEW f, NEW p, NEW k
    PROVE  <<p, k>> \in FreeIn(f, K) <=> k \in K /\ p \in Range(f[k])
  BY DEF FreeIn

LEMMA FreeType ==
    ASSUME NEW K, NEW f \in [K -> Seq(Nat)]
    PROVE  FreeIn(f, K) \subseteq Nat \X K
<1> SUFFICES ASSUME NEW k \in K, NEW p \in Range(f[k]) PROVE <<p, k>> \in Nat \X K
  BY DEF FreeIn
<1>1. f[k] \in Seq(Nat)
  OBVIOUS
<1> QED
  BY <1>1, ListFacts

(* Lists without repetition, one of which changes. *)
Lists(f, K) == f \in [K -> Seq(Nat)] /\ \A j \in K : IsInjective(f[j])

Replaced(g, f, K, k, list) ==
    /\ k \in K
    /\ g \in [K -> Seq(Nat)] /\ g[k] = list /\ \A j \in K : j # k => g[j] = f[j]

LEMMA ListReplaced ==
    ASSUME NEW K, NEW f \in [K -> Seq(Nat)], NEW k \in K, NEW list \in Seq(Nat)
    PROVE  Replaced([f EXCEPT ![k] = list], f, K, k, list)
  BY DEF Replaced

Gained(g, f, K, k, p) ==
    \E list : /\ Replaced(g, f, K, k, list) /\ IsInjective(list)
              /\ Range(list) = {p} \cup Range(f[k])

Lost(g, f, K, k, p) ==
    \E list : /\ Replaced(g, f, K, k, list) /\ IsInjective(list)
              /\ Range(list) = Range(f[k]) \ {p}

LEMMA ListGains ==
    ASSUME NEW K, NEW f, NEW g, NEW k, NEW p, Lists(f, K), Gained(g, f, K, k, p)
    PROVE  Lists(g, K) /\ FreeIn(g, K) = FreeIn(f, K) \cup {<<p, k>>}
<1>1. PICK list : /\ Replaced(g, f, K, k, list) /\ IsInjective(list)
                  /\ Range(list) = {p} \cup Range(f[k])
  BY DEF Gained
<1>2. /\ FreeIn(g, K) \subseteq Nat \X K /\ FreeIn(f, K) \subseteq Nat \X K
  BY <1>1, FreeType DEF Replaced, Lists
<1>3. <<p, k>> \in FreeIn(g, K)
  BY <1>1, InFree DEF Replaced
<1>4. ASSUME NEW q, NEW j
      PROVE  <<q, j>> \in FreeIn(g, K) <=> <<q, j>> \in FreeIn(f, K) \cup {<<p, k>>}
  BY <1>1, InFree DEF Replaced
<1>5. Lists(g, K)
  BY <1>1 DEF Lists, Replaced
<1> QED
  BY <1>2, <1>3, <1>4, <1>5

LEMMA ListLoses ==
    ASSUME NEW K, NEW f, NEW g, NEW k, NEW p, Lists(f, K), Lost(g, f, K, k, p)
    PROVE  Lists(g, K) /\ FreeIn(g, K) = FreeIn(f, K) \ {<<p, k>>}
<1>1. PICK list : /\ Replaced(g, f, K, k, list) /\ IsInjective(list)
                  /\ Range(list) = Range(f[k]) \ {p}
  BY DEF Lost
<1>2. /\ FreeIn(g, K) \subseteq Nat \X K /\ FreeIn(f, K) \subseteq Nat \X K
  BY <1>1, FreeType DEF Replaced, Lists
<1>3. ASSUME NEW q, NEW j
      PROVE  <<q, j>> \in FreeIn(g, K) <=> <<q, j>> \in FreeIn(f, K) \ {<<p, k>>}
  BY <1>1, InFree DEF Replaced
<1>4. Lists(g, K)
  BY <1>1 DEF Lists, Replaced
<1> QED
  BY <1>2, <1>3, <1>4
-----------------------------------------------------------------------------
(* The inductive invariant *)

Places == {"idle", "take", "split", "merge", "table", "panic", "wild"}

Types ==
    /\ max_order \in 0..(WordOrder - 3)
    /\ lock \in {Unlocked, Locked}
    /\ free \in [Orders -> Seq(Nat)]
    /\ reserve_order \in Orders
    /\ at \in Places
    /\ order \in 0..TooBig /\ level \in 0..TooBig
    /\ block \in Addresses /\ size \in Nat
    /\ held \subseteq Nat \X Orders

(* The way up ends at the reserve's order, and the way down at the order
   asked for, which is large enough. *)
Reach ==
    /\ at \in {"take", "split"} => order <= level
    /\ at \in {"split", "merge"} => level <= max_order
    /\ at \notin {"idle", "merge"} =>
          size \in Sizes /\ (order <= max_order => size <= Span[order])

Distinct == Lists(free, Orders)

Layout == Sound(FreeBlocks, held, InHand, Span[reserve_order])

IInv == Types /\ Reach /\ Distinct /\ Layout

LEMMA OrderFacts ==
    ASSUME NEW pages \in Nat, pages <= Span[WordOrder]
    PROVE  /\ OrderOf(pages) \in 0..WordOrder
           /\ pages <= Span[OrderOf(pages)]
           /\ \A k \in 0..WordOrder : pages <= Span[k] => OrderOf(pages) <= k
<1> DEFINE S == {k \in 0..WordOrder : pages <= Span[k]}
<1>1. S \in SUBSET Nat /\ S # {}
  BY DEF WordOrder
<1>2. Min(S) \in S /\ \A y \in S : Min(S) <= y
  BY <1>1, MinNat
<1> QED
  BY <1>2 DEF OrderOf

LEMMA InitTypes ==
    Init => /\ Types /\ Reach /\ Distinct
            /\ FreeBlocks = {<<Span[k], k>> : k \in 0..(reserve_order - 1)}
            /\ held = {Boot} /\ InHand = {}
<1> SUFFICES ASSUME Init
             PROVE  /\ Types /\ Reach /\ Distinct
                    /\ FreeBlocks = {<<Span[k], k>> : k \in 0..(reserve_order - 1)}
                    /\ held = {Boot} /\ InHand = {}
  OBVIOUS
<1>1. max_order \in 0..(WordOrder - 3)
  BY MemoryAssumption DEF Init
<1>2. reserve_order \in 0..max_order
  <2>1. BootReserve \in Nat /\ BootReserve <= Span[WordOrder]
    BY MemoryAssumption, SpanFacts DEF WordOrder
  <2>2. OrderOf(BootReserve) \in Nat
    BY <2>1, OrderFacts DEF WordOrder
  <2> DEFINE S == {OrderOf(BootReserve), max_order}
  <2>3. S \in SUBSET Nat /\ S # {} /\ max_order \in S
    BY <1>1, <2>2 DEF WordOrder
  <2>4. Min(S) \in S /\ \A y \in S : Min(S) <= y
    BY <2>3, MinNat
  <2>5. Min(S) \in Nat /\ Min(S) <= max_order
    BY <2>3, <2>4
  <2> QED
    BY <1>1, <2>5 DEF Init, WordOrder
<1>3. ASSUME NEW k \in Orders
      PROVE  /\ free[k] \in Seq(Nat) /\ IsInjective(free[k])
             /\ Range(free[k]) = IF k < reserve_order THEN {Span[k]} ELSE {}
  <2>1. Span[k] \in Nat
    <3>1. k \in 0..WordOrder
      BY <1>1, <1>3 DEF Orders, WordOrder
    <3> QED
      BY <3>1, SpanFacts
  <2>2. free[k] = IF k < reserve_order THEN <<Span[k]>> ELSE << >>
    BY <1>3 DEF Init
  <2> QED
    BY <2>1, <2>2 DEF IsInjective, Range
<1>4. FreeBlocks = {<<Span[k], k>> : k \in 0..(reserve_order - 1)}
  <2>1. ASSUME NEW p, NEW k
        PROVE  <<p, k>> \in FreeIn(free, Orders) <=> k \in 0..(reserve_order - 1) /\ p = Span[k]
    <3>1. <<p, k>> \in FreeIn(free, Orders) <=> k \in Orders /\ p \in Range(free[k])
      BY InFree
    <3>2. k \in 0..(reserve_order - 1) => k \in Orders /\ k < reserve_order
      BY <1>1, <1>2 DEF Orders, WordOrder
    <3>3. CASE k \in Orders
      <4>1. k < reserve_order <=> k \in 0..(reserve_order - 1)
        BY <1>1, <1>2, <3>3 DEF Orders, WordOrder
      <4>2. p \in Range(free[k]) <=> k < reserve_order /\ p = Span[k]
        BY <1>3, <3>3
      <4> QED
        BY <3>1, <3>3, <4>1, <4>2
    <3> QED
      BY <3>1, <3>2, <3>3
  <2>2. \A b \in FreeIn(free, Orders) : b = <<b[1], b[2]>>
    BY DEF FreeIn
  <2> QED
    BY <2>1, <2>2 DEF FreeBlocks, FreeIn
<1>5. free \in [Orders -> Seq(Nat)]
  BY <1>3 DEF Init
<1>6. Types
  <2>1. 0 \in Addresses /\ Boot \in Nat \X Orders
    <3>1. max_order \in 0..WordOrder
      BY <1>1 DEF WordOrder
    <3>2. Span[max_order] \in Nat /\ Span[max_order] >= 1
      BY <3>1, SpanFacts
    <3> QED
      BY <1>1, <3>2 DEF Addresses, Boot, Orders
  <2> QED
    BY <1>1, <1>2, <1>5, <2>1 DEF Init, Types, TooBig, Orders, Places, WordOrder
<1> QED
  BY <1>3, <1>4, <1>5, <1>6 DEF Init, Reach, Distinct, Lists, InHand

(* The kernel task's page and the free blocks above it, each as long as all
   that lies below it. *)
LEMMA InitLayout == Init => Layout
<1> SUFFICES ASSUME Init PROVE Layout
  OBVIOUS
<1> DEFINE r == reserve_order
           F == {<<Span[k], k>> : k \in 0..(r - 1)}
           S == F \cup {Boot} \cup {}
<1>1. r \in 0..(WordOrder - 3) /\ FreeBlocks = F /\ held = {Boot} /\ InHand = {}
  <2>1. Types /\ FreeBlocks = F /\ held = {Boot} /\ InHand = {}
    BY InitTypes
  <2>2. max_order \in 0..(WordOrder - 3) /\ r \in 0..max_order
    BY <2>1 DEF Types, Orders
  <2> QED
    BY <2>1, <2>2 DEF WordOrder
<1> HIDE DEF r
<1>2. \A k \in 0..(r - 1) :
         /\ k \in 0..(WordOrder - 1) /\ k \in 0..WordOrder
         /\ Span[k] \in Nat /\ Span[k] >= 1 /\ Span[k + 1] = Span[k] + Span[k]
         /\ Span[k + 1] <= Span[r]
  <2> SUFFICES ASSUME NEW k \in 0..(r - 1)
               PROVE  /\ k \in 0..(WordOrder - 1) /\ k \in 0..WordOrder
                      /\ Span[k] \in Nat /\ Span[k] >= 1 /\ Span[k + 1] = Span[k] + Span[k]
                      /\ Span[k + 1] <= Span[r]
    OBVIOUS
  <2>1. k \in 0..(WordOrder - 1) /\ k \in 0..WordOrder /\ k + 1 \in 0..r /\ r \in 0..WordOrder
    BY <1>1 DEF WordOrder
  <2>2. /\ Span[k] \in Nat /\ Span[k] >= 1 /\ Span[k + 1] = 2 * Span[k]
    BY <2>1, SpanFacts DEF WordOrder
  <2>3. Span[k + 1] <= Span[r]
    BY <2>1, SpanFacts
  <2> QED
    BY <2>1, <2>2, <2>3
<1>3. Span[0] = 1 /\ Span[r] \in Nat /\ Span[r] >= 1 /\ End(Boot) = 1
  <2>1. r \in 0..WordOrder
    BY <1>1 DEF WordOrder
  <2> QED
    BY <2>1, SpanFacts DEF End, Boot, WordOrder
<1>4. S \subseteq Nat \X (0..WordOrder)
  BY <1>2 DEF Boot, WordOrder
<1>5. \A b \in S : Aligned(b[1], b[2])
  <2>1. ASSUME NEW k \in 0..(r - 1) PROVE Aligned(Span[k], k)
    <3>1. Span[k] = 1 * Span[k]
      BY <1>2
    <3> QED
      BY <3>1 DEF Aligned
  <2>2. Aligned(0, 0)
    <3>1. 0 = 0 * Span[0]
      BY <1>3
    <3> QED
      BY <3>1 DEF Aligned
  <2> QED
    BY <2>1, <2>2 DEF Boot
<1>6. Tiles(S, Span[r])
  <2>1. \A b \in S : End(b) <= Span[r]
    BY <1>2, <1>3 DEF End
  <2>2. ASSUME NEW p \in 0..(Span[r] - 1)
        PROVE  \E b \in S : b[1] <= p /\ p < End(b)
    <3>1. CASE p = 0
      BY <1>3, <3>1 DEF Boot
    <3>2. CASE p # 0
      <4> DEFINE M == {k \in 0..r : p < Span[k]}
                 m == Min(M)
      <4>1. M \in SUBSET Nat /\ M # {}
        BY <1>1, <1>3
      <4>2. m \in M /\ \A y \in M : m <= y
        BY <4>1, MinNat
      <4> HIDE DEF m
      <4>3. m # 0
        BY <1>3, <3>2, <4>2
      <4>4. m - 1 \in 0..(r - 1) /\ m - 1 \in 0..r /\ m - 1 < m /\ (m - 1) + 1 = m
        BY <1>1, <4>2, <4>3
      <4>5. m - 1 \notin M
        BY <4>2, <4>4
      <4>6. Span[m - 1] <= p /\ p < Span[m - 1] + Span[m - 1]
        BY <1>2, <4>2, <4>4, <4>5
      <4>7. <<Span[m - 1], m - 1>> \in S
        BY <4>4
      <4> QED
        BY <4>6, <4>7 DEF End
    <3> QED
      BY <3>1, <3>2
  <2>3. ASSUME NEW j \in 0..(r - 1), NEW k \in 0..(r - 1), j < k
        PROVE  Span[j] + Span[j] <= Span[k]
    <3>1. j + 1 \in 0..k /\ k \in 0..WordOrder
      BY <1>1, <2>3 DEF WordOrder
    <3>2. Span[j + 1] <= Span[k]
      BY <3>1, SpanFacts
    <3> QED
      BY <1>2, <3>2
  <2>4. ASSUME NEW b \in S, NEW c \in S, b # c PROVE Apart(b, c)
    <3>1. CASE b = Boot \/ c = Boot
      BY <1>2, <1>3, <2>4, <3>1 DEF Apart, Boot
    <3>2. CASE b # Boot /\ c # Boot
      <4>1. PICK j \in 0..(r - 1) : b = <<Span[j], j>>
        BY <3>2
      <4>2. PICK k \in 0..(r - 1) : c = <<Span[k], k>>
        BY <3>2
      <4>3. j < k \/ k < j
        BY <1>1, <2>4, <4>1, <4>2
      <4> QED
        BY <2>3, <4>1, <4>2, <4>3 DEF Apart, End
    <3> QED
      BY <3>1, <3>2
  <2> QED
    BY <2>1, <2>2, <2>4 DEF Tiles
<1>7. F \cap {Boot} = {}
  BY <1>2 DEF Boot
<1>8. Sound(F, {Boot}, {}, Span[r])
  BY <1>4, <1>5, <1>6, <1>7 DEF Sound
<1> QED
  BY <1>1, <1>8 DEF Layout, r

LEMMA InitIInv == Init => IInv
  BY InitTypes, InitLayout DEF IInv
-----------------------------------------------------------------------------
(* Every step preserves it. *)

LEMMA MaxOrderFacts ==
    Types => /\ max_order \in 0..WordOrder /\ TooBig \in 0..WordOrder
             /\ Orders \subseteq 0..WordOrder /\ Orders \subseteq Nat
             /\ Span[max_order] \in Nat /\ Span[max_order] >= 1
             /\ \A k \in Orders : Span[k] \in Nat /\ Span[k] >= 1 /\ Span[k] <= Span[max_order]
<1> SUFFICES ASSUME Types
             PROVE  /\ max_order \in 0..WordOrder /\ TooBig \in 0..WordOrder
                    /\ Orders \subseteq 0..WordOrder /\ Orders \subseteq Nat
                    /\ Span[max_order] \in Nat /\ Span[max_order] >= 1
                    /\ \A k \in Orders : Span[k] \in Nat /\ Span[k] >= 1 /\ Span[k] <= Span[max_order]
  OBVIOUS
<1>1. /\ max_order \in 0..WordOrder /\ TooBig \in 0..WordOrder
      /\ Orders \subseteq 0..WordOrder /\ Orders \subseteq Nat
  BY DEF Types, TooBig, Orders, WordOrder
<1> QED
  BY <1>1, SpanFacts DEF Orders

LEMMA GetOrderFacts ==
    ASSUME Types, NEW pages \in Nat
    PROVE  /\ GetOrder(pages) \in 0..TooBig
           /\ GetOrder(pages) <= max_order => pages <= Span[GetOrder(pages)]
<1>1. CASE pages <= Span[max_order]
  <2>1. max_order \in 0..WordOrder /\ Span[max_order] \in Nat
    BY MaxOrderFacts
  <2>2. Span[max_order] <= Span[WordOrder] /\ Span[WordOrder] \in Nat
    BY <2>1, SpanFacts DEF WordOrder
  <2>3. pages <= Span[WordOrder]
    BY <1>1, <2>1, <2>2
  <2>4. /\ OrderOf(pages) \in 0..WordOrder
        /\ pages <= Span[OrderOf(pages)]
        /\ OrderOf(pages) <= max_order
    BY <1>1, <2>1, <2>3, OrderFacts
  <2> QED
    BY <1>1, <2>1, <2>4 DEF GetOrder, TooBig
<1>2. CASE ~ (pages <= Span[max_order])
  BY <1>2 DEF GetOrder, TooBig, Types
<1> QED
  BY <1>1, <1>2

LEMMA SamePlaces ==
    ASSUME IInv, UNCHANGED <<max_order, free, reserve_order, held>>, InHand' = InHand
    PROVE  Distinct' /\ Layout'
  BY DEF IInv, Distinct, Layout, FreeBlocks, Orders

LEMMA AllocStep == IInv /\ Alloc => IInv'
<1> SUFFICES ASSUME IInv, Alloc PROVE IInv'
  OBVIOUS
<1>1. PICK pages \in Sizes :
         size' = pages /\ order' = GetOrder(pages) /\ level' = GetOrder(pages)
  BY DEF Alloc
<1>2. Types
  BY DEF IInv
<1>3. pages \in Nat
  BY SizesAssumption
<1>4. /\ GetOrder(pages) \in 0..TooBig
      /\ GetOrder(pages) <= max_order => pages <= Span[GetOrder(pages)]
  BY <1>2, <1>3, GetOrderFacts
<1> HIDE DEF GetOrder
<1>5. Types'
  BY <1>1, <1>2, <1>3, <1>4 DEF Types, Alloc, Lock, Places, Orders, TooBig, Addresses
<1>6. Reach'
  BY <1>1, <1>2, <1>4 DEF Reach, Alloc, Types, TooBig
<1>7. Distinct' /\ Layout'
  <2>1. InHand' = InHand
    BY DEF Alloc, InHand
  <2> QED
    BY <2>1, SamePlaces DEF Alloc
<1> QED
  BY <1>5, <1>6, <1>7 DEF IInv

(* The steps that only move within buddy_alloc. *)
LEMMA WayUpStep == IInv /\ (AllocTooBig \/ Climb \/ WaitForItself \/ Spin) => IInv'
<1> SUFFICES ASSUME IInv, AllocTooBig \/ Climb \/ WaitForItself \/ Spin PROVE IInv'
  OBVIOUS
<1>1. /\ at \in {"take"} /\ at' \in {"take", "panic", "wild", "table"}
      /\ UNCHANGED <<max_order, lock, free, reserve_order, order, block, size, held>>
      /\ level' = level \/ (level < reserve_order /\ level' = level + 1)
  <2>1. CASE AllocTooBig
    BY <2>1 DEF AllocTooBig
  <2>2. CASE Climb
    BY <2>2 DEF Climb, Empty
  <2>3. CASE WaitForItself
    BY <2>3 DEF WaitForItself, Empty
  <2>4. CASE Spin
    BY <2>4 DEF Spin, Full, Empty, vars, callVars
  <2> QED
    BY <2>1, <2>2, <2>3, <2>4
<1>2. Types'
  BY <1>1 DEF IInv, Types, Places, Orders, TooBig, Addresses
<1>3. Reach'
  BY <1>1 DEF IInv, Reach, Types, TooBig, Orders
<1>4. InHand' = InHand
  BY <1>1 DEF InHand
<1> QED
  BY <1>1, <1>2, <1>3, <1>4, SamePlaces DEF IInv

LEMMA DoubleStep == IInv /\ DoubleReserve => IInv'
<1> SUFFICES ASSUME IInv, DoubleReserve PROVE IInv'
  OBVIOUS
<1> DEFINE r == reserve_order
<1>1. /\ at = "take" /\ r \in 0..(WordOrder - 1) /\ r \in Orders
      /\ r + 1 \in Orders /\ reserve_order' = r + 1
      /\ free' = [free EXCEPT ![r] = Doubled]
      /\ UNCHANGED <<max_order, lock, at, order, level, block, size, held>>
  BY DEF DoubleReserve, Empty, callVars, IInv, Types, Orders, WordOrder
<1>2. /\ free \in [Orders -> Seq(Nat)] /\ \A k \in Orders : IsInjective(free[k])
      /\ Lists(free, Orders)
  BY DEF IInv, Distinct, Lists
<1>3. /\ InHand = {} /\ InHand' = {}
      /\ FreeBlocks = FreeIn(free, Orders) /\ FreeBlocks' = FreeIn(free', Orders)
  BY <1>1 DEF InHand, FreeBlocks, FreeIn, Orders
<1>4. Sound(FreeIn(free, Orders), held, {}, Span[r])
  BY <1>3 DEF IInv, Layout
<1>5. /\ Sound(FreeIn(free, Orders) \cup {<<Span[r], r>>}, held, {}, Span[r + 1])
      /\ \A page : <<page, r>> \notin FreeIn(free, Orders)
  BY <1>1, <1>4, SoundGrow
<1>6. free[r] = << >>
  <2>1. free[r] \in Seq(Nat)
    BY <1>1, <1>2
  <2>2. Range(free[r]) = {}
    BY <1>1, <1>5, InFree
  <2>3. ~ (1 \in 1..Len(free[r]))
    BY <2>1, <2>2, ListFacts
  <2> QED
    BY <2>1, <2>3
<1>7. Span[r] \in Nat
  BY <1>1, SpanFacts DEF WordOrder
<1>8. /\ Doubled \in Seq(Nat) /\ IsInjective(Doubled)
      /\ Range(Doubled) = {Span[r]} \cup Range(free[r])
  <2>1. Doubled = <<Span[r]>> \o free[r]
    BY <1>6 DEF Doubled
  <2>2. Span[r] \notin Range(free[r])
    BY <1>1, <1>5, InFree
  <2> QED
    BY <1>1, <1>2, <1>7, <2>1, <2>2, PushList
<1>9. Lists(free', Orders) /\ FreeBlocks' = FreeIn(free, Orders) \cup {<<Span[r], r>>}
  <2>1. Replaced(free', free, Orders, r, Doubled)
    BY <1>1, <1>2, <1>8, ListReplaced
  <2>2. Gained(free', free, Orders, r, Span[r])
    BY <1>8, <2>1 DEF Gained
  <2> QED
    BY <1>2, <1>3, <2>2, ListGains
<1>10. Types'
  BY <1>1, <1>9 DEF IInv, Types, Lists, Orders, TooBig, Addresses
<1>11. Reach'
  BY <1>1 DEF IInv, Reach
<1>12. Distinct'
  BY <1>1, <1>9 DEF Distinct, Orders
<1>13. Layout'
  BY <1>1, <1>3, <1>5, <1>9 DEF Layout
<1> QED
  BY <1>10, <1>11, <1>12, <1>13 DEF IInv

LEMMA TakeStep == IInv /\ Take => IInv'
<1> SUFFICES ASSUME IInv, Take PROVE IInv'
  OBVIOUS
<1> DEFINE b == <<Head(free[level]), level>>
<1>1. /\ at = "take" /\ at' = "split" /\ level \in Orders /\ free[level] # << >>
      /\ block' = Head(free[level])
      /\ free' = [free EXCEPT ![level] = Tail(free[level])]
      /\ UNCHANGED <<max_order, lock, reserve_order, order, level, size, held>>
  BY DEF Take, IInv, Types, Orders
<1>2. /\ free \in [Orders -> Seq(Nat)] /\ \A k \in Orders : IsInjective(free[k])
      /\ Lists(free, Orders)
  BY DEF IInv, Distinct, Lists
<1>3. /\ InHand = {} /\ InHand' = {b}
      /\ FreeBlocks = FreeIn(free, Orders) /\ FreeBlocks' = FreeIn(free', Orders)
  BY <1>1 DEF InHand, FreeBlocks, FreeIn, Orders
<1>4. /\ Tail(free[level]) \in Seq(Nat)
      /\ Head(free[level]) \in Range(free[level])
      /\ Range(Tail(free[level])) = Range(free[level]) \ {Head(free[level])}
      /\ IsInjective(Tail(free[level]))
  BY <1>1, <1>2, TailList
<1>5. Lists(free', Orders) /\ FreeBlocks' = FreeIn(free, Orders) \ {b}
  <2>1. Replaced(free', free, Orders, level, Tail(free[level]))
    BY <1>1, <1>2, <1>4, ListReplaced
  <2>2. Lost(free', free, Orders, level, Head(free[level]))
    BY <1>4, <2>1 DEF Lost
  <2> QED
    BY <1>2, <1>3, <2>2, ListLoses
<1>6. b \in FreeBlocks
  BY <1>1, <1>3, <1>4, InFree
<1>7. Sound(FreeBlocks, held, {}, Span[reserve_order])
  BY <1>3 DEF IInv, Layout
<1>8. Layout'
  <2>1. (FreeBlocks \ {b}) \cup held \cup {b} = FreeBlocks \cup held \cup {}
    BY <1>6
  <2>2. (FreeBlocks \ {b}) \cap held = {} /\ {b} \cap ((FreeBlocks \ {b}) \cup held) = {}
    BY <1>6, <1>7 DEF Sound
  <2>3. Sound(FreeBlocks \ {b}, held, {b}, Span[reserve_order])
    BY <1>7, <2>1, <2>2 DEF Sound
  <2> QED
    BY <1>1, <1>3, <1>5, <2>3 DEF Layout
<1>9. block' \in Addresses
  <2>1. /\ reserve_order \in Orders /\ Span[reserve_order] \in Nat
        /\ Span[reserve_order] <= Span[max_order] /\ Span[max_order] \in Nat
    BY MaxOrderFacts DEF IInv, Types
  <2>2. b[1] \in Nat /\ b[1] < Span[reserve_order]
    BY <1>6, <1>7, <2>1, SoundBounds
  <2> QED
    BY <1>1, <2>1, <2>2 DEF Addresses
<1>10. Types'
  BY <1>1, <1>5, <1>9 DEF IInv, Types, Lists, Orders, TooBig, Addresses, Places
<1>11. Reach'
  BY <1>1 DEF IInv, Reach, Orders, Types
<1>12. Distinct'
  BY <1>1, <1>5 DEF Distinct, Orders
<1> QED
  BY <1>8, <1>10, <1>11, <1>12 DEF IInv

LEMMA SplitStep == IInv /\ Split => IInv'
<1> SUFFICES ASSUME IInv, Split PROVE IInv'
  OBVIOUS
<1> DEFINE k    == level - 1
           p    == Flip(block, k)
           list == <<p>> \o free[k]
<1>1. /\ at = "split" /\ order < level /\ k \in Orders /\ k \in 0..(WordOrder - 1)
      /\ order <= k /\ level' = k /\ k + 1 = level /\ block \in Nat
      /\ free' = [free EXCEPT ![k] = list]
      /\ UNCHANGED <<max_order, lock, reserve_order, at, order, block, size, held>>
  <2>1. /\ max_order \in 0..(WordOrder - 3) /\ order \in Nat /\ level \in Nat
        /\ level <= max_order /\ order < level
    BY DEF Split, IInv, Types, Reach, TooBig
  <2>2. k \in Orders /\ k \in 0..(WordOrder - 1) /\ order <= k /\ k + 1 = level
    BY <2>1 DEF Orders, WordOrder
  <2>3. block \in Nat
    BY DEF IInv, Types, Addresses
  <2> QED
    BY <2>1, <2>2, <2>3 DEF Split, Push
<1>2. /\ free \in [Orders -> Seq(Nat)] /\ \A j \in Orders : IsInjective(free[j])
      /\ Lists(free, Orders)
  BY DEF IInv, Distinct, Lists
<1>3. /\ InHand = {<<block, k + 1>>} /\ InHand' = {<<block, k>>}
      /\ FreeBlocks = FreeIn(free, Orders) /\ FreeBlocks' = FreeIn(free', Orders)
  BY <1>1 DEF InHand, FreeBlocks, FreeIn, Orders
<1>4. Span[reserve_order] \in Nat
  BY MaxOrderFacts DEF IInv, Types
<1>5. Sound(FreeBlocks, held, {<<block, k + 1>>}, Span[reserve_order])
  BY <1>3 DEF IInv, Layout
<1> HIDE DEF k
<1>6. /\ Sound(FreeBlocks \cup {<<p, k>>}, held, {<<block, k>>}, Span[reserve_order])
      /\ p \in Nat /\ <<p, k>> \notin FreeBlocks
  BY <1>1, <1>4, <1>5, SoundSplit
<1> HIDE DEF p
<1>7. p \notin Range(free[k])
  BY <1>1, <1>3, <1>6, InFree
<1>8. list \in Seq(Nat) /\ Range(list) = {p} \cup Range(free[k]) /\ IsInjective(list)
  BY <1>1, <1>2, <1>6, <1>7, PushList
<1> HIDE DEF list
<1>9. Lists(free', Orders) /\ FreeBlocks' = FreeBlocks \cup {<<p, k>>}
  <2>1. Replaced(free', free, Orders, k, list)
    BY <1>1, <1>2, <1>8, ListReplaced
  <2>2. Gained(free', free, Orders, k, p)
    BY <1>8, <2>1 DEF Gained
  <2> QED
    BY <1>2, <1>3, <2>2, ListGains
<1>10. Types'
  BY <1>1, <1>9 DEF IInv, Types, Lists, Orders, TooBig, Addresses, Places
<1>11. Reach'
  BY <1>1 DEF IInv, Reach, Orders, Types
<1>12. Distinct'
  BY <1>1, <1>9 DEF Distinct, Orders
<1>13. Layout'
  BY <1>1, <1>3, <1>6, <1>9 DEF Layout
<1> QED
  BY <1>10, <1>11, <1>12, <1>13 DEF IInv

(* A block that changes hands stays where it is. *)
LEMMA HandOver ==
    ASSUME NEW F, NEW H, NEW W, NEW G, NEW J, NEW X, NEW n, Sound(F, H, W, n),
           F \cup H \cup W = G \cup J \cup X, Boot \in J,
           G \cap J = {}, X \cap (G \cup J) = {}
    PROVE  Sound(G, J, X, n)
  BY DEF Sound

LEMMA ReturnStep == IInv /\ Return => IInv'
<1> SUFFICES ASSUME IInv, Return PROVE IInv'
  OBVIOUS
<1> DEFINE b == <<block, order>>
<1>1. /\ at = "split" /\ at' = "idle" /\ level = order /\ order \in Orders
      /\ held' = held \cup {b} /\ lock' = Unlocked
      /\ UNCHANGED <<max_order, free, reserve_order, order, level, block, size>>
  <2>1. order \in 0..max_order
    BY DEF Return, IInv, Types, Reach, TooBig
  <2> QED
    BY <2>1 DEF Return, Release, Orders
<1>2. InHand = {b} /\ InHand' = {} /\ FreeBlocks' = FreeBlocks
  BY <1>1 DEF InHand, FreeBlocks, Orders
<1>3. Sound(FreeBlocks, held, {b}, Span[reserve_order])
  BY <1>2 DEF IInv, Layout
<1>4. Sound(FreeBlocks, held \cup {b}, {}, Span[reserve_order])
  <2>1. /\ FreeBlocks \cap held = {} /\ {b} \cap (FreeBlocks \cup held) = {}
        /\ Boot \in held
    BY <1>3 DEF Sound
  <2>2. FreeBlocks \cup held \cup {b} = FreeBlocks \cup (held \cup {b}) \cup {}
    OBVIOUS
  <2>3. FreeBlocks \cap (held \cup {b}) = {}
    BY <2>1
  <2> QED
    BY <1>3, <2>1, <2>2, <2>3, HandOver
<1>5. Layout'
  BY <1>1, <1>2, <1>4 DEF Layout
<1>6. Types'
  BY <1>1 DEF IInv, Types, Orders, TooBig, Addresses, Places
<1>7. Reach'
  BY <1>1 DEF Reach
<1>8. Distinct'
  BY <1>1 DEF IInv, Distinct, Orders
<1> QED
  BY <1>5, <1>6, <1>7, <1>8 DEF IInv

LEMMA FreeStep == IInv /\ Free => IInv'
<1> SUFFICES ASSUME IInv, Free PROVE IInv'
  OBVIOUS
<1>1. PICK b \in held \ {Boot} :
         /\ held' = held \ {b}
         /\ block' = b[1] /\ order' = b[2] /\ level' = b[2]
  BY DEF Free
<1>2. /\ at = "idle" /\ at' = "merge" /\ lock' = Locked
      /\ UNCHANGED <<max_order, free, reserve_order, size>>
  BY DEF Free, Lock
<1>3. b \in Nat \X Orders /\ b = <<b[1], b[2]>>
  BY <1>1 DEF IInv, Types
<1>4. InHand = {} /\ InHand' = {b} /\ FreeBlocks' = FreeBlocks
  BY <1>1, <1>2, <1>3 DEF InHand, FreeBlocks, Orders
<1>5. Sound(FreeBlocks, held, {}, Span[reserve_order])
  BY <1>4 DEF IInv, Layout
<1>6. Sound(FreeBlocks, held \ {b}, {b}, Span[reserve_order])
  <2>1. FreeBlocks \cap held = {} /\ Boot \in held
    BY <1>5 DEF Sound
  <2>2. FreeBlocks \cup held \cup {} = FreeBlocks \cup (held \ {b}) \cup {b}
    BY <1>1
  <2>3. /\ FreeBlocks \cap (held \ {b}) = {}
        /\ {b} \cap (FreeBlocks \cup (held \ {b})) = {}
        /\ Boot \in held \ {b}
    BY <1>1, <2>1
  <2> QED
    BY <1>5, <2>2, <2>3, HandOver
<1>7. Layout'
  BY <1>1, <1>2, <1>4, <1>6 DEF Layout
<1>8. block' \in Addresses
  <2>1. /\ reserve_order \in Orders /\ Span[reserve_order] \in Nat
        /\ Span[reserve_order] <= Span[max_order] /\ Span[max_order] \in Nat
    BY MaxOrderFacts DEF IInv, Types
  <2>2. b[1] \in Nat /\ b[1] < Span[reserve_order]
    BY <1>1, <1>5, <2>1, SoundBounds
  <2> QED
    BY <1>1, <2>1, <2>2 DEF Addresses
<1>9. Types'
  BY <1>1, <1>2, <1>3, <1>8 DEF IInv, Types, Orders, TooBig, Addresses, Places
<1>10. Reach'
  BY <1>1, <1>2, <1>3 DEF Reach, Orders
<1>11. Distinct'
  BY <1>2 DEF IInv, Distinct, Orders
<1> QED
  BY <1>7, <1>9, <1>10, <1>11 DEF IInv

LEMMA MergeStep == IInv /\ Merge => IInv'
<1> SUFFICES ASSUME IInv, Merge PROVE IInv'
  OBVIOUS
<1> DEFINE p    == Flip(block, level)
           list == Unlinked(free[level], p)
<1>1. /\ at = "merge" /\ level \in Orders /\ level \in 0..(WordOrder - 1)
      /\ block \in Nat /\ p \in Range(free[level])
      /\ block' = Clear(block, level) /\ level' = level + 1
      /\ free' = [free EXCEPT ![level] = list]
      /\ UNCHANGED <<max_order, lock, reserve_order, at, order, size, held>>
  <2>1. at = "merge" /\ level <= max_order /\ level \in Nat
    BY DEF Merge, IInv, Types, Reach, TooBig
  <2>2. level \in Orders /\ level \in 0..(WordOrder - 1)
    BY <2>1 DEF IInv, Types, Orders, WordOrder
  <2>3. block \in Nat
    BY DEF IInv, Types, Addresses
  <2> QED
    BY <2>1, <2>2, <2>3 DEF Merge, BuddyFree
<1>2. free[level] \in Seq(Nat) /\ IsInjective(free[level]) /\ Lists(free, Orders)
      /\ free \in [Orders -> Seq(Nat)]
  BY <1>1 DEF IInv, Distinct, Lists
<1>3. /\ InHand = {<<block, level>>} /\ InHand' = {<<Clear(block, level), level + 1>>}
      /\ FreeBlocks = FreeIn(free, Orders) /\ FreeBlocks' = FreeIn(free', Orders)
  BY <1>1 DEF InHand, FreeBlocks, FreeIn, Orders
<1>4. <<p, level>> \in FreeBlocks
  BY <1>1, <1>3, InFree
<1>5. reserve_order \in 0..(WordOrder - 1) /\ reserve_order \in Orders
  BY DEF IInv, Types, Orders, WordOrder
<1>6. Sound(FreeBlocks, held, {<<block, level>>}, Span[reserve_order])
  BY <1>3 DEF IInv, Layout
<1>7. /\ Sound(FreeBlocks \ {<<p, level>>}, held, {<<Clear(block, level), level + 1>>},
               Span[reserve_order])
      /\ level < reserve_order
      /\ Clear(block, level) \in Nat /\ Clear(block, level) <= block
  BY <1>1, <1>4, <1>5, <1>6, SoundMerge
<1> HIDE DEF p
<1>8. list \in Seq(Nat) /\ Range(list) = Range(free[level]) \ {p} /\ IsInjective(list)
  BY <1>1, <1>2, UnlinkList
<1> HIDE DEF list
<1>9. Lists(free', Orders) /\ FreeBlocks' = FreeBlocks \ {<<p, level>>}
  <2>1. Replaced(free', free, Orders, level, list)
    BY <1>1, <1>2, <1>8, ListReplaced
  <2>2. Lost(free', free, Orders, level, p)
    BY <1>8, <2>1 DEF Lost
  <2> QED
    BY <1>2, <1>3, <2>2, ListLoses
<1>10. block' \in Addresses
  <2>1. block \in 0..(Span[max_order] - 1) /\ Span[max_order] \in Nat
    BY MaxOrderFacts DEF IInv, Types, Addresses
  <2>2. block' \in Nat /\ block' <= block
    BY <1>1, <1>7
  <2> QED
    BY <2>1, <2>2 DEF Addresses
<1>11. level + 1 \in Orders
  <2>1. level < reserve_order
    BY <1>7
  <2>2. max_order \in Nat /\ reserve_order \in 0..max_order /\ level \in 0..max_order
    BY <1>1, <1>5 DEF IInv, Types, Orders
  <2> QED
    BY <2>1, <2>2 DEF Orders
<1>12. Types'
  BY <1>1, <1>9, <1>10, <1>11 DEF IInv, Types, Lists, Orders, TooBig, Addresses, Places
<1>13. Reach'
  BY <1>1, <1>11 DEF IInv, Reach, Orders
<1>14. Distinct'
  BY <1>1, <1>9 DEF Distinct, Orders
<1>15. Layout'
  BY <1>1, <1>3, <1>7, <1>9 DEF Layout
<1> QED
  BY <1>12, <1>13, <1>14, <1>15 DEF IInv

LEMMA PutBackStep == IInv /\ PutBack => IInv'
<1> SUFFICES ASSUME IInv, PutBack PROVE IInv'
  OBVIOUS
<1> DEFINE b    == <<block, level>>
           list == <<block>> \o free[level]
<1>1. /\ at = "merge" /\ at' = "idle" /\ level \in Orders /\ block \in Nat
      /\ lock' = Unlocked
      /\ free' = [free EXCEPT ![level] = list]
      /\ UNCHANGED <<max_order, reserve_order, order, level, block, size, held>>
  <2>1. at = "merge" /\ level \in 0..max_order /\ block \in Nat
    BY DEF PutBack, IInv, Types, Reach, TooBig, Addresses
  <2> QED
    BY <2>1 DEF PutBack, Push, Release, Orders
<1>2. free[level] \in Seq(Nat) /\ IsInjective(free[level]) /\ Lists(free, Orders)
      /\ free \in [Orders -> Seq(Nat)]
  BY <1>1 DEF IInv, Distinct, Lists
<1>3. /\ InHand = {b} /\ InHand' = {}
      /\ FreeBlocks = FreeIn(free, Orders) /\ FreeBlocks' = FreeIn(free', Orders)
  BY <1>1 DEF InHand, FreeBlocks, FreeIn, Orders
<1>4. Sound(FreeBlocks, held, {b}, Span[reserve_order])
  BY <1>3 DEF IInv, Layout
<1>5. /\ FreeBlocks \cap held = {} /\ {b} \cap (FreeBlocks \cup held) = {}
      /\ Boot \in held
  BY <1>4 DEF Sound
<1>6. block \notin Range(free[level])
  <2>1. b \notin FreeIn(free, Orders)
    BY <1>3, <1>5
  <2> QED
    BY <1>1, <2>1, InFree
<1>7. list \in Seq(Nat) /\ Range(list) = {block} \cup Range(free[level]) /\ IsInjective(list)
  BY <1>1, <1>2, <1>6, PushList
<1> HIDE DEF list
<1>8. Lists(free', Orders) /\ FreeBlocks' = FreeBlocks \cup {b}
  <2>1. Replaced(free', free, Orders, level, list)
    BY <1>1, <1>2, <1>7, ListReplaced
  <2>2. Gained(free', free, Orders, level, block)
    BY <1>7, <2>1 DEF Gained
  <2> QED
    BY <1>2, <1>3, <2>2, ListGains
<1>9. Layout'
  <2>1. FreeBlocks \cup held \cup {b} = (FreeBlocks \cup {b}) \cup held \cup {}
    OBVIOUS
  <2>2. (FreeBlocks \cup {b}) \cap held = {}
    BY <1>5
  <2>3. Sound(FreeBlocks \cup {b}, held, {}, Span[reserve_order])
    BY <1>4, <1>5, <2>1, <2>2, HandOver
  <2> QED
    BY <1>1, <1>3, <1>8, <2>3 DEF Layout
<1>10. Types'
  BY <1>1, <1>8 DEF IInv, Types, Lists, Orders, TooBig, Addresses, Places
<1>11. Reach'
  BY <1>1 DEF Reach
<1>12. Distinct'
  BY <1>1, <1>8 DEF Distinct, Orders
<1> QED
  BY <1>9, <1>10, <1>11, <1>12 DEF IInv

LEMMA NextIInv == IInv /\ [Next]_vars => IInv'
<1> SUFFICES ASSUME IInv, [Next]_vars PROVE IInv'
  OBVIOUS
<1>1. CASE UNCHANGED vars
  <2>1. UNCHANGED <<max_order, lock, free, reserve_order, at, order, level, block, size, held>>
    BY <1>1 DEF vars, callVars
  <2>2. Types' /\ Reach' /\ InHand' = InHand
    BY <2>1 DEF IInv, Types, Reach, InHand, Orders, TooBig, Addresses, Places
  <2> QED
    BY <2>1, <2>2, SamePlaces DEF IInv
<1> QED
  BY <1>1, AllocStep, WayUpStep, DoubleStep, TakeStep, SplitStep, ReturnStep,
     FreeStep, MergeStep, PutBackStep DEF Next, Call, Step

LEMMA SpecIInv == Spec => []IInv
<1>1. Init => IInv
  BY InitIInv
<1>2. IInv /\ [Next]_vars => IInv'
  BY NextIInv
<1> QED
  BY <1>1, <1>2, PTL DEF Spec
-----------------------------------------------------------------------------
(* What follows from it *)

LEMMA PagesFacts ==
    ASSUME NEW b \in Nat \X (0..WordOrder)
    PROVE  /\ \A p : p \in PagesOf(b) <=> p \in Nat /\ b[1] <= p /\ p < End(b)
           /\ b[1] \in PagesOf(b)
<1>1. Span[b[2]] \in Nat /\ Span[b[2]] >= 1
  BY SpanFacts
<1> QED
  BY <1>1 DEF PagesOf, End

LEMMA ApartPages ==
    ASSUME NEW b \in Nat \X (0..WordOrder), NEW c \in Nat \X (0..WordOrder), Apart(b, c)
    PROVE  PagesOf(b) \cap PagesOf(c) = {}
<1>1. Span[b[2]] \in Nat /\ Span[c[2]] \in Nat
  BY SpanFacts
<1> QED
  BY <1>1, PagesFacts DEF Apart, End

LEMMA IInvPartition == IInv => Partition
<1> SUFFICES ASSUME IInv PROVE Partition
  OBVIOUS
<1> DEFINE n == Span[reserve_order]
<1>1. n \in Nat
  BY MaxOrderFacts DEF IInv, Types
<1>2. /\ Blocks \subseteq Nat \X (0..WordOrder) /\ Tiles(Blocks, n)
      /\ FreeBlocks \cap held = {} /\ InHand \cap (FreeBlocks \cup held) = {}
  BY DEF IInv, Layout, Sound, Blocks
<1> HIDE DEF n
<1>3. UNION {PagesOf(b) : b \in Blocks} = 0..(n - 1)
  <2>1. ASSUME NEW b \in Blocks, NEW p \in PagesOf(b) PROVE p \in 0..(n - 1)
    <3>1. p \in Nat /\ b[1] <= p /\ p < End(b)
      BY <1>2, <2>1, PagesFacts
    <3>2. End(b) <= n /\ End(b) \in Nat
      BY <1>2, SpanFacts DEF Tiles, End
    <3> QED
      BY <1>1, <3>1, <3>2
  <2>2. ASSUME NEW p \in 0..(n - 1) PROVE \E b \in Blocks : p \in PagesOf(b)
    <3>1. PICK b \in Blocks : b[1] <= p /\ p < End(b)
      BY <1>2 DEF Tiles
    <3>2. p \in PagesOf(b)
      BY <1>2, <3>1, PagesFacts
    <3> QED
      BY <3>2
  <2> QED
    BY <2>1, <2>2
<1>4. \A b, c \in Blocks : b # c => PagesOf(b) \cap PagesOf(c) = {}
  <2> SUFFICES ASSUME NEW b \in Blocks, NEW c \in Blocks, b # c
               PROVE  PagesOf(b) \cap PagesOf(c) = {}
    OBVIOUS
  <2>1. Apart(b, c)
    BY <1>2 DEF Tiles
  <2> QED
    BY <1>2, <2>1, ApartPages
<1>5. \A k \in Orders : IsInjective(free[k])
  BY DEF IInv, Distinct, Lists
<1> QED
  BY <1>2, <1>3, <1>4, <1>5 DEF Partition, Reserve, n

LEMMA IInvTypeOK == IInv => TypeOK
<1> SUFFICES ASSUME IInv PROVE TypeOK
  OBVIOUS
<1>1. /\ reserve_order \in Orders /\ Span[reserve_order] \in Nat
      /\ Span[reserve_order] <= Span[max_order] /\ Span[max_order] \in Nat
  BY MaxOrderFacts DEF IInv, Types
<1>2. ASSUME NEW b \in Blocks PROVE b[1] \in Addresses
  <2>1. b[1] \in Nat /\ b[1] < Span[reserve_order]
    BY <1>1, SoundBounds DEF IInv, Layout, Blocks
  <2> QED
    BY <1>1, <2>1 DEF Addresses
<1>3. ASSUME NEW k \in Orders PROVE free[k] \in Seq(Addresses)
  <2>1. free[k] \in Seq(Nat)
    BY DEF IInv, Types
  <2>2. ASSUME NEW i \in 1..Len(free[k]) PROVE free[k][i] \in Addresses
    <3>1. free[k][i] \in Range(free[k])
      BY <2>1, ListFacts
    <3>2. <<free[k][i], k>> \in FreeIn(free, Orders)
      BY <3>1, InFree
    <3>3. <<free[k][i], k>> \in Blocks
      BY <3>2 DEF Blocks, FreeBlocks, FreeIn
    <3> QED
      BY <1>2, <3>3
  <2> QED
    BY <2>1, <2>2
<1>4. free \in [Orders -> Seq(Addresses)]
  BY <1>3 DEF IInv, Types
<1>5. held \subseteq Addresses \X Orders
  <2> SUFFICES ASSUME NEW b \in held PROVE b \in Addresses \X Orders
    OBVIOUS
  <2>1. b \in Nat \X Orders /\ b[1] \in Addresses
    BY <1>2 DEF IInv, Types, Blocks
  <2> QED
    BY <2>1
<1> QED
  BY <1>4, <1>5 DEF IInv, Types, TypeOK, Places

(* Every reachable state of the allocator is well typed: no list holds an
   address outside the heap (mem.cpp:452-502). *)
THEOREM TypeCorrect == Spec => []TypeOK
<1>1. IInv => TypeOK
  BY IInvTypeOK
<1> QED
  BY <1>1, SpecIInv, PTL

(* Free lists, callers and the call in hand share out the pages of the reserve,
   without overlap and without loss, whatever is split, merged and doubled. *)
THEOREM ReservePartitioned == Spec => []Partition
<1>1. IInv => Partition
  BY IInvPartition
<1> QED
  BY <1>1, SpecIInv, PTL
-----------------------------------------------------------------------------
(* The promise to callers *)

Regions(H) == {PagesOf(b) : b \in H}
Request    == IF at \in {"take", "split", "table", "panic", "wild"} THEN {size} ELSE {}

LEMMA RegionFacts ==
    ASSUME IInv
    PROVE  /\ \A b \in held : PagesOf(b) # {} /\ b \in Nat \X (0..WordOrder)
           /\ \A b, c \in Blocks : b # c => PagesOf(b) \cap PagesOf(c) = {}
           /\ \A b, c \in held : b # c => PagesOf(b) \cap PagesOf(c) = {}
<1>1. \A b \in held : b \in Blocks /\ b \in Nat \X (0..WordOrder)
  BY DEF Blocks, IInv, Layout, Sound
<1> QED
  BY <1>1, IInvPartition, PagesFacts DEF Partition

LEMMA InitPromise == Init => Promise!Init
<1> SUFFICES ASSUME Init PROVE Promise!Init
  OBVIOUS
<1>1. Regions(held) = {PagesOf(Boot)}
  BY DEF Init, Regions
<1>2. Request = {}
  BY DEF Init, Request
<1> QED
  BY <1>1, <1>2 DEF Promise!Init, Regions, Request

LEMMA AskStep ==
    IInv /\ Alloc => \E n \in Sizes : Promise!Ask(n)
<1> SUFFICES ASSUME IInv, Alloc PROVE \E n \in Sizes : Promise!Ask(n)
  OBVIOUS
<1>1. PICK n \in Sizes : size' = n
  BY DEF Alloc
<1>2. at = "idle" /\ at' = "take" /\ held' = held
  BY DEF Alloc
<1>3. Promise!Ask(n)
  BY <1>1, <1>2 DEF Promise!Ask
<1> QED
  BY <1>3

(* What alloc returns is a block of its own, at least as long as asked for. *)
LEMMA GiveStep ==
    IInv /\ Return => \E n \in Sizes : Promise!Give(n)
<1> SUFFICES ASSUME IInv, Return PROVE \E n \in Sizes : Promise!Give(n)
  OBVIOUS
<1> DEFINE b == <<block, order>>
           r == PagesOf(b)
<1>1. /\ at = "split" /\ at' = "idle" /\ level = order
      /\ held' = held \cup {b} /\ size' = size
  BY DEF Return
<1>2. order \in 0..max_order /\ order \in Orders /\ block \in Nat
  BY <1>1 DEF IInv, Types, Reach, TooBig, Orders, Addresses
<1>3. size \in Sizes /\ size <= Span[order]
  BY <1>1, <1>2 DEF IInv, Reach
<1>4. Span[order] \in Nat /\ Span[order] >= 1 /\ size \in Nat
  BY <1>2, <1>3, MaxOrderFacts, SizesAssumption DEF IInv
<1>5. InHand = {b}
  BY <1>1 DEF InHand
<1>6. \A s \in Regions(held) : r \cap s = {}
  <2>1. b \in Blocks /\ b \notin held /\ \A c \in held : c \in Blocks
    BY <1>5 DEF Blocks, IInv, Layout, Sound
  <2>2. \A c \in held : r \cap PagesOf(c) = {}
    BY <2>1, RegionFacts
  <2> QED
    BY <2>2 DEF Regions
<1>7. r = block..(block + Span[order] - 1)
  BY DEF PagesOf
<1>8. Cardinality(r) >= size
  <2>1. Cardinality(r) = Span[order]
    <3>1. block \in Int /\ block + Span[order] - 1 \in Int
      BY <1>2, <1>4
    <3>2. Cardinality(r) = IF block > block + Span[order] - 1 THEN 0
                           ELSE (block + Span[order] - 1) - block + 1
      BY <1>7, <3>1, FS_Interval
    <3> QED
      BY <1>2, <1>4, <3>2
  <2> QED
    BY <1>3, <1>4, <2>1
<1>9. \A p, q \in r : p..q \subseteq r
  BY <1>2, <1>4, <1>7
<1> HIDE DEF r
<1>10. /\ Regions(held') = Regions(held) \cup {r} /\ r \in Regions(held')
  BY <1>1 DEF Regions, r
<1>11. Request = {size} /\ Request' = {}
  BY <1>1 DEF Request
<1>12. Promise!Give(size)
  <2>1. r \in {PagesOf(c) : c \in held}' /\ Regions(held)' = Regions(held) \cup {r}
    BY <1>10 DEF Regions
  <2>2. Promise!Cardinality(r) = Cardinality(r)
    BY Zenon DEF Promise!Cardinality, Cardinality
  <2> QED
    BY <1>6, <1>8, <1>9, <1>11, <2>1, <2>2, Zenon DEF Promise!Give, Regions, Request
<1> QED
  BY <1>3, <1>12

LEMMA TakeBackStep ==
    IInv /\ Free => \E r \in Regions(held) : Promise!TakeBack(r)
<1> SUFFICES ASSUME IInv, Free PROVE \E r \in Regions(held) : Promise!TakeBack(r)
  OBVIOUS
<1>1. PICK b \in held : held' = held \ {b}
  BY DEF Free
<1>2. at = "idle" /\ at' = "merge"
  BY DEF Free
<1>3. \A c \in held : c # b => PagesOf(c) # PagesOf(b)
  BY RegionFacts
<1>4. Regions(held') = Regions(held) \ {PagesOf(b)}
  BY <1>1, <1>3 DEF Regions
<1>5. Promise!TakeBack(PagesOf(b))
  BY <1>2, <1>4 DEF Promise!TakeBack, Regions
<1> QED
  BY <1>5 DEF Regions

(* Everything else happens behind the lock, and the caller sees none of it. *)
LEMMA HiddenStep ==
    \/ AllocTooBig \/ Climb \/ WaitForItself \/ Spin \/ DoubleReserve
    \/ Take \/ Split \/ Merge \/ PutBack \/ UNCHANGED vars
    => UNCHANGED Promise!vars
<1> SUFFICES ASSUME held' = held, Request' = Request PROVE UNCHANGED Promise!vars
  <2>1. CASE AllocTooBig \/ WaitForItself \/ Take
    BY <2>1 DEF AllocTooBig, WaitForItself, Empty, Take, Request
  <2>2. CASE Climb
    BY <2>2 DEF Climb, Empty, Request
  <2>3. CASE DoubleReserve
    BY <2>3 DEF DoubleReserve, callVars, Request
  <2>4. CASE Split \/ Merge \/ PutBack
    BY <2>4 DEF Split, Merge, PutBack, Push, Request
  <2>5. CASE Spin \/ UNCHANGED vars
    BY <2>5 DEF Spin, vars, callVars, Request
  <2> QED
    BY <2>1, <2>2, <2>3, <2>4, <2>5
<1> QED
  BY DEF Promise!vars, Request

LEMMA NextPromise == IInv /\ [Next]_vars => [Promise!Next]_(Promise!vars)
<1> SUFFICES ASSUME IInv, [Next]_vars PROVE Promise!Next \/ UNCHANGED Promise!vars
  OBVIOUS
<1>1. CASE Alloc
  BY <1>1, AskStep DEF Promise!Next
<1>2. CASE Return
  BY <1>2, GiveStep DEF Promise!Next
<1>3. CASE Free
  BY <1>3, TakeBackStep DEF Promise!Next, Regions
<1> QED
  BY <1>1, <1>2, <1>3, HiddenStep DEF Next, Call, Step

(* The allocator keeps KheapSpec: every caller gets a run of pages of its own, as
   many as it asked for, until it frees it (mem.cpp:517-546). *)
THEOREM PromiseKept == Spec => KeepsPromise
<1>1. Init => Promise!Init
  BY InitPromise
<1>2. IInv /\ [Next]_vars => [Promise!Next]_(Promise!vars)
  BY NextPromise
<1> QED
  BY <1>1, <1>2, SpecIInv, PTL DEF Spec, KeepsPromise, Promise!Spec
-----------------------------------------------------------------------------
(* Buddies *)

LEMMA FlipBack ==
    ASSUME NEW k \in 0..(WordOrder - 1), NEW page \in Nat, Aligned(page, k)
    PROVE  /\ Flip(page, k) \in Nat /\ Aligned(Flip(page, k), k)
           /\ Flip(Flip(page, k), k) = page
<1>1. Span[k] \in Nat \ {0}
  BY SpanFacts DEF WordOrder
<1>2. PICK i \in Nat : page = i * Span[k]
  BY DEF Aligned
<1>3. ASSUME NEW j \in Nat PROVE Bit(j * Span[k], k) <=> j % 2 = 1
  BY <1>1, BitOfMultiple DEF Bit
<1>4. ASSUME NEW j \in Nat
      PROVE  /\ (2 * j) % 2 = 0 /\ (2 * j + 1) % 2 = 1
             /\ (2 * j) * Span[k] \in Nat
             /\ (2 * j + 1) * Span[k] = (2 * j) * Span[k] + Span[k]
  <2>1. (2 * j) * Span[k] \in Nat /\ (2 * j + 1) * Span[k] = (2 * j) * Span[k] + Span[k]
    BY <1>1
  <2>2. (2 * j) % 2 = 0 /\ (2 * j + 1) % 2 = 1
    OBVIOUS
  <2> QED
    BY <2>1, <2>2
<1>5. CASE i % 2 = 1
  <2>1. PICK j \in Nat : i = 2 * j + 1
    BY <1>5, <1>1, HalvesAndDoubles
  <2>2. 2 * j \in Nat /\ 2 * j + 1 \in Nat
    OBVIOUS
  <2>3. ~ Bit((2 * j) * Span[k], k) /\ Bit((2 * j + 1) * Span[k], k)
    BY <1>3, <1>4, <2>2
  <2>4. page = (2 * j) * Span[k] + Span[k] /\ Flip(page, k) = (2 * j) * Span[k]
    BY <1>1, <1>2, <1>4, <2>1, <2>3 DEF Flip
  <2>5. Flip((2 * j) * Span[k], k) = page
    BY <2>3, <2>4 DEF Flip
  <2> QED
    BY <1>4, <2>2, <2>4, <2>5 DEF Aligned
<1>6. CASE i % 2 # 1
  <2>1. PICK j \in Nat : i = 2 * j
    BY <1>6, <1>1, HalvesAndDoubles
  <2>2. 2 * j \in Nat /\ 2 * j + 1 \in Nat
    OBVIOUS
  <2>3. ~ Bit((2 * j) * Span[k], k) /\ Bit((2 * j + 1) * Span[k], k)
    BY <1>3, <1>4, <2>2
  <2>4. page = (2 * j) * Span[k] /\ Flip(page, k) = (2 * j + 1) * Span[k]
    BY <1>2, <1>4, <2>1, <2>3 DEF Flip
  <2>5. Flip((2 * j + 1) * Span[k], k) = page
    BY <1>1, <1>4, <2>3, <2>4 DEF Flip
  <2> QED
    BY <1>1, <1>4, <2>2, <2>4, <2>5 DEF Aligned
<1> QED
  BY <1>5, <1>6

Paired(F) == \E b \in F : <<Flip(b[1], b[2]), b[2]>> \in F

(* Only a block whose buddy is free makes a pair of a set that has none. *)
LEMMA LoneBlock ==
    ASSUME NEW k \in 0..(WordOrder - 1), NEW page \in Nat, Aligned(page, k),
           NEW F, F \subseteq Nat \X (0..WordOrder), \A b \in F : Aligned(b[1], b[2]),
           ~ Paired(F), <<Flip(page, k), k>> \notin F,
           NEW G, G \subseteq F \cup {<<page, k>>}
    PROVE  ~ Paired(G)
<1> SUFFICES ASSUME NEW b \in G, <<Flip(b[1], b[2]), b[2]>> \in G PROVE FALSE
  BY DEF Paired
<1> DEFINE new == <<page, k>>
           c   == <<Flip(b[1], b[2]), b[2]>>
<1>1. CASE b = new
  <2>1. c = <<Flip(page, k), k>>
    BY <1>1
  <2>2. Flip(page, k) # page
    BY Halves
  <2> QED
    BY <2>1, <2>2
<1>2. CASE b \in F
  <2>1. c = new
    BY <1>2 DEF Paired
  <2>2. b[2] = k /\ Flip(b[1], k) = page /\ b[1] \in Nat /\ Aligned(b[1], k)
    BY <1>2, <2>1
  <2>3. Flip(page, k) = b[1]
    BY <2>2, FlipBack
  <2>4. b = <<Flip(page, k), k>>
    BY <1>2, <2>2, <2>3
  <2> QED
    BY <1>2, <2>4
<1> QED
  BY <1>1, <1>2

NoPairs == ~ Paired(FreeBlocks)

LEMMA FreeAligned ==
    IInv => /\ FreeBlocks \subseteq Nat \X (0..WordOrder)
            /\ \A b \in FreeBlocks : Aligned(b[1], b[2])
  BY DEF IInv, Layout, Sound

(* A block pushed on a list is the only one that the lists can gain. *)
LEMMA PushFree ==
    ASSUME IInv, NEW k \in Orders, NEW page \in Nat, max_order' = max_order,
           free' = [free EXCEPT ![k] = <<page>> \o free[k]]
    PROVE  FreeBlocks' \subseteq FreeBlocks \cup {<<page, k>>}
<1>1. /\ FreeBlocks = FreeIn(free, Orders) /\ FreeBlocks' = FreeIn(free', Orders)
      /\ free \in [Orders -> Seq(Nat)]
  BY DEF FreeBlocks, FreeIn, Orders, IInv, Types
<1> DEFINE list == <<page>> \o free[k]
<1>2. free[k] \in Seq(Nat)
  BY <1>1
<1>3. /\ list \in Seq(Nat) /\ Len(list) = Len(free[k]) + 1 /\ Len(free[k]) \in Nat
      /\ list[1] = page /\ \A i \in 1..Len(free[k]) : list[i + 1] = free[k][i]
  BY <1>2
<1> HIDE DEF list
<1>4. Range(list) \subseteq {page} \cup Range(free[k])
  <2> SUFFICES ASSUME NEW v \in Range(list), v # page PROVE v \in Range(free[k])
    OBVIOUS
  <2>1. PICK i \in 1..Len(list) : list[i] = v
    BY <1>3, ListFacts
  <2>2. i - 1 \in 1..Len(free[k]) /\ (i - 1) + 1 = i
    BY <1>3, <2>1
  <2>3. list[i] = free[k][i - 1]
    BY <1>3, <2>2
  <2> QED
    BY <1>2, <2>1, <2>2, <2>3, ListFacts
<1>5. Replaced(free', free, Orders, k, list)
  BY <1>1, <1>3, ListReplaced DEF list
<1>6. FreeIn(free', Orders) \subseteq Nat \X Orders
  BY <1>5, FreeType DEF Replaced
<1>7. ASSUME NEW q, NEW j, <<q, j>> \in FreeIn(free', Orders)
      PROVE  <<q, j>> \in FreeIn(free, Orders) \cup {<<page, k>>}
  <2>1. j \in Orders /\ q \in Range(free'[j])
    BY <1>7, InFree
  <2>2. CASE j = k
    <3>1. free'[j] = list
      BY <1>5, <2>2 DEF Replaced
    <3>2. q = page \/ q \in Range(free[k])
      BY <1>4, <2>1, <3>1
    <3> QED
      BY <2>2, <3>2, InFree
  <2>3. CASE j # k
    <3>1. free'[j] = free[j]
      BY <1>5, <2>1, <2>3 DEF Replaced
    <3> QED
      BY <2>1, <3>1, InFree
  <2> QED
    BY <2>2, <2>3
<1>8. ASSUME NEW b \in FreeBlocks' PROVE b \in FreeBlocks \cup {<<page, k>>}
  <2>1. b \in FreeIn(free', Orders)
    BY <1>1, <1>8, Zenon
  <2>2. b \in Nat \X Orders
    BY <1>6, <2>1
  <2>3. PICK q \in Nat, j \in Orders : b = <<q, j>>
    BY <2>2
  <2> QED
    BY <1>1, <1>7, <2>1, <2>3
<1> QED
  BY <1>8

LEMMA SameFree ==
    UNCHANGED <<max_order, free>> => FreeBlocks' = FreeBlocks
  BY DEF FreeBlocks, Orders

LEMMA DoublePairs == IInv /\ NoPairs /\ DoubleReserve => NoPairs'
<1> SUFFICES ASSUME IInv, NoPairs, DoubleReserve PROVE NoPairs'
  OBVIOUS
<1> DEFINE r == reserve_order
<1>1. /\ at = "take" /\ r \in 0..(WordOrder - 1) /\ r \in Orders
      /\ free' = [free EXCEPT ![r] = Doubled] /\ max_order' = max_order
  BY DEF DoubleReserve, Empty, callVars, IInv, Types, Orders, WordOrder
<1>2. Sound(FreeBlocks, held, {}, Span[r])
  BY <1>1 DEF IInv, Layout, InHand
<1>3. \A page : <<page, r>> \notin FreeBlocks
  BY <1>1, <1>2, SoundGrow
<1>4. free[r] = << >>
  <2>1. free[r] \in Seq(Nat)
    BY <1>1 DEF IInv, Types
  <2>2. FreeBlocks = FreeIn(free, Orders)
    BY DEF FreeBlocks, FreeIn
  <2>3. Range(free[r]) = {}
    BY <1>1, <1>3, <2>2, InFree
  <2>4. ~ (1 \in 1..Len(free[r]))
    BY <2>1, <2>3, ListFacts
  <2> QED
    BY <2>1, <2>4
<1>5. Doubled = <<Span[r]>> \o free[r]
  BY <1>4 DEF Doubled
<1>6. Span[r] \in Nat /\ Aligned(Span[r], r)
  <2>1. Span[r] \in Nat /\ Span[r] = 1 * Span[r]
    BY <1>1, SpanFacts DEF WordOrder
  <2> QED
    BY <2>1 DEF Aligned
<1>7. FreeBlocks' \subseteq FreeBlocks \cup {<<Span[r], r>>}
  BY <1>1, <1>5, <1>6, PushFree
<1>8. ~ Paired(FreeBlocks')
  BY <1>1, <1>3, <1>6, <1>7, FreeAligned, LoneBlock DEF NoPairs
<1> QED
  BY <1>8 DEF NoPairs, Paired

LEMMA FewerPairs ==
    ASSUME NoPairs, FreeBlocks' \subseteq FreeBlocks
    PROVE  NoPairs'
<1>1. ~ Paired(FreeBlocks')
  BY DEF NoPairs, Paired
<1> QED
  BY <1>1 DEF NoPairs, Paired

LEMMA TakePairs == IInv /\ NoPairs /\ Take => NoPairs'
<1> SUFFICES ASSUME IInv, NoPairs, Take PROVE NoPairs'
  OBVIOUS
<1>1. /\ level \in Orders /\ free[level] # << >> /\ max_order' = max_order
      /\ free' = [free EXCEPT ![level] = Tail(free[level])]
  BY DEF Take, IInv, Types, Orders
<1>2. /\ free \in [Orders -> Seq(Nat)] /\ Lists(free, Orders)
      /\ free[level] \in Seq(Nat) /\ IsInjective(free[level])
  BY <1>1 DEF IInv, Distinct, Lists
<1>3. /\ Tail(free[level]) \in Seq(Nat) /\ IsInjective(Tail(free[level]))
      /\ Range(Tail(free[level])) = Range(free[level]) \ {Head(free[level])}
  BY <1>1, <1>2, TailList
<1>4. Lost(free', free, Orders, level, Head(free[level]))
  BY <1>1, <1>2, <1>3, ListReplaced DEF Lost
<1>5. FreeIn(free', Orders) = FreeIn(free, Orders) \ {<<Head(free[level]), level>>}
  BY <1>2, <1>4, ListLoses
<1>6. FreeBlocks = FreeIn(free, Orders) /\ FreeBlocks' = FreeIn(free', Orders)
  BY <1>1 DEF FreeBlocks, FreeIn, Orders
<1> QED
  BY <1>5, <1>6, FewerPairs

(* The buddy of the half that is put away is the half in hand. *)
LEMMA SplitPairs == IInv /\ NoPairs /\ Split => NoPairs'
<1> SUFFICES ASSUME IInv, NoPairs, Split PROVE NoPairs'
  OBVIOUS
<1> DEFINE k == level - 1
           p == Flip(block, k)
<1>1. /\ at = "split" /\ k \in Orders /\ k \in 0..(WordOrder - 1) /\ k + 1 = level
      /\ block \in Nat /\ max_order' = max_order
      /\ free' = [free EXCEPT ![k] = <<p>> \o free[k]]
  <2>1. /\ max_order \in 0..(WordOrder - 3) /\ order \in Nat /\ level \in Nat
        /\ level <= max_order /\ order < level
    BY DEF Split, IInv, Types, Reach, TooBig
  <2>2. k \in Orders /\ k \in 0..(WordOrder - 1) /\ k + 1 = level
    BY <2>1 DEF Orders, WordOrder
  <2>3. block \in Nat
    BY DEF IInv, Types, Addresses
  <2> QED
    BY <2>1, <2>2, <2>3 DEF Split, Push
<1>2. Sound(FreeBlocks, held, {<<block, k + 1>>}, Span[reserve_order])
  BY <1>1 DEF IInv, Layout, InHand
<1>3. Span[reserve_order] \in Nat
  BY MaxOrderFacts DEF IInv, Types
<1> HIDE DEF k
<1>4. /\ Sound(FreeBlocks \cup {<<p, k>>}, held, {<<block, k>>}, Span[reserve_order])
      /\ p \in Nat
  BY <1>1, <1>2, <1>3, SoundSplit
<1>5. <<block, k>> \notin FreeBlocks /\ Aligned(block, k)
  <2>1. <<block, k>>[1] = block /\ <<block, k>>[2] = k
    OBVIOUS
  <2> QED
    BY <1>4, <2>1 DEF Sound
<1>6. Aligned(p, k) /\ Flip(p, k) = block
  BY <1>1, <1>5, FlipBack
<1> HIDE DEF p
<1>7. FreeBlocks' \subseteq FreeBlocks \cup {<<p, k>>}
  BY <1>1, <1>4, PushFree
<1>8. ~ Paired(FreeBlocks')
  BY <1>1, <1>4, <1>5, <1>6, <1>7, FreeAligned, LoneBlock DEF NoPairs
<1> QED
  BY <1>8 DEF NoPairs, Paired

LEMMA MergePairs == IInv /\ NoPairs /\ Merge => NoPairs'
<1> SUFFICES ASSUME IInv, NoPairs, Merge PROVE NoPairs'
  OBVIOUS
<1> DEFINE p == Flip(block, level)
<1>1. /\ level \in Orders /\ p \in Range(free[level]) /\ max_order' = max_order
      /\ free' = [free EXCEPT ![level] = Unlinked(free[level], p)]
  BY DEF Merge, BuddyFree, IInv, Types, Reach, TooBig, Orders
<1>2. /\ free \in [Orders -> Seq(Nat)] /\ Lists(free, Orders)
      /\ free[level] \in Seq(Nat) /\ IsInjective(free[level])
  BY <1>1 DEF IInv, Distinct, Lists
<1> HIDE DEF p
<1>3. /\ Unlinked(free[level], p) \in Seq(Nat) /\ IsInjective(Unlinked(free[level], p))
      /\ Range(Unlinked(free[level], p)) = Range(free[level]) \ {p}
  BY <1>1, <1>2, UnlinkList
<1>4. Lost(free', free, Orders, level, p)
  BY <1>1, <1>2, <1>3, ListReplaced DEF Lost
<1>5. FreeIn(free', Orders) = FreeIn(free, Orders) \ {<<p, level>>}
  BY <1>2, <1>4, ListLoses
<1>6. FreeBlocks = FreeIn(free, Orders) /\ FreeBlocks' = FreeIn(free', Orders)
  BY <1>1 DEF FreeBlocks, FreeIn, Orders
<1> QED
  BY <1>5, <1>6, FewerPairs

LEMMA PutBackPairs == IInv /\ NoPairs /\ PutBack => NoPairs'
<1> SUFFICES ASSUME IInv, NoPairs, PutBack PROVE NoPairs'
  OBVIOUS
<1>1. /\ at = "merge" /\ level \in Orders /\ level \in 0..(WordOrder - 1)
      /\ block \in Nat /\ max_order' = max_order
      /\ free' = [free EXCEPT ![level] = <<block>> \o free[level]]
      /\ Flip(block, level) \notin Range(free[level])
  <2>1. at = "merge" /\ level \in 0..max_order /\ block \in Nat
    BY DEF PutBack, IInv, Types, Reach, TooBig, Addresses
  <2>2. level \in Orders /\ level \in 0..(WordOrder - 1)
    BY <2>1 DEF IInv, Types, Orders, WordOrder
  <2> QED
    BY <2>1, <2>2 DEF PutBack, Push, BuddyFree
<1>2. Aligned(block, level)
  <2>1. <<block, level>> \in InHand /\ <<block, level>>[1] = block /\ <<block, level>>[2] = level
    BY <1>1 DEF InHand
  <2> QED
    BY <2>1 DEF IInv, Layout, Sound
<1>3. <<Flip(block, level), level>> \notin FreeBlocks
  <2>1. FreeBlocks = FreeIn(free, Orders)
    BY DEF FreeBlocks, FreeIn
  <2> QED
    BY <1>1, <2>1, InFree
<1>4. FreeBlocks' \subseteq FreeBlocks \cup {<<block, level>>}
  BY <1>1, PushFree
<1>5. ~ Paired(FreeBlocks')
  BY <1>1, <1>2, <1>3, <1>4, FreeAligned, LoneBlock DEF NoPairs
<1> QED
  BY <1>5 DEF NoPairs, Paired

LEMMA NextPairs == IInv /\ NoPairs /\ [Next]_vars => NoPairs'
<1> SUFFICES ASSUME IInv, NoPairs, [Next]_vars PROVE NoPairs'
  OBVIOUS
<1>1. CASE Alloc \/ Free \/ Return \/ AllocTooBig \/ Climb \/ WaitForItself
  <2>1. UNCHANGED <<max_order, free>>
    BY <1>1 DEF Alloc, Free, Return, AllocTooBig, Climb, WaitForItself
  <2> QED
    BY <2>1, SameFree, FewerPairs
<1>2. CASE Spin \/ UNCHANGED vars
  <2>1. UNCHANGED <<max_order, free>>
    BY <1>2 DEF Spin, vars
  <2> QED
    BY <2>1, SameFree, FewerPairs
<1> QED
  BY <1>1, <1>2, DoublePairs, TakePairs, SplitPairs, MergePairs, PutBackPairs
     DEF Next, Call, Step

LEMMA InitPairs == Init => NoPairs
<1> SUFFICES ASSUME Init, NEW b \in FreeBlocks, <<Flip(b[1], b[2]), b[2]>> \in FreeBlocks
             PROVE  FALSE
  BY DEF NoPairs, Paired
<1>1. FreeBlocks = {<<Span[k], k>> : k \in 0..(reserve_order - 1)}
  BY InitTypes
<1>2. reserve_order \in 0..(WordOrder - 3)
  <2>1. max_order \in 0..(WordOrder - 3) /\ reserve_order \in 0..max_order
    BY InitTypes DEF Types, Orders
  <2> QED
    BY <2>1 DEF WordOrder
<1>3. PICK k \in 0..(reserve_order - 1) : b = <<Span[k], k>>
  BY <1>1
<1>4. Flip(Span[k], k) = Span[k]
  <2>1. PICK j \in 0..(reserve_order - 1) : <<Flip(Span[k], k), k>> = <<Span[j], j>>
    BY <1>1, <1>3
  <2> QED
    BY <2>1
<1>5. k \in 0..(WordOrder - 1) /\ Span[k] \in Nat /\ Span[k] = 1 * Span[k]
  <2>1. k \in 0..(WordOrder - 1) /\ k \in 0..WordOrder
    BY <1>2 DEF WordOrder
  <2>2. Span[k] \in Nat
    BY <2>1, SpanFacts
  <2> QED
    BY <2>1, <2>2
<1>6. Aligned(Span[k], k)
  BY <1>5 DEF Aligned
<1> QED
  BY <1>4, <1>5, <1>6, Halves

LEMMA SpecPairs == Spec => [](IInv /\ NoPairs)
<1>1. IInv /\ NoPairs /\ [Next]_vars => NoPairs'
  BY NextPairs
<1> QED
  BY <1>1, InitPairs, SpecIInv, PTL DEF Spec

(* What was split is merged again: between two calls no block lies in a free list
   together with its buddy, whatever was allocated, freed and doubled before
   (mem.cpp:452-502).  The invariant says it of every moment of a call, since the
   buddy of a block that goes into a list is never in one. *)
THEOREM BuddiesMerged == Spec => []Merged
<1>1. NoPairs => Merged
  BY DEF NoPairs, Paired, Merged
<1> QED
  BY <1>1, SpecPairs, PTL
-----------------------------------------------------------------------------
(* A heap that is full *)

LEMMA TimesMonotone ==
    ASSUME NEW s \in Nat \ {0}, NEW a \in Nat, NEW b \in Nat
    PROVE  /\ a * s \in Nat /\ (a + 1) * s = a * s + s
           /\ a <= b => a * s <= b * s
           /\ a * s < b * s => a < b
<1>1. a * s \in Nat /\ b * s \in Nat /\ (a + 1) * s = a * s + s
  OBVIOUS
<1>2. ASSUME NEW x \in Nat, NEW y \in Nat, x <= y PROVE x * s <= y * s
  <2>1. PICK d \in Nat : y = x + d
    <3>1. y - x \in Nat /\ y = x + (y - x)
      BY <1>2
    <3> QED
      BY <3>1
  <2>2. y * s = x * s + d * s /\ x * s \in Nat /\ d * s \in Nat
    BY <2>1
  <2> QED
    BY <2>2
<1>3. a * s < b * s => a < b
  <2>1. ~ (a < b) => b <= a
    OBVIOUS
  <2> QED
    BY <1>1, <1>2, <2>1
<1> QED
  BY <1>1, <1>2, <1>3

LEMMA SpanSum ==
    ASSUME NEW k \in 0..WordOrder, NEW j \in 0..WordOrder, k + j <= WordOrder
    PROVE  Span[k + j] = Span[j] * Span[k]
<1> DEFINE S == {i \in 0..(WordOrder - k) : Span[k + i] # Span[i] * Span[k]}
           m == Min(S)
<1> SUFFICES ASSUME Span[k + j] # Span[j] * Span[k] PROVE FALSE
  OBVIOUS
<1>1. Span[k] \in Nat
  BY SpanFacts
<1>2. S \in SUBSET Nat /\ S # {}
  <2>1. j \in 0..(WordOrder - k) /\ 0..(WordOrder - k) \subseteq Nat
    BY DEF WordOrder
  <2> QED
    BY <2>1
<1>3. m \in S /\ \A i \in S : m <= i
  BY <1>2, MinNat
<1> HIDE DEF m
<1>4. m # 0
  <2>1. Span[k + 0] = Span[0] * Span[k]
    BY <1>1, SpanFacts DEF WordOrder
  <2> QED
    BY <1>3, <2>1
<1>5. /\ m - 1 \in 0..(WordOrder - k) /\ m - 1 \notin S
      /\ m - 1 \in 0..(WordOrder - 1) /\ m - 1 \in 0..WordOrder /\ (m - 1) + 1 = m
      /\ k + (m - 1) \in 0..(WordOrder - 1) /\ k + (m - 1) \in 0..WordOrder
      /\ (k + (m - 1)) + 1 = k + m
  BY <1>3, <1>4 DEF WordOrder
<1>6. Span[k + (m - 1)] = Span[m - 1] * Span[k]
  BY <1>5
<1>7. /\ Span[m] = 2 * Span[m - 1] /\ Span[m - 1] \in Nat
      /\ Span[k + m] = 2 * Span[k + (m - 1)]
  <2>1. Span[(m - 1) + 1] = 2 * Span[m - 1] /\ Span[m - 1] \in Nat
    BY <1>5, SpanFacts, SpanAssumption
  <2>2. Span[(k + (m - 1)) + 1] = 2 * Span[k + (m - 1)]
    BY <1>5, SpanAssumption
  <2> QED
    BY <1>5, <2>1, <2>2
<1>8. 2 * (Span[m - 1] * Span[k]) = (2 * Span[m - 1]) * Span[k]
  BY <1>1, <1>7
<1>9. Span[k + m] = Span[m] * Span[k]
  BY <1>6, <1>7, <1>8
<1> QED
  BY <1>3, <1>9

(* Of two aligned blocks that overlap the smaller lies in the larger. *)
LEMMA Nested ==
    ASSUME NEW j \in 0..WordOrder, NEW k \in 0..j, NEW x \in Nat, NEW y \in Nat,
           Aligned(x, k), Aligned(y, j), x < y + Span[j], y < x + Span[k]
    PROVE  y <= x /\ x + Span[k] <= y + Span[j]
<1>1. k \in 0..WordOrder /\ j - k \in 0..WordOrder /\ k + (j - k) = j
  BY DEF WordOrder
<1>2. Span[k] \in Nat \ {0} /\ Span[j - k] \in Nat /\ Span[j] \in Nat
  BY <1>1, SpanFacts
<1>3. Span[j] = Span[j - k] * Span[k]
  <2>1. Span[k + (j - k)] = Span[j - k] * Span[k]
    BY <1>1, SpanSum DEF WordOrder
  <2> QED
    BY <1>1, <2>1
<1>4. PICK i \in Nat : x = i * Span[k]
  BY DEF Aligned
<1>5. PICK h \in Nat : y = h * Span[j]
  BY DEF Aligned
<1> DEFINE q == Span[j - k]
           s == Span[k]
<1> HIDE DEF q, s
<1>6. q \in Nat /\ s \in Nat \ {0} /\ Span[j] = q * s /\ Span[k] = s
  BY <1>2, <1>3 DEF q, s
<1>7. /\ h * q \in Nat /\ y = (h * q) * s
      /\ h * q + q \in Nat /\ y + Span[j] = (h * q + q) * s
  <2>1. h * q \in Nat /\ h * (q * s) = (h * q) * s
    BY <1>6
  <2> DEFINE a == h * q
  <2>2. a \in Nat
    BY <2>1
  <2> HIDE DEF a
  <2>3. (a + q) * s = a * s + q * s /\ a + q \in Nat
    BY <1>6, <2>2
  <2> QED
    BY <1>5, <1>6, <2>1, <2>3 DEF a
<1> DEFINE a == h * q
           c == h * q + q
<1>8. a \in Nat /\ c \in Nat /\ y = a * s /\ y + Span[j] = c * s
  BY <1>7
<1> HIDE DEF a, c
<1>9. x = i * s /\ x + Span[k] = (i + 1) * s /\ i + 1 \in Nat
  BY <1>4, <1>6, TimesMonotone
<1>10. i * s < c * s /\ a * s < (i + 1) * s
  BY <1>8, <1>9
<1>11. i < c /\ a < i + 1
  BY <1>6, <1>8, <1>9, <1>10, TimesMonotone
<1>12. a <= i /\ i + 1 <= c
  BY <1>8, <1>11
<1>13. a * s <= i * s /\ (i + 1) * s <= c * s
  BY <1>6, <1>8, <1>9, <1>12, TimesMonotone
<1> QED
  BY <1>8, <1>9, <1>13

(* On the way up the lists below have been found empty, and the half that
   double_reserve adds is of the order that is looked at next. *)
Searched ==
    at = "take" => /\ level = order \/ level <= reserve_order
                   /\ \A k \in Orders : order <= k /\ k < level => free[k] = << >>

LEMMA DoubleSearched == IInv /\ Searched /\ DoubleReserve => Searched'
<1> SUFFICES ASSUME IInv, Searched, DoubleReserve PROVE Searched'
  OBVIOUS
<1>1. /\ at = "take" /\ level >= reserve_order /\ reserve_order' = reserve_order + 1
      /\ free' = [free EXCEPT ![reserve_order] = Doubled]
      /\ UNCHANGED <<max_order, at, order, level>>
  BY DEF DoubleReserve, Empty, callVars
<1>2. /\ free \in [Orders -> Seq(Nat)] /\ reserve_order \in Nat /\ level \in Nat
      /\ order \in Nat /\ Orders' = Orders
  BY <1>1 DEF IInv, Types, Orders, TooBig
<1>3. ASSUME NEW k \in Orders, order <= k, k < level PROVE free'[k] = << >>
  <2>1. k # reserve_order
    BY <1>1, <1>2, <1>3 DEF Searched, Orders
  <2> QED
    BY <1>1, <1>2, <1>3, <2>1 DEF Searched
<1>4. level = order \/ level <= reserve_order + 1
  BY <1>1, <1>2 DEF Searched
<1> QED
  BY <1>1, <1>2, <1>3, <1>4 DEF Searched

LEMMA NextSearched == IInv /\ Searched /\ [Next]_vars => Searched'
<1> SUFFICES ASSUME IInv, Searched, [Next]_vars PROVE Searched'
  OBVIOUS
<1>1. CASE Alloc
  <2>1. order' = level' /\ order' \in Nat
    <3>1. PICK pages \in Sizes : order' = GetOrder(pages) /\ level' = GetOrder(pages)
      BY <1>1 DEF Alloc
    <3>2. GetOrder(pages) \in 0..TooBig
      BY <3>1, GetOrderFacts, SizesAssumption DEF IInv
    <3> QED
      BY <3>1, <3>2
  <2>2. \A k \in Orders' : ~ (order' <= k /\ k < level')
    BY <2>1, <1>1 DEF Orders, Alloc
  <2> QED
    BY <2>1, <2>2 DEF Searched
<1>2. CASE Climb
  <2>1. /\ at = "take" /\ free[level] = << >> /\ level < reserve_order /\ level' = level + 1
        /\ UNCHANGED <<max_order, free, reserve_order, at, order>>
    BY <1>2 DEF Climb, Empty
  <2>2. Orders' = Orders /\ Orders \subseteq Nat /\ level \in Nat /\ reserve_order \in Nat
    BY <2>1 DEF IInv, Types, Orders, TooBig
  <2>3. level' <= reserve_order'
    BY <2>1, <2>2
  <2>4. ASSUME NEW k \in Orders, order <= k, k < level + 1 PROVE free[k] = << >>
    <3>1. k < level \/ k = level
      BY <2>2, <2>4
    <3> QED
      BY <2>1, <2>4, <3>1 DEF Searched
  <2> QED
    BY <2>1, <2>2, <2>3, <2>4 DEF Searched
<1>3. CASE AllocTooBig \/ WaitForItself \/ Take \/ Return \/ Free \/ PutBack
  <2>1. at' # "take"
    BY <1>3 DEF AllocTooBig, WaitForItself, Take, Return, Free, PutBack
  <2> QED
    BY <2>1 DEF Searched
<1>4. CASE Split \/ Merge
  <2>1. at' # "take"
    BY <1>4 DEF Split, Merge
  <2> QED
    BY <2>1 DEF Searched
<1>5. CASE Spin \/ UNCHANGED vars
  <2>1. UNCHANGED <<max_order, free, reserve_order, at, order, level>>
    BY <1>5 DEF Spin, vars, callVars
  <2> QED
    BY <2>1 DEF Searched, Orders
<1> QED
  BY <1>1, <1>2, <1>3, <1>4, <1>5, DoubleSearched DEF Next, Call, Step

LEMMA SpecSearched == Spec => [](IInv /\ NoPairs /\ Searched)
<1>1. Init => Searched
  BY DEF Init, Searched
<1>2. IInv /\ Searched /\ [Next]_vars => Searched'
  BY NextSearched
<1> QED
  BY <1>1, <1>2, SpecPairs, PTL DEF Spec

(* Where a run of pages is covered by free blocks smaller than it, two of them
   are buddies: the buddy of the smallest is another, or overlaps with one. *)
LEMMA RunHasPair ==
    ASSUME NEW F, F \subseteq Nat \X (0..WordOrder),
           \A b \in F : Aligned(b[1], b[2]),
           \A b, c \in F : b # c => Apart(b, c),
           NEW k \in 0..WordOrder, NEW y \in Nat, Aligned(y, k),
           \A b \in F : b[2] < k,
           \A p \in y..(y + Span[k] - 1) : \E b \in F : b[1] <= p /\ p < End(b)
    PROVE  Paired(F)
<1> SUFFICES ASSUME ~ Paired(F) PROVE FALSE
  OBVIOUS
<1> DEFINE Meets(b) == b[1] < y + Span[k] /\ y < End(b)
           M == {j \in 0..WordOrder : \E b \in F : b[2] = j /\ Meets(b)}
           m == Min(M)
<1>1. \A j \in 0..WordOrder : Span[j] \in Nat /\ Span[j] >= 1
  BY SpanFacts
<1>2. M \in SUBSET Nat /\ M # {}
  <2>1. y \in y..(y + Span[k] - 1)
    BY <1>1
  <2>2. PICK b \in F : b[1] <= y /\ y < End(b)
    BY <2>1
  <2>3. Meets(b) /\ b[2] \in 0..WordOrder
    BY <1>1, <2>2
  <2> QED
    BY <2>3 DEF WordOrder
<1>3. m \in M /\ \A j \in M : m <= j
  BY <1>2, MinNat
<1> HIDE DEF m
<1>4. PICK b \in F : b[2] = m /\ Meets(b)
  BY <1>3
<1> DEFINE x == b[1]
           c == Clear(x, m)
<1>5. /\ x \in Nat /\ b = <<x, m>> /\ m \in 0..(WordOrder - 1) /\ m \in 0..k
      /\ m + 1 \in 0..WordOrder /\ m + 1 \in 0..k /\ m < k /\ Aligned(x, m)
      /\ x < y + Span[k] /\ y < x + Span[m]
  <2>1. b \in Nat \X (0..WordOrder) /\ m < k /\ Aligned(b[1], m)
    BY <1>4
  <2>2. x \in Nat /\ b = <<x, m>> /\ m \in 0..WordOrder
    BY <1>4, <2>1
  <2>3. m \in 0..(WordOrder - 1) /\ m \in 0..k /\ m + 1 \in 0..WordOrder /\ m + 1 \in 0..k
    BY <2>1, <2>2 DEF WordOrder
  <2> QED
    BY <1>4, <2>1, <2>2, <2>3 DEF End
<1> HIDE DEF M
<1>6. /\ c \in Nat /\ Aligned(c, m + 1) /\ Flip(x, m) # x
      /\ {x, Flip(x, m)} = {c, c + Span[m]}
  BY <1>5, Halves
<1>7. Span[m + 1] = Span[m] + Span[m] /\ Span[m] \in Nat /\ Span[m] >= 1 /\ Span[k] \in Nat
  <2>1. Span[m + 1] = 2 * Span[m]
    BY <1>5, SpanAssumption
  <2> QED
    BY <1>1, <1>5, <2>1
<1> DEFINE z == Flip(x, m)
<1>8. z \in Nat /\ Aligned(z, m)
  BY <1>5, FlipBack
<1> HIDE DEF x, c, z
<1>9. /\ c <= x /\ x + Span[m] <= c + Span[m + 1]
      /\ c <= z /\ z + Span[m] <= c + Span[m + 1] /\ z # x
  BY <1>5, <1>6, <1>7, <1>8 DEF z
<1>10. y <= c /\ c + Span[m + 1] <= y + Span[k]
  <2>1. c < y + Span[k] /\ y < c + Span[m + 1]
    BY <1>5, <1>6, <1>7, <1>9
  <2> QED
    BY <1>5, <1>6, <2>1, Nested
<1>11. z \in y..(y + Span[k] - 1)
  BY <1>6, <1>7, <1>8, <1>9, <1>10
<1>12. PICK d \in F : d[1] <= z /\ z < End(d)
  BY <1>11
<1>13. /\ d[1] \in Nat /\ d[2] \in 0..WordOrder /\ d = <<d[1], d[2]>> /\ Aligned(d[1], d[2])
       /\ End(d) = d[1] + Span[d[2]] /\ Span[d[2]] \in Nat
  BY <1>1 DEF End
<1>14. m <= d[2]
  <2>1. Meets(d)
    BY <1>7, <1>11, <1>12, <1>13
  <2>2. d[2] \in M
    BY <1>13, <2>1 DEF M
  <2> QED
    BY <1>3, <2>2
<1>15. CASE d[2] = m
  <2>1. d[1] <= z /\ z + Span[m] <= d[1] + Span[m]
    <3>1. z < d[1] + Span[m] /\ d[1] < z + Span[m] /\ m \in 0..m /\ m \in 0..WordOrder
      BY <1>5, <1>7, <1>8, <1>12, <1>13, <1>15
    <3> QED
      BY <1>8, <1>13, <1>15, <3>1, Nested
  <2>2. d[1] = z
    BY <1>7, <1>8, <1>13, <2>1
  <2>3. d = <<Flip(b[1], b[2]), b[2]>>
    BY <1>4, <1>13, <1>15, <2>2 DEF z, x
  <2> QED
    BY <2>3 DEF Paired
<1>16. CASE d[2] # m
  <2>1. m + 1 \in 0..d[2]
    BY <1>5, <1>13, <1>14, <1>16
  <2>2. c < d[1] + Span[d[2]] /\ d[1] < c + Span[m + 1]
    BY <1>6, <1>7, <1>8, <1>9, <1>12, <1>13
  <2>3. d[1] <= c /\ c + Span[m + 1] <= d[1] + Span[d[2]]
    BY <1>6, <1>13, <2>1, <2>2, Nested
  <2>4. Apart(b, d)
    BY <1>4, <1>16
  <2>5. x + Span[m] <= d[1] \/ d[1] + Span[d[2]] <= x
    BY <1>5, <1>13, <2>4 DEF Apart, End, x
  <2> QED
    BY <1>5, <1>6, <1>7, <1>9, <1>13, <2>3, <2>5
<1> QED
  BY <1>15, <1>16

LEMMA FullHeap == IInv /\ NoPairs /\ Searched => FullMeansFull
<1> SUFFICES ASSUME IInv, NoPairs, Searched, Full,
                    NEW run \in 0..(Span[max_order - order] - 1),
                    \A b \in held :
                       PagesOf(b) \cap PagesOf(<<run * Span[order], order>>) = {}
             PROVE  FALSE
  BY DEF FullMeansFull
<1> DEFINE y == run * Span[order]
<1>1. /\ at = "take" /\ level = max_order /\ reserve_order = max_order
      /\ free[max_order] = << >>
      /\ order \in 0..max_order /\ max_order \in 0..(WordOrder - 3)
  <2>1. /\ at = "take" /\ level <= max_order /\ free[level] = << >>
        /\ level >= reserve_order /\ reserve_order >= max_order
    BY DEF Full, Empty
  <2>2. /\ max_order \in 0..(WordOrder - 3) /\ reserve_order \in 0..max_order
        /\ order \in Nat /\ level \in Nat /\ order <= level
    BY <2>1 DEF IInv, Types, Reach, Orders, TooBig
  <2> QED
    BY <2>1, <2>2
<1>2. /\ order \in 0..WordOrder /\ max_order \in 0..WordOrder
      /\ max_order - order \in 0..WordOrder /\ order + (max_order - order) = max_order
  BY <1>1 DEF WordOrder
<1>3. \A j \in 0..WordOrder : Span[j] \in Nat /\ Span[j] >= 1
  BY SpanFacts
<1>4. /\ y \in Nat /\ Aligned(y, order) /\ y + Span[order] <= Span[max_order]
  <2>1. /\ run \in Nat /\ run + 1 \in Nat /\ run + 1 <= Span[max_order - order]
        /\ Span[order] \in Nat \ {0} /\ Span[max_order - order] \in Nat
    BY <1>2, <1>3
  <2>2. /\ y \in Nat /\ (run + 1) * Span[order] = y + Span[order]
        /\ (run + 1) * Span[order] <= Span[max_order - order] * Span[order]
    BY <2>1, TimesMonotone
  <2>3. Span[max_order] = Span[max_order - order] * Span[order]
    <3>1. Span[order + (max_order - order)] = Span[max_order - order] * Span[order]
      BY <1>2, SpanSum DEF WordOrder
    <3> QED
      BY <1>2, <3>1
  <2>4. y + Span[order] <= Span[max_order]
    BY <2>2, <2>3
  <2>5. Aligned(y, order)
    BY <2>1 DEF Aligned
  <2> QED
    BY <2>2, <2>4, <2>5
<1> HIDE DEF y
<1>5. InHand = {} /\ Sound(FreeBlocks, held, {}, Span[max_order])
  BY <1>1 DEF InHand, IInv, Layout
<1>6. /\ FreeBlocks \cup held \subseteq Nat \X (0..WordOrder)
      /\ Tiles(FreeBlocks \cup held, Span[max_order])
  BY <1>5 DEF Sound
<1>7. \A b \in FreeBlocks : b[2] < order
  <2> SUFFICES ASSUME NEW b \in FreeBlocks, b[2] >= order PROVE FALSE
    <3>1. \A b \in FreeBlocks : b[2] \in Nat
      BY <1>6 DEF WordOrder
    <3> QED
      BY <1>2, <3>1
  <2>1. b[2] \in Orders /\ b[1] \in Range(free[b[2]])
    BY DEF FreeBlocks
  <2>2. free[b[2]] = << >>
    <3>1. b[2] < max_order \/ b[2] = max_order
      BY <1>1, <2>1 DEF Orders
    <3> QED
      BY <1>1, <2>1, <3>1 DEF Searched
  <2> QED
    BY <2>1, <2>2 DEF Range
<1>8. \A p \in y..(y + Span[order] - 1) : \E b \in FreeBlocks : b[1] <= p /\ p < End(b)
  <2> SUFFICES ASSUME NEW p \in y..(y + Span[order] - 1)
               PROVE  \E b \in FreeBlocks : b[1] <= p /\ p < End(b)
    OBVIOUS
  <2>1. p \in 0..(Span[max_order] - 1) /\ p \in Nat
    BY <1>2, <1>3, <1>4
  <2>2. PICK b \in FreeBlocks \cup held : b[1] <= p /\ p < End(b)
    BY <1>6, <2>1 DEF Tiles
  <2>3. p \in PagesOf(b)
    BY <1>6, <2>1, <2>2, PagesFacts
  <2>4. p \in PagesOf(<<y, order>>)
    BY DEF PagesOf
  <2>5. b \notin held
    BY <2>3, <2>4 DEF y
  <2> QED
    BY <2>2, <2>5
<1>9. \A b, c \in FreeBlocks : b # c => Apart(b, c)
  BY <1>6 DEF Tiles
<1>10. Paired(FreeBlocks)
  BY <1>2, <1>4, <1>7, <1>8, <1>9, FreeAligned, RunHasPair
<1> QED
  BY <1>10 DEF NoPairs

(* The allocator gives up, and goes round for ever, only when no aligned run of the
   length asked for is free of blocks that callers have: pages are never kept
   from a request by being cut up (mem.cpp:436-480). *)
THEOREM FullOnlyWhenTaken == Spec => []FullMeansFull
<1>1. IInv /\ NoPairs /\ Searched => FullMeansFull
  BY FullHeap
<1> QED
  BY <1>1, SpecSearched, PTL
=============================================================================
