---------------------------- MODULE ShellProofs -----------------------------
(***************************************************************************)
(* That every local of the shell has its type, that the words of a line fit *)
(* in the array of interpret, are all found and are those that a command    *)
(* gets, and that what is meant is called: for every size of a word and a   *)
(* page, every length of line, whatever is typed.                           *)
(*                                                                          *)
(* First the operators: a text that spells a number in a base is what atoi  *)
(* makes the number of.  Then what holds while the kernel prints            *)
(* (PrintInv), while split reads (SplitInv) and of what is meant            *)
(* (MeantInv); ShellInv is all of it.                                       *)
(***************************************************************************)
EXTENDS Shell, SequenceTheorems, NaturalsInduction, WellFoundedInduction, TLAPS

-----------------------------------------------------------------------------
(* Recursion: a recursive function exists, so what is defined by one is what it says. *)

LEMMA LeastNatural ==
    ASSUME NEW S \in SUBSET Nat, S # {}
    PROVE  \E f \in S : \A g \in S : f <= g
<1> DEFINE Less == OpToRel(<, Nat)
<1>1. IsWellFoundedOn(Less, Nat)
  BY NatLessThanWellFounded
<1>2. \A x, y \in Nat : <<y, x>> \in Less <=> y < x
  BY DEF OpToRel
<1> HIDE DEF Less
<1>3. PICK f \in S : \A g \in S : ~(<<g, f>> \in Less)
  BY <1>1, WFMin
<1>4. ASSUME NEW g \in S PROVE f <= g
  <2>1. f \in Nat /\ g \in Nat /\ ~(g < f)
    BY <1>2, <1>3
  <2> QED
    BY <2>1
<1> QED
  BY <1>4

LEMMA Induction ==
    ASSUME NEW S, 0 \in S, \A n \in Nat : n \in S => n + 1 \in S
    PROVE  Nat \subseteq S
<1> SUFFICES ASSUME Nat \ S # {} PROVE FALSE
  OBVIOUS
<1>1. PICK f \in Nat \ S : \A g \in Nat \ S : f <= g
  BY LeastNatural
<1>2. f - 1 \in Nat /\ f - 1 + 1 = f
  BY <1>1
<1> QED
  BY <1>1, <1>2

(* Some function has z at 0 and makes each of its values from the last. *)
Recursive(V, n, z, s) ==
    \E g \in [0..n -> V] : g[0] = z /\ \A k \in 1..n : g[k] = s[<<k, g[k - 1]>>]

LEMMA Recursion ==
    ASSUME NEW V, NEW n \in Nat, NEW z \in V, NEW s \in [(1..n) \X V -> V]
    PROVE  Recursive(V, n, z, s)
<1> DEFINE Ends(m) == Recursive(V, m, z, s)
           S == {m \in Nat : m <= n => Ends(m)}
<1>1. 0 \in S
  <2> DEFINE g == [k \in 0..0 |-> z]
  <2>1. g \in [0..0 -> V] /\ g[0] = z
    OBVIOUS
  <2> HIDE DEF g
  <2>2. Ends(0)
    BY <2>1 DEF Recursive
  <2> QED
    BY <2>2
<1>2. ASSUME NEW m \in Nat, m \in S PROVE m + 1 \in S
  <2> SUFFICES ASSUME m + 1 <= n PROVE Ends(m + 1)
    OBVIOUS
  <2>1. PICK g \in [0..m -> V] : g[0] = z /\ \A k \in 1..m : g[k] = s[<<k, g[k - 1]>>]
    BY <1>2 DEF Recursive
  <2> DEFINE h == [k \in 0..(m + 1) |-> IF k = m + 1 THEN s[<<m + 1, g[m]>>] ELSE g[k]]
  <2>2. h \in [0..(m + 1) -> V]
    <3>1. <<m + 1, g[m]>> \in (1..n) \X V
      BY <2>1
    <3> QED
      BY <2>1, <3>1
  <2>3. \A k \in 0..m : h[k] = g[k]
    OBVIOUS
  <2>4. h[m + 1] = s[<<m + 1, g[m]>>]
    OBVIOUS
  <2> HIDE DEF h
  <2>5. h[m + 1] = s[<<m + 1, h[m]>>] /\ h[0] = z
    BY <2>1, <2>3, <2>4
  <2>6. \A k \in 1..(m + 1) : h[k] = s[<<k, h[k - 1]>>]
    <3> TAKE k \in 1..(m + 1)
    <3>1. CASE k = m + 1
      BY <2>5, <3>1
    <3>2. CASE k \in 1..m
      <4>1. h[k] = g[k] /\ h[k - 1] = g[k - 1]
        BY <2>3, <3>2
      <4> QED
        BY <2>1, <3>2, <4>1
    <3> QED
      BY <3>1, <3>2
  <2> QED
    BY <2>2, <2>5, <2>6 DEF Recursive
<1> HIDE DEF S
<1>3. Nat \subseteq S
  BY <1>1, <1>2, Induction
<1> QED
  BY <1>3 DEF S

LEMMA UntilIs ==
    ASSUME NEW S, NEW s \in Seq(S), NEW Stops, NEW n \in 0..Len(s),
           \A k \in 1..n : s[k] \notin Stops, n = Len(s) \/ s[n + 1] \in Stops
    PROVE  Until(s, Stops) = SubSeq(s, 1, n)
<1>1. CASE n = Len(s)
  <2>1. ~ \E k \in DOMAIN s : s[k] \in Stops
    BY <1>1
  <2> QED
    BY <1>1, <2>1, SubSeqFull DEF Until
<1>2. CASE n < Len(s)
  <2> DEFINE I == {k \in 1..Len(s) : s[k] \in Stops}
  <2>1. n + 1 \in I /\ \A k \in I : n + 1 <= k
    BY <1>2
  <2>2. Min(I) = n + 1
    BY <2>1 DEF Min
  <2>3. (IF I # {} THEN Min(I) ELSE 0) - 1 = n
    BY <2>1, <2>2
  <2>4. \E k \in DOMAIN s : s[k] \in Stops
    BY <2>1
  <2> QED
    BY <2>3, <2>4, Zenon DEF Until, SelectInSeq
<1> QED
  BY <1>1, <1>2

LEMMA UntilEnds ==
    ASSUME NEW S, NEW s \in Seq(S), NEW Stops
    PROVE  \E n \in 0..Len(s) : (\A k \in 1..n : s[k] \notin Stops) /\ (n = Len(s) \/ s[n + 1] \in Stops)
<1>1. CASE \A k \in 1..Len(s) : s[k] \notin Stops
  BY <1>1
<1>2. CASE \E k \in 1..Len(s) : s[k] \in Stops
  <2> DEFINE I == {k \in 1..Len(s) : s[k] \in Stops}
  <2>1. PICK m \in I : \A k \in I : m <= k
    <3>1. I \in SUBSET Nat /\ I # {}
      BY <1>2
    <3> QED
      BY <3>1, LeastNatural
  <2> QED
    BY <2>1
<1> QED
  BY <1>1, <1>2

LEMMA DigitsDiffer == \A j, k \in 1..16 : Digits[j] = Digits[k] => j = k
BY DEF Digits

LEMMA DigitsLower == \A j \in 1..16 : Digits[j] \notin Range(Uppers)
BY DEF Digits, Uppers, Range

LEMMA DigitValue == \A k \in 1..16 : Value(Digits[k]) = k - 1
<1> TAKE k \in 1..16
<1>1. DOMAIN Digits = 1..16
  BY DEF Digits
<1>2. (CHOOSE j \in DOMAIN Digits : Digits[j] = Digits[k]) = k
  BY <1>1, DigitsDiffer
<1> QED
  BY <1>2, DigitsLower DEF Value

(* The digits that atoi reads, and the number it has after each of them. *)
Digs(s) == Until(SubSeq(s, Skipped(BaseOf(s)) + 1, Len(s)),
                 {c \in Chars : ~IsDigit(c, BaseOf(s))})
Reads(g, d, base) ==
    g = [k \in 0..Len(d) |-> IF k = 0 THEN 0 ELSE NextOut(g[k - 1], Value(d[k]), base)]

LEMMA BaseIs == ASSUME NEW s PROVE BaseOf(s) \in {2, 8, 10, 16}
BY DEF BaseOf

LEMMA DigsAre ==
    ASSUME NEW s \in Seq(Chars)
    PROVE  Digs(s) \in Seq(Chars) /\ \A k \in 1..Len(Digs(s)) : IsDigit(Digs(s)[k], BaseOf(s))
<1> DEFINE rest == SubSeq(s, Skipped(BaseOf(s)) + 1, Len(s))
           Stops == {c \in Chars : ~IsDigit(c, BaseOf(s))}
<1>1. Skipped(BaseOf(s)) \in 0..2
  BY BaseIs DEF Skipped
<1>2. \A k \in Skipped(BaseOf(s)) + 1 .. Len(s) : s[k] \in Chars
  BY <1>1
<1>3. rest \in Seq(Chars)
  BY <1>1, <1>2, SubSeqProperties
<1> HIDE DEF rest
<1>4. PICK n \in 0..Len(rest) : /\ \A k \in 1..n : rest[k] \notin Stops
                                /\ n = Len(rest) \/ rest[n + 1] \in Stops
  BY <1>3, UntilEnds
<1>5. Until(rest, Stops) = SubSeq(rest, 1, n)
  BY <1>3, <1>4, UntilIs
<1>6. \A k \in 1..n : rest[k] \in Chars
  BY <1>3
<1>7. /\ SubSeq(rest, 1, n) \in Seq(Chars) /\ Len(SubSeq(rest, 1, n)) = n
      /\ \A k \in 1..n : SubSeq(rest, 1, n)[k] = rest[k]
  BY <1>3, <1>6, SubSeqProperties
<1>8. \A k \in 1..n : IsDigit(rest[k], BaseOf(s))
  BY <1>4, <1>6
<1>9. Digs(s) = SubSeq(rest, 1, n)
  BY <1>5 DEF Digs, rest
<1> QED
  BY <1>7, <1>8, <1>9

LEMMA ValueIs ==
    ASSUME NEW c, NEW base \in {2, 8, 10, 16}, IsDigit(c, base)
    PROVE  Value(c) \in Nat
<1>1. CASE \E k \in 1..base : Digits[k] = c
  <2>1. PICK k \in 1..16 : Digits[k] = c
    BY <1>1
  <2> QED
    BY <2>1, DigitValue
<1>2. CASE c \in Range(Uppers)
  <2>1. \E k \in DOMAIN Uppers : Uppers[k] = c
    BY <1>2 DEF Range
  <2>2. DOMAIN Uppers = 1..6
    BY DEF Uppers
  <2>3. (CHOOSE k \in DOMAIN Uppers : Uppers[k] = c) \in 1..6
    BY <2>1, <2>2
  <2>4. PICK j \in 1..6 : j = CHOOSE k \in DOMAIN Uppers : Uppers[k] = c
    BY <2>3
  <2>5. Value(c) = 48 + j
    BY <1>2, <2>4, Zenon DEF Value
  <2> QED
    BY <2>5
<1> QED
  BY <1>1, <1>2 DEF IsDigit

LEMMA WordIs == Word \in Nat /\ Word > 9 * PAGESIZE /\ PAGESIZE \in Nat /\ PAGESIZE >= 1 /\ Word > 9
BY BoundAssumption

LEMMA NextOutIs ==
    ASSUME NEW n \in Int, NEW d \in Int, NEW base \in Int
    PROVE  NextOut(n, d, base) \in U32 /\ (n * base + d \in U32 => NextOut(n, d, base) = n * base + d)
<1>1. n * base + d \in Int
  OBVIOUS
<1>2. ASSUME NEW m \in Int PROVE m % Word \in 0..(Word - 1) /\ (m \in 0..(Word - 1) => m % Word = m)
  BY WordIs
<1> QED
  BY <1>1, <1>2 DEF NextOut, U32

LEMMA ReadsExists ==
    ASSUME NEW base \in {2, 8, 10, 16}, NEW d \in Seq(Chars), \A k \in 1..Len(d) : IsDigit(d[k], base)
    PROVE  \E g \in [0..Len(d) -> U32] : Reads(g, d, base)
<1> DEFINE s == [p \in (1..Len(d)) \X U32 |-> NextOut(p[2], Value(d[p[1]]), base)]
<1>1. 0 \in U32 /\ Len(d) \in Nat
  BY WordIs DEF U32
<1>2. s \in [(1..Len(d)) \X U32 -> U32]
  <2> SUFFICES ASSUME NEW p \in (1..Len(d)) \X U32 PROVE NextOut(p[2], Value(d[p[1]]), base) \in U32
    OBVIOUS
  <2>1. Value(d[p[1]]) \in Int /\ p[2] \in Int /\ base \in Int
    BY ValueIs DEF U32
  <2> QED
    BY <2>1, NextOutIs
<1>3. \A k \in 1..Len(d), n \in U32 : s[<<k, n>>] = NextOut(n, Value(d[k]), base)
  OBVIOUS
<1> HIDE DEF s
<1>4. PICK g \in [0..Len(d) -> U32] : g[0] = 0 /\ \A k \in 1..Len(d) : g[k] = s[<<k, g[k - 1]>>]
  <2>1. Recursive(U32, Len(d), 0, s)
    BY <1>1, <1>2, Recursion
  <2> QED
    BY <2>1 DEF Recursive
<1>5. \A k \in 1..Len(d) : g[k] = NextOut(g[k - 1], Value(d[k]), base)
  <2> TAKE k \in 1..Len(d)
  <2>1. g[k - 1] \in U32
    BY <1>4
  <2> QED
    BY <1>3, <1>4, <2>1
<1>6. g = [k \in 0..Len(d) |-> IF k = 0 THEN 0 ELSE NextOut(g[k - 1], Value(d[k]), base)]
  BY <1>1, <1>4, <1>5
<1> QED
  BY <1>6 DEF Reads

LEMMA ReadsOnce ==
    ASSUME NEW f, NEW g, NEW d, NEW base, Len(d) \in Nat, Reads(f, d, base), Reads(g, d, base)
    PROVE  \A k \in 0..Len(d) : f[k] = g[k]
<1> DEFINE S == {n \in Nat : n <= Len(d) => f[n] = g[n]}
<1>1. \A h : Reads(h, d, base) =>
          h[0] = 0 /\ \A k \in 1..Len(d) : h[k] = NextOut(h[k - 1], Value(d[k]), base)
  <2> SUFFICES ASSUME NEW h, Reads(h, d, base)
               PROVE  h[0] = 0 /\ \A k \in 1..Len(d) : h[k] = NextOut(h[k - 1], Value(d[k]), base)
    OBVIOUS
  <2>1. \A k \in 0..Len(d) : h[k] = IF k = 0 THEN 0 ELSE NextOut(h[k - 1], Value(d[k]), base)
    BY DEF Reads
  <2> QED
    BY <2>1
<1>2. 0 \in S
  BY <1>1
<1>3. ASSUME NEW n \in Nat, n \in S PROVE n + 1 \in S
  <2> SUFFICES ASSUME n + 1 \in 1..Len(d) PROVE f[n + 1] = g[n + 1]
    OBVIOUS
  <2>1. f[n] = g[n] /\ n + 1 - 1 = n
    BY <1>3
  <2>2. f[n + 1] = NextOut(f[n], Value(d[n + 1]), base) /\ g[n + 1] = NextOut(g[n], Value(d[n + 1]), base)
    BY <1>1, <2>1
  <2> QED
    BY <2>1, <2>2
<1> HIDE DEF S
<1>4. Nat \subseteq S
  BY <1>2, <1>3, Induction
<1> QED
  BY <1>4 DEF S

LEMMA AtoiIs ==
    ASSUME NEW s \in Seq(Chars), NEW g, Reads(g, Digs(s), BaseOf(s))
    PROVE  atoi(s) = g[Len(Digs(s))]
<1> DEFINE d == Digs(s)
           base == BaseOf(s)
           f == CHOOSE h : Reads(h, d, base)
<1>1. Reads(f, d, base)
  OBVIOUS
<1>2. atoi(s) = f[Len(d)]
  BY Zenon DEF atoi, Digs, Reads
<1>3. Len(d) \in Nat
  BY DigsAre
<1> HIDE DEF d, base, f
<1> QED
  BY <1>1, <1>2, <1>3, ReadsOnce DEF d, base

LEMMA AtoiU32 == ASSUME NEW s \in Seq(Chars) PROVE atoi(s) \in U32
<1>1. PICK g \in [0..Len(Digs(s)) -> U32] : Reads(g, Digs(s), BaseOf(s))
  BY DigsAre, BaseIs, ReadsExists
<1>2. Len(Digs(s)) \in Nat
  BY DigsAre
<1> QED
  BY <1>1, <1>2, AtoiIs

-----------------------------------------------------------------------------
(* Text that spells a number. *)

LEMMA VisibleChars ==
    /\ Visible \subseteq Chars /\ NUL \in Chars /\ NUL \notin Visible /\ NUL \notin Seps
    /\ Seps \subseteq Chars /\ \A j \in 1..16 : Digits[j] \in Visible
<1>1. \A j \in 1..16 : Digits[j] \in Range(Digits)
  BY DEF Digits, Range
<1> QED
  BY <1>1, BoundAssumption, Zenon DEF Chars, Visible

(* The digits d say n in this base. *)
Spells(d, base, n) ==
    /\ d \in Seq(Visible) /\ \A k \in 1..Len(d) : \E j \in 1..base : d[k] = Digits[j]
    /\ \E g \in [0..Len(d) -> U32] : Reads(g, d, base) /\ g[Len(d)] = n

LEMMA SpellsNone == ASSUME NEW base PROVE Spells(<<>>, base, 0)
<1>1. <<>> \in Seq(Visible) /\ Len(<<>>) = 0
  BY EmptySeq
<1> DEFINE g == [k \in 0..0 |-> 0]
<1>2. 0 \in U32
  BY WordIs DEF U32
<1>3. g \in [0..0 -> U32] /\ g[0] = 0
  BY <1>2
<1>4. g = [k \in 0..0 |-> IF k = 0 THEN 0 ELSE NextOut(g[k - 1], Value(<<>>[k]), base)]
  OBVIOUS
<1> HIDE DEF g
<1>5. Reads(g, <<>>, base)
  BY <1>1, <1>4 DEF Reads
<1> QED
  BY <1>1, <1>3, <1>5 DEF Spells

LEMMA SpellsMore ==
    ASSUME NEW base \in {2, 10, 16}, NEW d, NEW m, Spells(d, base, m),
           NEW j \in 0..(base - 1), m * base + j \in U32
    PROVE  Spells(Append(d, Digits[j + 1]), base, m * base + j)
<1> DEFINE c == Digits[j + 1]
           e == Append(d, c)
<1>1. d \in Seq(Visible) /\ Len(d) \in Nat /\ \A k \in 1..Len(d) : \E a \in 1..base : d[k] = Digits[a]
  BY DEF Spells
<1>2. PICK g \in [0..Len(d) -> U32] : Reads(g, d, base) /\ g[Len(d)] = m
  BY DEF Spells
<1>3. c \in Visible /\ Value(c) = j
  <2>1. PICK a \in 1..16 : a = j + 1
    OBVIOUS
  <2>2. Value(Digits[a]) = a - 1 /\ Digits[a] \in Visible
    BY DigitValue, VisibleChars
  <2>3. a - 1 = j
    BY <2>1
  <2> QED
    BY <2>1, <2>2, <2>3, Zenon
<1>4. /\ e \in Seq(Visible) /\ Len(e) = Len(d) + 1 /\ e[Len(d) + 1] = c
      /\ \A k \in 1..Len(d) : e[k] = d[k]
  BY <1>1, <1>3, AppendProperties
<1>5. \A k \in 1..Len(e) : \E a \in 1..base : e[k] = Digits[a]
  <2> TAKE k \in 1..Len(e)
  <2>1. CASE k = Len(d) + 1
    BY <1>4, <2>1
  <2>2. CASE k \in 1..Len(d)
    BY <1>1, <1>4, <2>2
  <2> QED
    BY <1>1, <1>4, <2>1, <2>2
<1>6. NextOut(m, j, base) = m * base + j
  <2>1. m \in Int
    BY <1>1, <1>2 DEF U32
  <2> QED
    BY <2>1, NextOutIs
<1> DEFINE h == [k \in 0..Len(e) |-> IF k = Len(e) THEN m * base + j ELSE g[k]]
<1>7. h \in [0..Len(e) -> U32]
  BY <1>1, <1>2, <1>4
<1>8. h[Len(e)] = m * base + j /\ \A k \in 0..Len(d) : h[k] = g[k]
  BY <1>1, <1>4
<1> HIDE DEF h, e, c
<1>9. \A k \in 0..Len(e) : h[k] = IF k = 0 THEN 0 ELSE NextOut(h[k - 1], Value(e[k]), base)
  <2> TAKE k \in 0..Len(e)
  <2>1. CASE k = Len(d) + 1
    <3>1. h[k - 1] = m
      BY <1>1, <1>2, <1>8, <2>1
    <3>2. k # 0 /\ Value(e[k]) = j /\ k = Len(e)
      BY <1>1, <1>3, <1>4, <2>1
    <3> QED
      BY <1>6, <1>8, <3>1, <3>2
  <2>2. CASE k \in 0..Len(d)
    <3>1. g[k] = IF k = 0 THEN 0 ELSE NextOut(g[k - 1], Value(d[k]), base)
      BY <1>2, <2>2 DEF Reads
    <3>2. h[k] = g[k]
      BY <1>8, <2>2
    <3>3. k # 0 => h[k - 1] = g[k - 1] /\ e[k] = d[k]
      BY <1>1, <1>4, <1>8, <2>2
    <3> QED
      BY <3>1, <3>2, <3>3
  <2> QED
    BY <1>1, <1>4, <2>1, <2>2
<1>10. Reads(h, e, base)
  BY <1>7, <1>9 DEF Reads
<1> QED
  BY <1>4, <1>5, <1>7, <1>8, <1>10 DEF Spells, e, c

(* What atoi skips is not read; what is left says the number. *)
LEMMA AtoiSpelled ==
    ASSUME NEW s \in Seq(Chars), NEW n, BaseOf(s) \in {2, 10, 16},
           Spells(SubSeq(s, Skipped(BaseOf(s)) + 1, Len(s)), BaseOf(s), n)
    PROVE  atoi(s) = n
<1> DEFINE d == SubSeq(s, Skipped(BaseOf(s)) + 1, Len(s))
           base == BaseOf(s)
           Stops == {c \in Chars : ~IsDigit(c, base)}
<1>1. d \in Seq(Visible) /\ \A k \in 1..Len(d) : \E j \in 1..base : d[k] = Digits[j]
  BY DEF Spells
<1>2. PICK g : Reads(g, d, base) /\ g[Len(d)] = n
  BY DEF Spells
<1>3. \A k \in 1..Len(d) : d[k] \notin Stops
  BY <1>1 DEF IsDigit
<1> HIDE DEF d, base
<1>4. Until(d, Stops) = d
  <2>1. Len(d) \in 0..Len(d)
    BY <1>1
  <2>2. Until(d, Stops) = SubSeq(d, 1, Len(d))
    BY <1>1, <1>3, <2>1, UntilIs
  <2> QED
    BY <1>1, <2>2, SubSeqFull
<1>5. Digs(s) = d
  BY <1>4 DEF Digs, d, base
<1> QED
  BY <1>2, <1>5, AtoiIs DEF base

LEMMA AtoiNone ==
    ASSUME NEW s \in Seq(Chars), BaseOf(s) = 8, Len(s) = 1
    PROVE  atoi(s) = 0
<1>1. Skipped(8) = 1
  BY DEF Skipped
<1>2. SubSeq(s, 2, 1) = <<>>
  BY SubSeqEmpty
<1>3. <<>> \in Seq(Chars) /\ Len(<<>>) = 0
  BY EmptySeq
<1>4. Until(<<>>, {c \in Chars : ~IsDigit(c, 8)}) = SubSeq(<<>>, 1, 0)
  BY <1>3, UntilIs
<1>5. SubSeq(<<>>, 1, 0) = <<>>
  BY SubSeqEmpty
<1>6. Digs(s) = <<>>
  <2>1. Skipped(BaseOf(s)) + 1 = 2
    BY <1>1
  <2> QED
    BY <2>1, <1>2, <1>4, <1>5, Zenon DEF Digs
<1>7. PICK g \in [0..0 -> U32] : Reads(g, <<>>, 8) /\ g[0] = 0
  BY <1>3, SpellsNone DEF Spells
<1> QED
  BY <1>3, <1>6, <1>7, AtoiIs

(* What putuint_b has printed behind the prefix says m. *)
Behind(text, base) == SubSeq(text, Skipped(base) + 1, Len(text))
Spelled(text, base, m) ==
    /\ text \in Seq(Visible) /\ Len(text) >= Skipped(base)
    /\ base # 10 => BaseOf(text) = base
    /\ Spells(Behind(text, base), base, m)

LEMMA BehindMore ==
    ASSUME NEW base \in {2, 10, 16}, NEW text \in Seq(Visible), Len(text) >= Skipped(base),
           NEW c \in Visible
    PROVE  /\ Append(text, c) \in Seq(Visible) /\ Len(Append(text, c)) = Len(text) + 1
           /\ Behind(Append(text, c), base) = Append(Behind(text, base), c)
           /\ base # 10 => BaseOf(Append(text, c)) = BaseOf(text)
           /\ Len(Behind(text, base)) = Len(text) - Skipped(base)
<1> DEFINE p == Skipped(base)
           t == Append(text, c)
           d == Behind(text, base)
           e == Behind(t, base)
<1>1. p \in 0..2 /\ (base # 10 => p = 2)
  BY DEF Skipped
<1>2. /\ t \in Seq(Visible) /\ Len(t) = Len(text) + 1 /\ t[Len(text) + 1] = c
      /\ \A k \in 1..Len(text) : t[k] = text[k]
  BY AppendProperties
<1>3. Len(text) \in Nat /\ Len(text) >= p
  OBVIOUS
<1> HIDE DEF p, t
<1>4. \A k \in p + 1 .. Len(text) : text[k] \in Visible
  BY <1>1
<1>5. \A k \in p + 1 .. Len(t) : t[k] \in Visible
  BY <1>1, <1>2
<1>6. /\ d \in Seq(Visible) /\ Len(d) = Len(text) - p
      /\ \A k \in 1..Len(d) : d[k] = text[p + k]
  <2>1. /\ SubSeq(text, p + 1, Len(text)) \in Seq(Visible)
        /\ Len(SubSeq(text, p + 1, Len(text))) =
               IF p + 1 <= Len(text) THEN Len(text) - (p + 1) + 1 ELSE 0
        /\ \A k \in 1..(Len(text) - (p + 1) + 1) :
               SubSeq(text, p + 1, Len(text))[k] = text[p + 1 + k - 1]
    BY <1>1, <1>3, <1>4, SubSeqProperties
  <2>2. Len(text) - (p + 1) + 1 = Len(text) - p
    BY <1>1, <1>3
  <2>3. \A k \in 1..(Len(text) - p) : p + 1 + k - 1 = p + k
    BY <1>1, <1>3
  <2> QED
    BY <1>1, <1>3, <2>1, <2>2, <2>3 DEF Behind, p
<1>7. /\ e \in Seq(Visible) /\ Len(e) = Len(t) - p
      /\ \A k \in 1..Len(e) : e[k] = t[p + k]
  <2>1. /\ SubSeq(t, p + 1, Len(t)) \in Seq(Visible)
        /\ Len(SubSeq(t, p + 1, Len(t))) =
               IF p + 1 <= Len(t) THEN Len(t) - (p + 1) + 1 ELSE 0
        /\ \A k \in 1..(Len(t) - (p + 1) + 1) :
               SubSeq(t, p + 1, Len(t))[k] = t[p + 1 + k - 1]
    BY <1>1, <1>2, <1>3, <1>5, SubSeqProperties
  <2>2. Len(t) - (p + 1) + 1 = Len(t) - p
    BY <1>1, <1>2, <1>3
  <2>3. \A k \in 1..(Len(t) - p) : p + 1 + k - 1 = p + k
    BY <1>1, <1>2, <1>3
  <2> QED
    BY <1>1, <1>2, <1>3, <2>1, <2>2, <2>3 DEF Behind, p
<1> HIDE DEF d, e
<1>8. /\ Append(d, c) \in Seq(Visible) /\ Len(Append(d, c)) = Len(d) + 1
      /\ \A k \in 1..Len(d) : Append(d, c)[k] = d[k]
      /\ Append(d, c)[Len(d) + 1] = c
  BY <1>6, AppendProperties
<1>9. Len(e) = Len(Append(d, c))
  BY <1>1, <1>2, <1>3, <1>6, <1>7, <1>8
<1>10. \A k \in 1..Len(e) : e[k] = Append(d, c)[k]
  <2> TAKE k \in 1..Len(e)
  <2>1. e[k] = t[p + k]
    BY <1>7
  <2>2. CASE k = Len(d) + 1
    <3>1. p + k = Len(text) + 1
      BY <1>1, <1>3, <1>6, <2>2
    <3> QED
      BY <1>2, <1>8, <2>1, <2>2, <3>1
  <2>3. CASE k \in 1..Len(d)
    <3>1. p + k \in 1..Len(text)
      BY <1>1, <1>3, <1>6, <2>3
    <3> QED
      BY <1>2, <1>6, <1>8, <2>1, <2>3, <3>1
  <2> QED
    BY <1>3, <1>6, <1>8, <1>9, <2>2, <2>3
<1>11. e = Append(d, c)
  BY <1>7, <1>8, <1>9, <1>10, SeqEqual
<1>12. ASSUME base # 10 PROVE BaseOf(t) = BaseOf(text)
  <2>1. 1 \in 1..Len(text) /\ 2 \in 1..Len(text) /\ DOMAIN t = 1..Len(t) /\ DOMAIN text = 1..Len(text)
    BY <1>1, <1>2, <1>3, <1>12
  <2>2. At(t, 1) = At(text, 1) /\ At(t, 2) = At(text, 2)
    BY <1>2, <1>3, <2>1 DEF At
  <2> QED
    BY <2>2, Zenon DEF BaseOf
<1> QED
  BY <1>2, <1>6, <1>11, <1>12 DEF p, t, d, e

LEMMA SpelledMore ==
    ASSUME NEW base \in {2, 10, 16}, NEW text, NEW m, Spelled(text, base, m),
           NEW j \in 0..(base - 1), m * base + j \in U32
    PROVE  Spelled(Append(text, Digits[j + 1]), base, m * base + j)
<1>1. PICK a \in 1..16 : a = j + 1
  OBVIOUS
<1>2. Digits[a] \in Visible
  BY VisibleChars
<1>3. text \in Seq(Visible) /\ Len(text) >= Skipped(base) /\ Spells(Behind(text, base), base, m)
      /\ (base # 10 => BaseOf(text) = base)
  BY DEF Spelled
<1>4. Spells(Append(Behind(text, base), Digits[j + 1]), base, m * base + j)
  BY <1>3, SpellsMore
<1>5. /\ Append(text, Digits[a]) \in Seq(Visible) /\ Len(Append(text, Digits[a])) = Len(text) + 1
      /\ Behind(Append(text, Digits[a]), base) = Append(Behind(text, base), Digits[a])
      /\ base # 10 => BaseOf(Append(text, Digits[a])) = BaseOf(text)
  BY <1>2, <1>3, BehindMore
<1>6. Len(Append(text, Digits[a])) >= Skipped(base)
  <2>1. Skipped(base) \in Nat /\ Len(text) \in Nat
    BY <1>3 DEF Skipped
  <2> QED
    BY <1>3, <1>5, <2>1
<1> QED
  BY <1>1, <1>3, <1>4, <1>5, <1>6, Zenon DEF Spelled

LEMMA FormatIs ==
    ASSUME NEW f \in Formats
    PROVE  /\ f.base \in {2, 10, 16} /\ f.padding \in Int
           /\ f.prefix \in Seq(Chars) /\ Missing(f) \in Seq(Chars)
           /\ Missing(f) \o f.prefix = Prefix(f.base)
           /\ f.base = 10 => f.padding = 0 /\ f.prefix = <<>> /\ Missing(f) = <<>>
<1>1. /\ f.base \in {2, 10, 16} /\ f.padding \in {0, HexDigits}
      /\ f.prefix = <<>> \/ f.prefix = Prefix(f.base)
      /\ f.base = 10 => f.padding = 0 /\ f.prefix = <<>>
  <2>1. CASE f \in [base : {2, 10}, padding : {0}, prefix : {<<>>}]
    BY <2>1
  <2>2. CASE f \in [base : {16}, padding : {0, HexDigits}, prefix : {<<>>, Prefix(16)}]
    BY <2>2
  <2> QED
    BY <2>1, <2>2 DEF Formats
<1>2. Prefix(10) = <<>> /\ Prefix(2) = <<"0", "b">> /\ Prefix(16) = <<"0", "x">>
  BY DEF Prefix
<1>3. {"0", "x", "b"} \subseteq Chars
  BY VisibleChars DEF Visible, Digits, Range
<1>4. Prefix(f.base) \in Seq(Chars) /\ <<>> \in Seq(Chars)
  <2>1. <<"0", "b">> \in Seq(Chars) /\ <<"0", "x">> \in Seq(Chars) /\ <<>> \in Seq(Chars)
    BY <1>3, EmptySeq
  <2> QED
    BY <1>1, <1>2, <2>1
<1>5. Missing(f) = <<>> \/ (Missing(f) = Prefix(f.base) /\ f.prefix # Prefix(f.base))
  BY DEF Missing
<1>6. Missing(f) = <<>> => f.prefix = Prefix(f.base)
  BY <1>1 DEF Missing
<1>7. Missing(f) \o f.prefix = Prefix(f.base)
  <2>1. CASE Missing(f) = <<>>
    BY <1>4, <1>6, <2>1, ConcatEmptySeq
  <2>2. CASE Missing(f) = Prefix(f.base) /\ f.prefix = <<>>
    BY <1>4, <2>2, ConcatEmptySeq
  <2> QED
    BY <1>1, <1>5, <2>1, <2>2
<1>8. f.base = 10 => Missing(f) = <<>>
  BY <1>1, <1>2 DEF Missing
<1>9. f.prefix \in Seq(Chars) /\ Missing(f) \in Seq(Chars)
  BY <1>1, <1>4, <1>5
<1>10. f.padding \in Int
  BY <1>1, BoundAssumption
<1> QED
  BY <1>1, <1>7, <1>8, <1>9, <1>10

LEMMA PrefixSpelled == \A b \in {2, 10, 16} : Spelled(Prefix(b), b, 0)
<1>1. Prefix(10) = <<>> /\ Prefix(2) = <<"0", "b">> /\ Prefix(16) = <<"0", "x">>
  BY DEF Prefix
<1>2. Skipped(10) = 0 /\ Skipped(2) = 2 /\ Skipped(16) = 2
  BY DEF Skipped
<1>3. {"0", "x", "b"} \subseteq Visible
  BY DEF Visible, Digits, Range
<1>4. Spelled(<<>>, 10, 0)
  <2>1. <<>> \in Seq(Visible) /\ Len(<<>>) = 0
    BY EmptySeq
  <2>2. Behind(<<>>, 10) = <<>>
    BY <1>2, <2>1, SubSeqEmpty DEF Behind
  <2> QED
    BY <1>2, <2>1, <2>2, SpellsNone DEF Spelled
<1>5. ASSUME NEW b \in {2, 16}, NEW p, p = <<"0", "x">> \/ p = <<"0", "b">>,
             BaseOf(p) = b
      PROVE  Spelled(p, b, 0)
  <2>1. p \in Seq(Visible) /\ Len(p) = 2
    <3>1. CASE p = <<"0", "x">>
      BY <1>3, <3>1
    <3>2. CASE p = <<"0", "b">>
      BY <1>3, <3>2
    <3> QED
      BY <1>5, <3>1, <3>2
  <2>2. SubSeq(p, 3, 2) = <<>>
    BY SubSeqEmpty
  <2>3. Behind(p, b) = <<>>
    BY <1>2, <2>1, <2>2 DEF Behind
  <2> QED
    BY <1>2, <1>5, <2>1, <2>3, SpellsNone DEF Spelled
<1>6. BaseOf(<<"0", "x">>) = 16 /\ BaseOf(<<"0", "b">>) = 2
  BY DEF BaseOf, At
<1>7. Spelled(Prefix(16), 16, 0) /\ Spelled(Prefix(2), 2, 0)
  <2>1. BaseOf(Prefix(16)) = 16 /\ BaseOf(Prefix(2)) = 2
    BY <1>1, <1>6, Zenon
  <2> QED
    BY <1>1, <1>5, <2>1, Zenon
<1> QED
  BY <1>1, <1>4, <1>7

(* The text that is read as n. *)
Legible(n, s) == s \in Seq(Visible) /\ s # <<>> /\ atoi(s) = n

LEMMA SpelledLegible ==
    ASSUME NEW base \in {2, 10, 16}, NEW text, NEW n, Spelled(text, base, n),
           base = 10 => text # <<>> /\ (text[1] # "0" \/ (n = 0 /\ text = <<"0">>))
    PROVE  Legible(n, text)
<1>1. text \in Seq(Visible) /\ text \in Seq(Chars) /\ Len(text) \in Nat /\ DOMAIN text = 1..Len(text)
  BY VisibleChars, SeqMonotonic DEF Spelled
<1>2. CASE base # 10
  <2>1. BaseOf(text) = base /\ Skipped(base) = 2 /\ Len(text) >= 2
    BY <1>2 DEF Spelled, Skipped
  <2>2. atoi(text) = n
    BY <1>1, <2>1, AtoiSpelled DEF Spelled, Behind
  <2>3. text # <<>>
    BY <1>1, <2>1, EmptySeq
  <2> QED
    BY <1>1, <2>2, <2>3 DEF Legible
<1>3. CASE base = 10 /\ text # <<>> /\ text[1] # "0"
  <2>1. 1 \in DOMAIN text
    BY <1>1, <1>3, EmptySeq
  <2>2. BaseOf(text) = 10
    BY <1>3, <2>1 DEF BaseOf, At
  <2>3. atoi(text) = n
    BY <1>1, <1>3, <2>2, AtoiSpelled DEF Spelled, Behind
  <2> QED
    BY <1>1, <1>3, <2>3 DEF Legible
<1>4. CASE n = 0 /\ text = <<"0">>
  <2>1. BaseOf(<<"0">>) = 8
    <3>1. At(<<"0">>, 1) = "0" /\ At(<<"0">>, 2) = NUL
      BY DEF At
    <3>2. NUL \notin {"x", "X", "b", "B"}
      BY VisibleChars DEF Visible, Digits, Range
    <3> QED
      BY <3>1, <3>2 DEF BaseOf
  <2>2. atoi(text) = 0
    BY <1>1, <1>4, <2>1, AtoiNone
  <2> QED
    BY <1>1, <1>4, <2>2 DEF Legible
<1> QED
  BY <1>2, <1>3, <1>4

-----------------------------------------------------------------------------
(* Powers of the base. *)

(* The powers of a base: what 1 and multiplication by it reach. *)
Powers(b) == {l \in Nat : \A S \in SUBSET Nat : 1 \in S /\ (\A x \in S : x * b \in S) => l \in S}

LEMMA PowersAre ==
    ASSUME NEW b \in Nat, b >= 2
    PROVE  /\ 1 \in Powers(b)
           /\ \A l \in Powers(b) : l >= 1 /\ l * b \in Powers(b)
           /\ \A l \in Powers(b) : l = 1 \/ \E x \in Powers(b) : l = x * b
<1>1. 1 \in Powers(b)
  BY DEF Powers
<1>2. ASSUME NEW l \in Powers(b) PROVE l * b \in Powers(b)
  <2>1. l * b \in Nat
    BY DEF Powers
  <2> QED
    BY <2>1 DEF Powers
<1>3. ASSUME NEW l \in Powers(b) PROVE l >= 1
  <2> DEFINE S == Nat \ {0}
  <2>1. S \in SUBSET Nat /\ 1 \in S
    OBVIOUS
  <2>2. \A x \in S : x * b \in S
    <3> TAKE x \in S
    <3>1. x * b \in Nat /\ x * b >= 1 * b
      OBVIOUS
    <3> QED
      BY <3>1
  <2> HIDE DEF S
  <2>3. l \in S
    BY <2>1, <2>2 DEF Powers
  <2> QED
    BY <2>3 DEF S
<1>4. ASSUME NEW l \in Powers(b) PROVE l = 1 \/ \E x \in Powers(b) : l = x * b
  <2> DEFINE S == {1} \cup {x * b : x \in Powers(b)}
  <2>1. S \in SUBSET Nat /\ 1 \in S
    BY DEF Powers
  <2>2. \A x \in S : x \in Powers(b)
    BY <1>1, <1>2
  <2>3. \A x \in S : x * b \in S
    BY <2>2
  <2>4. l \in S
    <3> HIDE DEF S
    <3> QED
      BY <2>1, <2>3 DEF Powers
  <2> QED
    BY <2>4
<1> QED
  BY <1>1, <1>2, <1>3, <1>4

LEMMA Times ==
    ASSUME NEW l \in Nat, NEW a \in Nat, NEW c \in Nat, a <= c
    PROVE  l * a <= l * c /\ l * a \in Nat
<1>1. PICK d \in Nat : c = a + d
  <2>1. c - a \in Nat /\ c = a + (c - a)
    OBVIOUS
  <2> QED
    BY <2>1
<1>2. l * c = l * a + l * d
  BY <1>1
<1>3. l * d \in Nat /\ l * a \in Nat
  OBVIOUS
<1> QED
  BY <1>2, <1>3

(* A turn of the first loop: l grows as tmp shrinks. *)
LEMMA DivideKeeps ==
    ASSUME NEW n \in Nat, NEW l \in Nat \ {0}, NEW tmp \in Nat, NEW b \in Nat, b >= 2, tmp >= b,
           l * tmp <= n, n < l * (tmp + 1)
    PROVE  /\ tmp \div b \in Nat /\ tmp \div b >= 1 /\ l * b <= n
           /\ (l * b) * (tmp \div b) <= n /\ n < (l * b) * ((tmp \div b) + 1)
<1> DEFINE q == tmp \div b
<1>1. q \in Nat /\ b * q <= tmp /\ tmp < b * (q + 1)
  OBVIOUS
<1> HIDE DEF q
<1>2. q >= 1
  <2>1. q = 0 => b * (q + 1) = b
    OBVIOUS
  <2> QED
    BY <1>1, <2>1
<1>3. l * b <= l * tmp
  BY Times
<1>4. l * (b * q) <= l * tmp /\ (l * b) * q = l * (b * q)
  <2>1. b * q \in Nat
    BY <1>1
  <2> QED
    BY <1>1, <2>1, Times
<1>5. l * (tmp + 1) <= l * (b * (q + 1)) /\ (l * b) * (q + 1) = l * (b * (q + 1))
  <2>1. b * (q + 1) \in Nat /\ tmp + 1 \in Nat /\ tmp + 1 <= b * (q + 1)
    BY <1>1
  <2>2. l * (tmp + 1) <= l * (b * (q + 1))
    BY <2>1, Times
  <2> QED
    BY <1>1, <2>2
<1>6. l * b \in Nat /\ l * tmp \in Nat /\ (l * b) * q \in Nat
      /\ (l * b) * (q + 1) \in Nat /\ l * (tmp + 1) \in Nat
  BY <1>1
<1> QED
  BY <1>1, <1>2, <1>3, <1>4, <1>5, <1>6 DEF q

(* A digit is put out: what has been and what is left still make n. *)
LEMMA DigitKeeps ==
    ASSUME NEW n \in Nat, NEW l \in Nat \ {0}, NEW m \in Nat, NEW r \in Nat, NEW b \in Nat, b >= 2,
           n = m * (l * b) + r, r < l * b
    PROVE  /\ r \div l \in 0..(b - 1) /\ r % l \in 0..(l - 1) /\ r % l <= r
           /\ n = (m * b + (r \div l)) * l + (r % l)
           /\ m * b + (r \div l) \in 0..n
<1> DEFINE j == r \div l
           k == r % l
<1>1. j \in Nat /\ k \in 0..(l - 1) /\ r = l * j + k
  OBVIOUS
<1> HIDE DEF j, k
<1>2. j < b
  <2> SUFFICES ASSUME b <= j PROVE FALSE
    BY <1>1
  <2>1. l * b <= l * j
    BY <1>1, Times
  <2>2. l * b \in Nat /\ l * j \in Nat
    BY <1>1
  <2> QED
    BY <1>1, <2>1, <2>2
<1>3. n = (m * b + j) * l + k
  <2>1. m * (l * b) = (m * b) * l
    OBVIOUS
  <2>2. (m * b + j) * l = (m * b) * l + l * j
    BY <1>1
  <2>3. m * (l * b) \in Nat /\ l * j \in Nat /\ (m * b) * l \in Nat
    BY <1>1
  <2> QED
    BY <1>1, <2>1, <2>2, <2>3
<1>4. m * b + j <= n
  <2> DEFINE s == m * b + j
  <2>1. s \in Nat
    BY <1>1
  <2> HIDE DEF s
  <2>2. s * 1 <= s * l
    BY <2>1, Times
  <2>3. s * l \in Nat /\ s * 1 = s
    BY <2>1
  <2>4. n = s * l + k
    BY <1>3 DEF s
  <2>5. s <= n
    BY <1>1, <2>1, <2>2, <2>3, <2>4
  <2> QED
    BY <2>5 DEF s
<1>5. m * b + j \in Nat
  BY <1>1
<1>6. k <= r
  <2>1. l * j \in Nat
    BY <1>1
  <2> QED
    BY <1>1, <2>1
<1> QED
  BY <1>1, <1>2, <1>3, <1>4, <1>5, <1>6 DEF j, k

-----------------------------------------------------------------------------
(* putuint_b. *)

Outs == [nbr : U32, tmp : U32, l : U32, padding : Int, base : {2, 10, 16}, text : Seq(Chars)]
OutType == out \in Outs
ShownType == shown \in [value : U32, text : Seq(Chars), before : Seq(Chars)]

(* What has been put out so far, as the user will copy it. *)
Given == shown.before \o out.text

(* putuint_b before the first digit: l is the power of the base that nbr has
   as many digits as, and tmp what nbr is when it is divided by it. *)
Measured ==
    /\ out.nbr = shown.value /\ out.l \in Powers(out.base) /\ out.l \in Nat \ {0}
    /\ out.l * out.tmp <= out.nbr /\ out.nbr < out.l * (out.tmp + 1)
    /\ out.nbr >= 1 => out.tmp >= 1
    /\ out.nbr = 0 => out.l = 1
    /\ Spelled(Given, out.base, 0)
    /\ out.base = 10 => out.text = <<>> /\ out.padding <= 0 /\ shown.before = <<>>

(* Of a decimal number, the first digit is not 0. *)
Begun ==
    \/ out.text = <<>> /\ out.l # 0 /\ out.nbr = shown.value
       /\ (out.nbr >= 1 => out.l <= out.nbr) /\ (out.nbr = 0 => out.l = 1)
    \/ out.text # <<>> /\ out.text[1] # "0"
    \/ shown.value = 0 /\ out.text = <<"0">> /\ out.l = 0

(* Between two digits: what has been put out and what is left make the number. *)
Halfway ==
    /\ out.l = 0 => Spelled(Given, out.base, shown.value)
    /\ out.l # 0 => /\ out.l \in Powers(out.base)
                    /\ \E m \in Nat : /\ Spelled(Given, out.base, m)
                                      /\ shown.value = m * (out.l * out.base) + out.nbr
                    /\ out.nbr < out.l * out.base
    /\ out.base = 10 => Begun /\ shown.before = <<>>

PrintInv ==
    /\ OutType /\ ShownType
    /\ shown.text = <<>> \/ Legible(shown.value, shown.before \o shown.text)
    /\ pc \in {"divide", "pad"} => Measured
    /\ pc = "pad" => out.tmp < out.base
    /\ pc = "digits" => Halfway

LEMMA U32Is == U32 \subseteq Nat /\ 0 \in U32 /\ 1 \in U32 /\ \A n \in U32 : 0..n \subseteq U32
BY WordIs DEF U32

LEMMA SpelledChars == ASSUME NEW text, NEW base, NEW m, Spelled(text, base, m) PROVE text \in Seq(Chars)
BY VisibleChars, SeqMonotonic DEF Spelled

LEMMA GivenMore ==
    ASSUME NEW b \in Seq(Chars), NEW s \in Seq(Chars), NEW c \in Chars
    PROVE  b \o Append(s, c) = Append(b \o s, c) /\ Append(s, c) \in Seq(Chars)
<1>1. Append(s, c) = s \o <<c>> /\ Append(s, c) \in Seq(Chars) /\ <<c>> \in Seq(Chars)
  BY AppendIsConcat, AppendProperties
<1>2. b \o s \in Seq(Chars)
  BY ConcatProperties
<1>3. Append(b \o s, c) = (b \o s) \o <<c>>
  BY <1>2, AppendIsConcat
<1>4. (b \o s) \o <<c>> = b \o (s \o <<c>>)
  BY <1>1, ConcatAssociative
<1> QED
  BY <1>1, <1>3, <1>4, Zenon

LEMMA UnusedType == Unused \in Outs
<1>1. <<>> \in Seq(Chars)
  BY EmptySeq
<1> QED
  BY <1>1, U32Is DEF Unused, Outs

LEMMA OutsKept ==
    ASSUME NEW o \in Outs, NEW t \in U32, NEW l \in U32, NEW p \in Int, NEW s \in Seq(Chars)
    PROVE  /\ [o EXCEPT !.tmp = t, !.l = l, !.padding = p] \in Outs
           /\ [o EXCEPT !.padding = p, !.text = s] \in Outs
           /\ [o EXCEPT !.padding = p] \in Outs
BY DEF Outs

LEMMA OutsGrow ==
    ASSUME NEW o \in Outs, NEW t \in U32, NEW l \in U32, NEW s \in Seq(Chars)
    PROVE  [o EXCEPT !.text = s, !.nbr = t, !.l = l] \in Outs
BY DEF Outs

LEMMA Fits == ASSUME NEW n \in U32 PROVE n % Word = n
BY WordIs DEF U32

LEMMA PrintBegins ==
    ASSUME PrintInv, NEW n \in U32, NEW f \in Formats, PutUint(n, f)
    PROVE  PrintInv'
<1>1. out' = [nbr |-> n, tmp |-> n, l |-> 1, padding |-> f.padding, base |-> f.base, text |-> f.prefix]
      /\ shown' = [value |-> n, text |-> <<>>, before |-> Missing(f)] /\ pc' = "divide"
  BY DEF PutUint
<1>2. f.base \in {2, 10, 16} /\ Spelled(Missing(f) \o f.prefix, f.base, 0)
  BY FormatIs, PrefixSpelled
<1>3. f.prefix \in Seq(Chars) /\ Missing(f) \in Seq(Chars) /\ <<>> \in Seq(Chars)
  BY FormatIs, EmptySeq
<1>4. f.padding \in Int /\ (f.base = 10 => f.padding = 0 /\ f.prefix = <<>> /\ Missing(f) = <<>>)
  BY FormatIs
<1>5. n \in Nat
  BY U32Is
<1>6. OutType' /\ ShownType'
  BY <1>1, <1>2, <1>3, <1>4, U32Is DEF OutType, Outs, ShownType
<1>7. /\ out'.nbr = n /\ out'.tmp = n /\ out'.l = 1 /\ out'.base = f.base
      /\ out'.padding = f.padding /\ out'.text = f.prefix /\ shown'.value = n /\ shown'.text = <<>>
      /\ shown'.before = Missing(f)
  BY <1>1
<1>8. 1 \in Powers(f.base)
  BY <1>2, PowersAre
<1>9. 1 * n <= n /\ n < 1 * (n + 1) /\ 1 \in Nat \ {0}
  BY <1>5
<1>10. Measured'
  BY <1>2, <1>4, <1>5, <1>7, <1>8, <1>9 DEF Measured, Given
<1> QED
  BY <1>1, <1>6, <1>7, <1>10 DEF PrintInv

LEMMA PrintDivides == ASSUME PrintInv, Divide PROVE PrintInv'
<1>1. OutType /\ ShownType /\ Measured /\ shown' = shown /\ pc = "divide"
  BY DEF PrintInv, Divide
<1>2. /\ out.nbr \in U32 /\ out.tmp \in U32 /\ out.l \in Nat \ {0} /\ out.base \in {2, 10, 16}
      /\ out.padding \in Int /\ out.text \in Seq(Chars) /\ out.nbr \in Nat /\ out.tmp \in Nat
  BY <1>1, U32Is DEF OutType, Outs, Measured
<1>3. shown.text = <<>> \/ Legible(shown.value, shown.before \o shown.text)
  BY DEF PrintInv
<1>4. CASE ~More
  <2>1. out' = out /\ pc' = "pad"
    BY <1>4 DEF Divide
  <2>2. out.tmp < out.base
    BY <1>2, <1>4 DEF More
  <2> QED
    BY <1>1, <1>3, <2>1, <2>2 DEF PrintInv, OutType, ShownType, Measured, Given
<1>5. CASE More
  <2>1. out' = [out EXCEPT !.tmp = @ \div out.base, !.l = (@ * out.base) % Word, !.padding = @ - 1]
        /\ pc' = "divide"
    BY <1>1, <1>5 DEF Divide
  <2>2. out.tmp >= out.base
    BY <1>2, <1>5 DEF More
  <2> DEFINE q == out.tmp \div out.base
             p == out.l * out.base
  <2>3. q \in Nat /\ q >= 1 /\ p <= out.nbr /\ p * q <= out.nbr /\ out.nbr < p * (q + 1)
    <3>1. out.base \in Nat /\ out.base >= 2
      BY <1>2
    <3>2. out.l * out.tmp <= out.nbr /\ out.nbr < out.l * (out.tmp + 1)
      BY <1>1 DEF Measured
    <3> QED
      BY <1>2, <2>2, <3>1, <3>2, DivideKeeps
  <2>4. p \in Powers(out.base) /\ p \in Nat /\ p >= 1
    <3>1. out.l \in Powers(out.base) /\ out.base \in Nat /\ out.base >= 2 /\ out.l >= 1
      BY <1>1, <1>2 DEF Measured
    <3>2. p \in Powers(out.base)
      BY <3>1, PowersAre
    <3>3. p \in Nat /\ p >= 1
      BY <1>2, <3>1
    <3> QED
      BY <3>2, <3>3
  <2> HIDE DEF p
  <2>5. p \in U32 /\ p % Word = p
    <3>1. p \in 0..out.nbr
      BY <1>2, <2>3, <2>4
    <3>2. p \in U32
      BY <1>2, <3>1, U32Is
    <3> QED
      BY <3>2, Fits
  <2>6. q \in U32
    <3> HIDE DEF q
    <3>1. q * 1 <= q * p
      BY <2>3, <2>4, Times
    <3>2. q <= q * p /\ q * p = p * q
      BY <2>3, <2>4, <3>1
    <3> DEFINE t == p * q
               m == out.nbr
    <3>3. q <= t /\ t <= m /\ t \in Nat /\ m \in U32 /\ m \in Nat /\ q \in Nat
      BY <1>2, <2>3, <2>4, <3>2
    <3> HIDE DEF t, m
    <3>4. q \in 0..m
      BY <3>3
    <3> QED
      BY <3>3, <3>4, U32Is
  <2> HIDE DEF q
  <2>7. out' = [out EXCEPT !.tmp = q, !.l = p, !.padding = @ - 1]
    BY <2>1, <2>5 DEF q, p
  <2>8. OutType'
    <3>1. out.padding - 1 \in Int
      BY <1>2
    <3> QED
      BY <1>1, <1>2, <2>5, <2>6, <2>7, <3>1, OutsKept DEF OutType
  <2>9. /\ out'.nbr = out.nbr /\ out'.tmp = q /\ out'.l = p /\ out'.base = out.base
        /\ out'.text = out.text /\ out'.padding = out.padding - 1
    BY <1>1, <2>7 DEF OutType, Outs
  <2>10. out.nbr # 0 /\ (out.base = 10 => out.padding - 1 <= 0)
    BY <1>1, <1>2, <2>3, <2>4 DEF Measured
  <2>11. Measured'
    BY <1>1, <2>3, <2>4, <2>9, <2>10 DEF Measured, Given
  <2> QED
    BY <1>1, <1>3, <2>1, <2>8, <2>11 DEF PrintInv, ShownType
<1> QED
  BY <1>4, <1>5

LEMMA PrintPads == ASSUME PrintInv, Pad PROVE PrintInv'
<1>1. OutType /\ ShownType /\ Measured /\ out.tmp < out.base /\ shown' = shown /\ pc = "pad"
  BY DEF PrintInv, Pad
<1>2. /\ out.nbr \in Nat /\ out.tmp \in Nat /\ out.l \in Nat \ {0} /\ out.base \in {2, 10, 16}
      /\ out.padding \in Int /\ out.text \in Seq(Chars) /\ out.nbr \in U32
  BY <1>1, U32Is DEF OutType, Outs, Measured
<1>3. shown.text = <<>> \/ Legible(shown.value, shown.before \o shown.text)
  BY DEF PrintInv
<1>4. CASE out.padding - 1 > 0
  <2>1. out' = [out EXCEPT !.padding = @ - 1, !.text = Append(@, "0")] /\ pc' = "pad"
    BY <1>1, <1>4 DEF Pad
  <2>2. out.base # 10
    BY <1>1, <1>2, <1>4 DEF Measured
  <2>3. Spelled(Append(Given, "0"), out.base, 0)
    <3>1. 0 * out.base + 0 = 0 /\ 0 \in 0..(out.base - 1) /\ 0 * out.base + 0 \in U32
      BY <1>2, U32Is
    <3>2. Spelled(Append(Given, Digits[0 + 1]), out.base, 0 * out.base + 0)
      BY <1>1, <1>2, <3>1, SpelledMore DEF Measured
    <3>3. Digits[0 + 1] = "0"
      BY DEF Digits
    <3> QED
      BY <3>1, <3>2, <3>3
  <2>4. /\ Append(out.text, "0") \in Seq(Chars)
        /\ shown.before \o Append(out.text, "0") = Append(Given, "0")
    <3>1. "0" \in Chars /\ shown.before \in Seq(Chars)
      BY <1>1, VisibleChars DEF Visible, Digits, Range, ShownType
    <3> QED
      BY <1>2, <3>1, GivenMore DEF Given
  <2>5. OutType'
    <3>1. out.padding - 1 \in Int
      BY <1>2
    <3> QED
      BY <1>1, <1>2, <2>1, <2>4, <3>1, OutsKept DEF OutType
  <2>6. /\ out'.nbr = out.nbr /\ out'.tmp = out.tmp /\ out'.l = out.l /\ out'.base = out.base
        /\ out'.text = Append(out.text, "0")
    BY <1>1, <2>1 DEF OutType, Outs
  <2>7. Measured'
    <3>1. Given' = Append(Given, "0")
      BY <1>1, <2>4, <2>6 DEF Given
    <3> QED
      BY <1>1, <2>2, <2>3, <2>6, <3>1 DEF Measured
  <2> QED
    BY <1>1, <1>3, <2>1, <2>5, <2>6, <2>7 DEF PrintInv, ShownType
<1>5. CASE ~(out.padding - 1 > 0)
  <2>1. out' = [out EXCEPT !.padding = @ - 1] /\ pc' = "digits"
    BY <1>5 DEF Pad
  <2>2. OutType'
    <3>1. out.padding - 1 \in Int
      BY <1>2
    <3> QED
      BY <1>1, <1>2, <2>1, <3>1, OutsKept DEF OutType
  <2>3. /\ out'.nbr = out.nbr /\ out'.l = out.l /\ out'.base = out.base /\ out'.text = out.text
    BY <1>1, <2>1 DEF OutType, Outs
  <2>4. out.nbr < out.l * out.base
    <3>1. out.tmp + 1 <= out.base
      BY <1>1, <1>2
    <3>2. out.l * (out.tmp + 1) <= out.l * out.base
      BY <1>2, <3>1, Times
    <3>3. out.l * (out.tmp + 1) \in Nat /\ out.l * out.base \in Nat
      BY <1>2
    <3> QED
      BY <1>1, <1>2, <3>2, <3>3 DEF Measured
  <2>5. shown.value = 0 * (out.l * out.base) + out.nbr
    BY <1>1, <1>2 DEF Measured
  <2>6. out.nbr >= 1 => out.l <= out.nbr
    <3> SUFFICES ASSUME out.nbr >= 1 PROVE out.l <= out.nbr
      OBVIOUS
    <3>1. out.l * 1 <= out.l * out.tmp
      BY <1>1, <1>2, Times DEF Measured
    <3>2. out.l * out.tmp \in Nat /\ out.l * 1 = out.l
      BY <1>2
    <3> QED
      BY <1>1, <1>2, <3>1, <3>2 DEF Measured
  <2>7. out.base = 10 => Begun'
    BY <1>1, <1>2, <2>3, <2>6 DEF Measured, Begun
  <2>8. Halfway'
    <3>1. Given' = Given
      BY <1>1, <2>3 DEF Given
    <3> QED
      BY <1>1, <1>2, <2>3, <2>4, <2>5, <2>7, <3>1 DEF Measured, Halfway
  <2> QED
    BY <1>1, <1>3, <2>1, <2>2, <2>8 DEF PrintInv, ShownType
<1> QED
  BY <1>4, <1>5

LEMMA PrintDigit == ASSUME PrintInv, Digit PROVE PrintInv'
<1>1. OutType /\ ShownType /\ Halfway /\ shown' = shown /\ pc = "digits" /\ pc' = "digits" /\ out.l # 0
  BY DEF PrintInv, Digit
<1>2. /\ out.nbr \in U32 /\ out.l \in U32 /\ out.base \in {2, 10, 16} /\ out.text \in Seq(Chars)
      /\ out.nbr \in Nat /\ out.l \in Nat \ {0} /\ shown.value \in U32 /\ shown.value \in Nat
  BY <1>1, U32Is DEF OutType, Outs, ShownType
<1>3. shown.text = <<>> \/ Legible(shown.value, shown.before \o shown.text)
  BY DEF PrintInv
<1> DEFINE n == shown.value
           b == out.base
           j == out.nbr \div out.l
           r == out.nbr % out.l
           k == out.l \div out.base
           text == Append(out.text, Digits[j + 1])
<1>4. PICK m \in Nat : Spelled(Given, b, m) /\ n = m * (out.l * b) + out.nbr
  BY <1>1 DEF Halfway
<1>5. b \in Nat /\ b >= 2
  BY <1>2
<1>6. /\ j \in 0..(b - 1) /\ r \in 0..(out.l - 1) /\ r <= out.nbr
      /\ n = (m * b + j) * out.l + r /\ m * b + j \in 0..n
  <2>1. out.nbr < out.l * b
    BY <1>1 DEF Halfway
  <2> QED
    BY <1>2, <1>4, <1>5, <2>1, DigitKeeps
<1>7. out.l = 1 \/ \E x \in Powers(b) : out.l = x * b
  BY <1>1, <1>5, PowersAre DEF Halfway
<1>8. \/ out.l = 1 /\ k = 0
      \/ out.l = k * b /\ k \in Powers(b) /\ k \in Nat \ {0}
  <2>1. CASE out.l = 1
    BY <1>2, <2>1
  <2>2. ASSUME NEW x \in Powers(b), out.l = x * b
        PROVE  k = x /\ x \in Nat \ {0}
    <3>1. x \in Nat /\ x >= 1
      BY <1>5, PowersAre DEF Powers
    <3>2. (x * b) \div b = x
      BY <1>2, <3>1
    <3> QED
      BY <2>2, <3>1, <3>2
  <2> QED
    BY <1>7, <2>1, <2>2
<1>9. k \in U32 /\ r \in U32 /\ m * b + j \in U32 /\ k \in Nat
  <2>1. k \in 0..out.l
    BY <1>2
  <2>2. r \in 0..out.nbr
    <3> HIDE DEF r
    <3> QED
      BY <1>2, <1>6
  <2> QED
    BY <1>2, <1>6, <2>1, <2>2, U32Is
<1>10. out' = [out EXCEPT !.text = text, !.nbr = r, !.l = k]
  BY DEF Digit
<1> HIDE DEF j, r, k
<1> DEFINE given == Append(Given, Digits[j + 1])
<1>11. Spelled(given, b, m * b + j)
  BY <1>2, <1>4, <1>6, <1>9, SpelledMore
<1>12. text \in Seq(Chars) /\ shown.before \o text = given
  <2>1. shown.before \in Seq(Chars)
    BY <1>1 DEF ShownType
  <2>2. PICK a \in 1..16 : a = j + 1
    BY <1>2, <1>6
  <2>3. Digits[j + 1] \in Chars
    BY <2>2, VisibleChars
  <2> QED
    BY <1>2, <2>1, <2>3, GivenMore DEF Given
<1> HIDE DEF given
<1> HIDE DEF text
<1>13. OutType'
  <2>1. [out EXCEPT !.text = text, !.nbr = r, !.l = k] \in Outs
    BY <1>1, <1>9, <1>12, OutsGrow DEF OutType
  <2> QED
    BY <1>10, <2>1, Zenon DEF OutType
<1>14. out'.text = text /\ out'.nbr = r /\ out'.l = k /\ out'.base = b
  BY <1>1, <1>10 DEF OutType, Outs
<1>15. Spelled(given, b, m * b + j) /\ m * b + j \in Nat /\ n = (m * b + j) * out.l + r /\ r < out.l
  BY <1>2, <1>6, <1>9, <1>11, U32Is
<1>16. /\ k = 0 => Spelled(given, b, n)
       /\ k # 0 => k \in Powers(b) /\ n = (m * b + j) * (k * b) + r /\ r < k * b
  <2>1. CASE out.l = 1
    <3>1. r = 0 /\ (m * b + j) * 1 = m * b + j
      BY <1>6, <1>15, <2>1
    <3>2. m * b + j = n
      BY <1>15, <2>1, <3>1
    <3> QED
      BY <1>8, <1>15, <2>1, <3>2
  <2>2. CASE out.l # 1
    BY <1>8, <1>15, <2>2
  <2> QED
    BY <2>1, <2>2
<1>17. ASSUME b = 10 PROVE Begun'
  <2>0. Begun /\ out.text \in Seq(Visible) /\ j \in 0..9
    <3>1. Begun /\ shown.before = <<>> /\ j \in 0..9
      BY <1>1, <1>6, <1>17 DEF Halfway
    <3>2. Given = out.text
      BY <1>2, <3>1, ConcatEmptySeq DEF Given
    <3> QED
      BY <1>4, <3>1, <3>2 DEF Spelled
  <2>1. PICK a \in 1..16 : a = j + 1
    BY <2>0
  <2>2. Digits[a] \in Visible
    BY VisibleChars
  <2>3. /\ Len(text) = Len(out.text) + 1 /\ Len(out.text) \in Nat /\ text # <<>>
        /\ text[Len(out.text) + 1] = Digits[a]
        /\ \A i_ \in 1..Len(out.text) : text[i_] = out.text[i_]
    BY <2>0, <2>1, <2>2, AppendProperties DEF text
  <2>4. CASE out.text # <<>> /\ out.text[1] # "0"
    <3>1. 1 \in 1..Len(out.text)
      BY <2>0, <2>4, EmptySeq
    <3> QED
      BY <1>14, <2>3, <2>4, <3>1 DEF Begun
  <2>5. CASE out.text = <<>> /\ out.nbr >= 1 /\ out.l <= out.nbr
    <3>1. j >= 1
      BY <1>2, <2>5, <1>6 DEF j
    <3>2. Digits[a] # "0"
      <4>1. Digits[1] = "0"
        BY DEF Digits
      <4>2. a # 1
        BY <2>0, <2>1, <3>1
      <4> QED
        BY <4>1, <4>2, DigitsDiffer
    <3>3. text[1] # "0"
      BY <2>3, <2>5, <3>2, EmptySeq
    <3> QED
      BY <1>14, <2>3, <3>3 DEF Begun
  <2>6. CASE out.text = <<>> /\ out.nbr = 0 /\ n = 0 /\ out.l = 1
    <3>1. j = 0
      BY <2>6 DEF j
    <3>2. k = 0
      BY <1>8, <1>9, <2>6, <1>5
    <3>3. text = <<"0">>
      <4>1. Digits[a] = "0"
        BY <2>1, <3>1 DEF Digits
      <4>2. text = Append(<<>>, "0")
        BY <2>1, <2>6, <4>1 DEF text
      <4> QED
        BY <4>2
    <3> QED
      BY <1>1, <1>14, <2>6, <3>2, <3>3 DEF Begun
  <2> QED
    BY <1>1, <1>2, <2>0, <2>4, <2>5, <2>6 DEF Begun
<1>18. Halfway'
  <2>1. Given' = given
    BY <1>1, <1>12, <1>14 DEF Given
  <2> QED
    BY <1>1, <1>14, <1>15, <1>16, <1>17, <2>1 DEF Halfway
<1> QED
  BY <1>1, <1>3, <1>13, <1>18 DEF PrintInv, ShownType

LEMMA PrintEnds == ASSUME PrintInv, Printed PROVE PrintInv'
<1>1. /\ OutType /\ ShownType /\ Halfway /\ out.l = 0 /\ pc' = "prompt"
      /\ shown' = [shown EXCEPT !.text = out.text] /\ out' = Unused
  BY DEF PrintInv, Printed
<1>2. out.base \in {2, 10, 16} /\ Spelled(Given, out.base, shown.value)
  BY <1>1 DEF OutType, Outs, Halfway
<1>3. out.text \in Seq(Chars) /\ shown.before \in Seq(Chars)
  BY <1>1 DEF OutType, Outs, ShownType
<1>4. out.base = 10 => Given # <<>> /\ (Given[1] # "0" \/ (shown.value = 0 /\ Given = <<"0">>))
  <2>1. ASSUME out.base = 10
        PROVE  out.text # <<>> /\ (out.text[1] # "0" \/ (shown.value = 0 /\ out.text = <<"0">>))
    <3>1. Begun /\ out.l = 0
      BY <1>1, <2>1 DEF Halfway
    <3>2. <<"0">> # <<>>
      OBVIOUS
    <3> QED
      BY <3>1, <3>2 DEF Begun
  <2>2. ASSUME out.base = 10 PROVE Given = out.text
    <3>1. shown.before = <<>>
      BY <1>1, <2>2 DEF Halfway
    <3> QED
      BY <1>3, <3>1, ConcatEmptySeq DEF Given
  <2> QED
    BY <2>1, <2>2
<1>5. Legible(shown.value, Given)
  BY <1>2, <1>4, SpelledLegible
<1>6. /\ ShownType' /\ shown'.value = shown.value /\ shown'.text = out.text
      /\ shown'.before = shown.before
  BY <1>1, <1>3 DEF ShownType
<1> QED
  BY <1>1, <1>5, <1>6, UnusedType DEF PrintInv, OutType, Given

(* Away from the printing, the number is as it was, or it has scrolled off. *)
LEMMA PrintRests ==
    ASSUME PrintInv, out' = out, shown' = shown \/ shown' = Unseen,
           pc' \notin {"divide", "pad", "digits"}
    PROVE  PrintInv'
<1>1. Unseen \in [value : U32, text : Seq(Chars), before : Seq(Chars)] /\ Unseen.text = <<>>
  BY U32Is, EmptySeq DEF Unseen
<1> QED
  BY <1>1 DEF PrintInv, OutType, ShownType

-----------------------------------------------------------------------------
(* split, and the words of the typed line. *)

(* A word begins at k. *)
First(text, k) == ~is_sep(text[k]) /\ (k = 1 \/ is_sep(text[k - 1]))
Rising(at) == \A j, k \in DOMAIN at : j < k => at[j] < at[k]

(* line is typed, read up to before n and cut at its blanks. *)
Cut(text, cut, n) ==
    /\ text \in Seq(Chars) /\ cut \in Seq(Chars) /\ Len(cut) = Len(text)
    /\ n \in 1..(Len(text) + 1)
    /\ \A k \in 1..Len(text) : cut[k] = IF k < n /\ is_sep(text[k]) THEN NUL ELSE text[k]
    /\ \A k \in 1..(n - 1) : text[k] # NUL

(* The places are those of the words that begin before n. *)
Marks(at, text, n) == \A k \in Nat : k \in Range(at) <=> k \in 1..(n - 1) /\ First(text, k)

(* last is the character before n. *)
Before(text, n) == IF n = 1 THEN " " ELSE text[n - 1]

SplitInv ==
    /\ Cut(typed, line, i) /\ last = Before(typed, i)
    /\ splits \in Seq(Nat) /\ Rising(splits)
    /\ Marks(splits, typed, i)
    /\ pc = "exec" => At(typed, i) = NUL

LEMMA BlankSeparates == is_sep(" ")
BY DEF is_sep, Seps

LEMMA SepNotNul == ASSUME NEW c, is_sep(c) PROVE c # NUL
BY VisibleChars DEF is_sep

LEMMA CutEnds ==
    ASSUME NEW text, NEW cut, NEW n, Cut(text, cut, n)
    PROVE  /\ At(cut, n) = NUL => At(text, n) = NUL
           /\ At(text, n) = NUL => n = Len(text) + 1 \/ text[n] = NUL
<1>1. /\ DOMAIN text = 1..Len(text) /\ DOMAIN cut = 1..Len(text) /\ Len(text) \in Nat
      /\ n \in 1..(Len(text) + 1)
      /\ n \in 1..Len(text) => cut[n] = text[n]
  BY DEF Cut
<1> QED
  BY <1>1 DEF At

LEMMA RangeOfNone == Range(<<>>) = {} /\ <<>> \in Seq(Nat) /\ Len(<<>>) = 0 /\ Rising(<<>>)
<1>1. <<>> \in Seq(Nat) /\ Len(<<>>) = 0 /\ DOMAIN <<>> = {}
  BY EmptySeq
<1> QED
  BY <1>1 DEF Range, Rising

LEMMA NothingRead ==
    ASSUME NEW text \in Seq(Chars)
    PROVE  Cut(text, text, 1) /\ Marks(<<>>, text, 1)
<1>1. \A k \in Nat : k \notin 1..(1 - 1) /\ ~(k \in Nat \ {0} /\ k < 1)
  OBVIOUS
<1>2. Len(text) \in Nat /\ 1 \in 1..(Len(text) + 1)
  OBVIOUS
<1>3. \A k \in 1..Len(text) : k \in Nat /\ ~(k < 1)
  OBVIOUS
<1>4. Cut(text, text, 1)
  BY <1>1, <1>2, <1>3 DEF Cut
<1> QED
  BY <1>1, <1>4, RangeOfNone DEF Marks

LEMMA SplitFresh ==
    ASSUME NEW text \in Seq(Chars), typed' = text, line' = text, i' = 1, last' = " ",
           splits' = <<>>, pc' # "exec"
    PROVE  SplitInv'
<1>1. Cut(text, text, 1) /\ Marks(<<>>, text, 1) /\ <<>> \in Seq(Nat) /\ Rising(<<>>)
  BY NothingRead, RangeOfNone
<1>2. " " = Before(text, 1)
  BY Zenon DEF Before
<1> QED
  BY <1>1, <1>2, Zenon DEF SplitInv

LEMMA SplitReads == ASSUME SplitInv, SplitChar PROVE SplitInv'
<1>1. Cut(typed, line, i) /\ typed' = typed /\ pc = "split" /\ pc' = "split" /\ i' = i + 1 /\ last' = line[i]
  BY DEF SplitInv, SplitChar
<1>2. /\ typed \in Seq(Chars) /\ line \in Seq(Chars) /\ Len(line) = Len(typed) /\ Len(typed) \in Nat
      /\ i \in 1..(Len(typed) + 1) /\ DOMAIN line = 1..Len(typed)
  BY <1>1 DEF Cut
<1>3. i \in 1..Len(typed) /\ line[i] # NUL
  BY <1>2 DEF SplitChar, At
<1>4. line[i] = typed[i]
  BY <1>1, <1>3 DEF Cut
<1>5. Cut(typed, line', i + 1)
  <2>1. CASE is_sep(line[i])
    <3>1. line' = [line EXCEPT ![i] = NUL]
      BY <2>1 DEF SplitChar
    <3>2. /\ line' \in Seq(Chars) /\ Len(line') = Len(line)
          /\ \A k \in 1..Len(line) : line'[k] = IF k = i THEN NUL ELSE line[k]
      BY <1>2, <1>3, <3>1, VisibleChars, ExceptSeq
    <3> QED
      BY <1>1, <1>2, <1>3, <1>4, <2>1, <3>2 DEF Cut
  <2>2. CASE ~is_sep(line[i])
    <3>1. line' = line
      BY <2>2 DEF SplitChar
    <3> QED
      BY <1>1, <1>2, <1>3, <1>4, <2>2, <3>1 DEF Cut
  <2> QED
    BY <2>1, <2>2
<1>6. last' = Before(typed, i')
  <2>1. i' # 1 /\ i' - 1 = i
    BY <1>1, <1>2
  <2> QED
    BY <1>1, <1>4, <2>1 DEF Before
<1>7. Begins <=> First(typed, i)
  <2>1. is_sep(last) <=> (i = 1 \/ is_sep(typed[i - 1]))
    <3>1. is_sep(" ")
      BY BlankSeparates
    <3>2. last = Before(typed, i)
      BY DEF SplitInv
    <3> QED
      BY <3>1, <3>2 DEF Before
  <2> QED
    BY <1>4, <2>1 DEF Begins, First
<1>8. /\ splits \in Seq(Nat) /\ Len(splits) \in Nat /\ DOMAIN splits = 1..Len(splits) /\ Rising(splits)
      /\ Marks(splits, typed, i)
  BY DEF SplitInv
<1>9. \A k \in Nat : k \in 1..(i' - 1) <=> k \in 1..(i - 1) \/ k = i
  BY <1>1, <1>2
<1>10. splits' \in Seq(Nat) /\ Rising(splits') /\ Marks(splits', typed, i')
  <2>1. CASE Begins
    <3>1. splits' = Append(splits, i)
      BY <2>1 DEF SplitChar
    <3>2. /\ splits' \in Seq(Nat) /\ Len(splits') = Len(splits) + 1
          /\ DOMAIN splits' = 1..(Len(splits) + 1)
          /\ splits'[Len(splits) + 1] = i /\ \A k \in 1..Len(splits) : splits'[k] = splits[k]
      BY <1>3, <1>8, <3>1, AppendProperties
    <3>3. \A k \in 1..Len(splits) : splits[k] \in Nat /\ splits[k] < i
      <4> TAKE k \in 1..Len(splits)
      <4>1. splits[k] \in Range(splits) /\ splits[k] \in Nat
        BY <1>8 DEF Range
      <4> QED
        BY <1>2, <1>8, <4>1 DEF Marks
    <3>4. Rising(splits')
      <4> SUFFICES ASSUME NEW j \in 1..(Len(splits) + 1), NEW k \in 1..(Len(splits) + 1), j < k
                   PROVE  splits'[j] < splits'[k]
        BY <3>2 DEF Rising
      <4>1. j \in 1..Len(splits)
        BY <1>8
      <4>2. CASE k = Len(splits) + 1
        BY <3>2, <3>3, <4>1, <4>2
      <4>3. CASE k \in 1..Len(splits)
        BY <1>8, <3>2, <4>1, <4>3 DEF Rising
      <4> QED
        BY <1>8, <4>2, <4>3
    <3>5. \A k \in Nat : k \in Range(splits') <=> k \in Range(splits) \/ k = i
      <4>1. \A k : k \in Range(splits') <=> \E a \in 1..(Len(splits) + 1) : splits'[a] = k
        BY <3>2 DEF Range
      <4>2. \A k : k \in Range(splits) <=> \E a \in 1..Len(splits) : splits[a] = k
        BY <1>8 DEF Range
      <4>3. \A a \in 1..(Len(splits) + 1) : a \in 1..Len(splits) \/ a = Len(splits) + 1
        BY <1>8
      <4>4. Len(splits) + 1 \in 1..(Len(splits) + 1) /\ 1..Len(splits) \subseteq 1..(Len(splits) + 1)
        BY <1>8
      <4> QED
        BY <3>2, <4>1, <4>2, <4>3, <4>4
    <3> QED
      BY <1>7, <1>8, <1>9, <2>1, <3>2, <3>4, <3>5 DEF Marks
  <2>2. CASE ~Begins
    <3>1. splits' = splits
      BY <2>2 DEF SplitChar
    <3> QED
      BY <1>7, <1>8, <1>9, <2>2, <3>1 DEF Marks
  <2> QED
    BY <2>1, <2>2
<1> QED
  BY <1>1, <1>5, <1>6, <1>10 DEF SplitInv

LEMMA SplitEnds == ASSUME SplitInv, SplitEnd PROVE SplitInv'
<1>1. UNCHANGED <<typed, line, i, last, splits>> /\ At(line, i) = NUL
  BY DEF SplitEnd, lineVars
<1>2. At(typed, i) = NUL
  BY <1>1, CutEnds DEF SplitInv
<1> QED
  BY <1>1, <1>2 DEF SplitInv

(* From p, the cut line up to a 0 is the text up to a blank. *)
SameWord(text, cut, s, p) ==
    /\ Until(SubSeq(cut, p, Len(cut)), {NUL}) = Until(SubSeq(s, p, Len(s)), Seps)
    /\ Until(SubSeq(s, p, Len(s)), Seps) \in Seq(Chars)
    /\ ~is_sep(text[p]) => Until(SubSeq(s, p, Len(s)), Seps) # <<>>

LEMMA WordCut ==
    ASSUME NEW text, NEW cut, NEW n, Cut(text, cut, n), n = Len(text) + 1 \/ text[n] = NUL,
           NEW s, s = SubSeq(text, 1, n - 1), NEW p \in 1..(n - 1)
    PROVE  SameWord(text, cut, s, p)
<1>1. /\ text \in Seq(Chars) /\ cut \in Seq(Chars) /\ Len(cut) = Len(text) /\ Len(text) \in Nat
      /\ n \in 1..(Len(text) + 1)
      /\ \A k \in 1..Len(text) : cut[k] = IF k < n /\ is_sep(text[k]) THEN NUL ELSE text[k]
      /\ \A k \in 1..(n - 1) : text[k] # NUL
  BY DEF Cut
<1>2. s \in Seq(Chars) /\ Len(s) = n - 1 /\ \A k \in 1..(n - 1) : s[k] = text[k]
  <2>1. \A k \in 1..(n - 1) : text[k] \in Chars
    BY <1>1
  <2> QED
    BY <1>1, <2>1, SubSeqProperties
<1> DEFINE A == SubSeq(cut, p, Len(cut))
           B == SubSeq(s, p, Len(s))
<1>3. A \in Seq(Chars) /\ Len(A) = Len(text) - p + 1
      /\ \A k \in 1..(Len(text) - p + 1) : A[k] = cut[p + k - 1]
  <2>1. \A k \in p..Len(cut) : cut[k] \in Chars
    BY <1>1
  <2>2. p <= Len(cut) /\ p \in Int /\ Len(cut) \in Int
    BY <1>1
  <2> QED
    BY <1>1, <2>1, <2>2, SubSeqProperties
<1>4. B \in Seq(Chars) /\ Len(B) = n - p /\ \A k \in 1..(n - p) : B[k] = text[p + k - 1]
  <2>1. \A k \in p..(n - 1) : s[k] \in Chars
    BY <1>1, <1>2
  <2>2. p <= n - 1 /\ p \in Int /\ n - 1 \in Int /\ n - 1 - p + 1 = n - p
    BY <1>1
  <2>3. B \in Seq(Chars) /\ Len(B) = n - p /\ \A k \in 1..(n - p) : B[k] = s[p + k - 1]
    BY <1>2, <2>1, <2>2, SubSeqProperties
  <2>4. \A k \in 1..(n - p) : p + k - 1 \in 1..(n - 1)
    BY <1>1
  <2> QED
    BY <1>2, <2>3, <2>4
<1> HIDE DEF A, B
<1>5. PICK m \in 0..Len(B) : /\ \A k \in 1..m : B[k] \notin Seps
                             /\ m = Len(B) \/ B[m + 1] \in Seps
  BY <1>4, UntilEnds
<1>6. m \in Nat /\ m <= n - p /\ m <= Len(A) /\ p + m \in 1..(Len(text) + 1)
  BY <1>1, <1>3, <1>4, <1>5
<1>7. \A k \in 1..m : A[k] = B[k] /\ A[k] # NUL
  <2> TAKE k \in 1..m
  <2>1. p + k - 1 \in 1..Len(text) /\ p + k - 1 \in 1..(n - 1) /\ p + k - 1 < n
        /\ k \in 1..(n - p) /\ k \in 1..(Len(text) - p + 1)
    BY <1>1, <1>6
  <2>2. A[k] = cut[p + k - 1] /\ B[k] = text[p + k - 1] /\ B[k] \notin Seps
    BY <1>3, <1>4, <1>5, <2>1
  <2> QED
    BY <1>1, <2>1, <2>2 DEF is_sep
<1>8. m = Len(A) \/ A[m + 1] \in {NUL}
  <2>1. CASE m = Len(B) /\ n = Len(text) + 1
    BY <1>1, <1>3, <1>4, <2>1
  <2>2. CASE m = Len(B) /\ n # Len(text) + 1
    <3>1. m + 1 \in 1..(Len(text) - p + 1) /\ p + (m + 1) - 1 = n /\ n \in 1..Len(text)
      BY <1>1, <1>4, <1>6, <2>2
    <3>2. A[m + 1] = cut[n]
      BY <1>3, <3>1
    <3> QED
      BY <1>1, <2>2, <3>1, <3>2
  <2>3. CASE m # Len(B)
    <3>1. m + 1 \in 1..(Len(text) - p + 1) /\ p + (m + 1) - 1 = p + m /\ p + m < n
          /\ m + 1 \in 1..(n - p) /\ p + m \in 1..Len(text)
      BY <1>1, <1>4, <1>5, <1>6, <2>3
    <3>2. A[m + 1] = cut[p + m] /\ B[m + 1] = text[p + m] /\ B[m + 1] \in Seps
      BY <1>3, <1>4, <1>5, <2>3, <3>1
    <3> QED
      BY <1>1, <3>1, <3>2 DEF is_sep
  <2> QED
    BY <2>1, <2>2, <2>3
<1>9. Until(B, Seps) = SubSeq(B, 1, m)
  BY <1>4, <1>5, UntilIs
<1>10. Until(A, {NUL}) = SubSeq(A, 1, m)
  <2>1. m \in 0..Len(A) /\ \A k \in 1..m : A[k] \notin {NUL}
    BY <1>3, <1>6, <1>7
  <2> QED
    BY <1>3, <1>8, <2>1, UntilIs
<1>11. /\ SubSeq(B, 1, m) \in Seq(Chars) /\ Len(SubSeq(B, 1, m)) = m
       /\ \A k \in 1..m : SubSeq(B, 1, m)[k] = B[k]
  <2>1. \A k \in 1..m : B[k] \in Chars
    BY <1>4, <1>6
  <2> QED
    BY <1>6, <2>1, SubSeqProperties
<1>12. /\ SubSeq(A, 1, m) \in Seq(Chars) /\ Len(SubSeq(A, 1, m)) = m
       /\ \A k \in 1..m : SubSeq(A, 1, m)[k] = A[k]
  <2>1. \A k \in 1..m : A[k] \in Chars
    BY <1>3, <1>6
  <2> QED
    BY <1>6, <2>1, SubSeqProperties
<1>13. SubSeq(A, 1, m) = SubSeq(B, 1, m)
  BY <1>7, <1>11, <1>12, SeqEqual
<1>14. ~is_sep(text[p]) => SubSeq(B, 1, m) # <<>>
  <2> SUFFICES ASSUME ~is_sep(text[p]) PROVE m # 0
    BY <1>11, EmptySeq
  <2>1. B[1] = text[p] /\ Len(B) # 0
    BY <1>1, <1>4
  <2> QED
    BY <1>5, <2>1 DEF is_sep
<1> QED
  BY <1>9, <1>10, <1>11, <1>13, <1>14 DEF A, B, SameWord

(* What a command gets are words of characters, and none of them is empty. *)
WordsType(words) ==
    \E n \in Nat : DOMAIN words = 1..n /\ \A k \in 1..n : words[k] \in Seq(Chars) /\ words[k] # <<>>

LEMMA SplitWords ==
    ASSUME SplitInv, At(typed, i) = NUL
    PROVE  WordsAt(Until(typed, {NUL}), splits, Args) /\ WordsType(Args)
<1> DEFINE s == SubSeq(typed, 1, i - 1)
<1>1. /\ Cut(typed, line, i) /\ splits \in Seq(Nat) /\ DOMAIN splits = 1..Len(splits)
      /\ Len(splits) \in Nat /\ Rising(splits) /\ Marks(splits, typed, i)
  BY DEF SplitInv
<1>2. /\ typed \in Seq(Chars) /\ Len(typed) \in Nat /\ i \in 1..(Len(typed) + 1)
      /\ DOMAIN typed = 1..Len(typed) /\ \A k \in 1..(i - 1) : typed[k] # NUL
  BY <1>1 DEF Cut
<1>3. i = Len(typed) + 1 \/ typed[i] = NUL
  BY <1>1, CutEnds
<1>4. s \in Seq(Chars) /\ Len(s) = i - 1 /\ \A k \in 1..(i - 1) : s[k] = typed[k]
  <2>1. \A k \in 1..(i - 1) : typed[k] \in Chars
    BY <1>2
  <2> QED
    BY <1>2, <2>1, SubSeqProperties
<1>5. Until(typed, {NUL}) = s
  <2>1. i - 1 \in 0..Len(typed) /\ \A k \in 1..(i - 1) : typed[k] \notin {NUL}
    BY <1>2
  <2>2. i - 1 = Len(typed) \/ typed[i - 1 + 1] \in {NUL}
    BY <1>2, <1>3
  <2> QED
    BY <1>2, <2>1, <2>2, UntilIs
<1> HIDE DEF s
<1>6. Range(splits) = {k \in DOMAIN s : ~is_sep(s[k]) /\ (k = 1 \/ is_sep(s[k - 1]))}
  <2>1. DOMAIN s = 1..(i - 1) /\ Range(splits) \subseteq Nat
    BY <1>1, <1>4, RangeOfSeq
  <2>2. \A k \in 1..(i - 1) : First(typed, k) <=> ~is_sep(s[k]) /\ (k = 1 \/ is_sep(s[k - 1]))
    BY <1>2, <1>4 DEF First
  <2> QED
    BY <1>1, <2>1, <2>2 DEF Marks
<1>7. \A k \in 1..Len(splits) : splits[k] \in 1..(i - 1) /\ ~is_sep(typed[splits[k]])
  <2> TAKE k \in 1..Len(splits)
  <2>1. splits[k] \in Range(splits) /\ splits[k] \in Nat
    BY <1>1 DEF Range
  <2> QED
    BY <1>1, <2>1 DEF First, Marks
<1>8. \A k \in 1..Len(splits) :
          /\ Until(SubSeq(line, splits[k], Len(line)), {NUL}) = Until(SubSeq(s, splits[k], Len(s)), Seps)
          /\ Until(SubSeq(s, splits[k], Len(s)), Seps) \in Seq(Chars)
          /\ Until(SubSeq(s, splits[k], Len(s)), Seps) # <<>>
  <2> TAKE k \in 1..Len(splits)
  <2>1. s = SubSeq(typed, 1, i - 1)
    BY DEF s
  <2>2. PICK q \in 1..(i - 1) : q = splits[k] /\ ~is_sep(typed[q])
    BY <1>7
  <2>3. SameWord(typed, line, s, q)
    <3>1. Cut(typed, line, i)
      BY <1>1
    <3> QED
      BY <1>3, <2>1, <2>2, <3>1, WordCut
  <2> QED
    BY <2>2, <2>3 DEF SameWord
<1>9. Args = [k \in DOMAIN splits |-> Until(SubSeq(s, splits[k], Len(s)), Seps)]
  BY <1>1, <1>8 DEF Args
<1>10. WordsType(Args)
  BY <1>1, <1>8, <1>9 DEF WordsType
<1> QED
  BY <1>1, <1>5, <1>6, <1>9, <1>10 DEF WordsAt, Rising

-----------------------------------------------------------------------------
(* A text has its words in one way. *)

(* Rising places are known by which they are. *)
LEMMA RisingBelow ==
    ASSUME NEW a \in Seq(Nat), NEW b \in Seq(Nat), Rising(a), Rising(b), Range(a) \subseteq Range(b),
           NEW n \in Nat, n + 1 \in 1..Len(a), n <= Len(b), \A k \in 1..n : a[k] = b[k]
    PROVE  n + 1 <= Len(b) /\ b[n + 1] <= a[n + 1]
<1>0. PICK m \in 1..Len(a) : m = n + 1
  OBVIOUS
<1>1. /\ DOMAIN a = 1..Len(a) /\ DOMAIN b = 1..Len(b) /\ Len(a) \in Nat /\ Len(b) \in Nat
      /\ (\A k \in 1..Len(a) : a[k] \in Nat) /\ (\A k \in 1..Len(b) : b[k] \in Nat)
  OBVIOUS
<1>2. a[m] \in Range(b)
  BY <1>1 DEF Range
<1>3. PICK j \in 1..Len(b) : b[j] = a[m]
  BY <1>1, <1>2 DEF Range
<1>4. ~(j < m)
  <2> SUFFICES ASSUME j < m PROVE FALSE
    OBVIOUS
  <2>1. j \in 1..n /\ j \in DOMAIN a /\ m \in DOMAIN a
    BY <1>0, <1>1
  <2>2. a[j] < a[m]
    BY <2>1 DEF Rising
  <2> QED
    BY <1>1, <1>3, <2>1, <2>2
<1>5. m <= j /\ m \in 1..Len(b)
  BY <1>1, <1>4
<1>6. b[m] <= b[j]
  <2>1. CASE m = j
    BY <1>1, <2>1
  <2>2. CASE m < j
    <3>1. b[m] < b[j] /\ b[m] \in Nat /\ b[j] \in Nat
      BY <1>1, <1>5, <2>2 DEF Rising
    <3> QED
      BY <3>1
  <2> QED
    BY <1>1, <1>5, <2>1, <2>2
<1> QED
  BY <1>0, <1>3, <1>5, <1>6

LEMMA RisingOnce ==
    ASSUME NEW a \in Seq(Nat), NEW b \in Seq(Nat), Rising(a), Rising(b), Range(a) = Range(b)
    PROVE  a = b
<1>1. Len(a) \in Nat /\ Len(b) \in Nat
      /\ (\A k \in 1..Len(a) : a[k] \in Nat) /\ (\A k \in 1..Len(b) : b[k] \in Nat)
  OBVIOUS
<1> DEFINE S == {n \in Nat : \A k \in 1..n : k <= Len(a) \/ k <= Len(b) =>
                                k <= Len(a) /\ k <= Len(b) /\ a[k] = b[k]}
<1>2. 0 \in S
  OBVIOUS
<1>3. ASSUME NEW n \in Nat, n \in S PROVE n + 1 \in S
  <2> SUFFICES ASSUME n + 1 <= Len(a) \/ n + 1 <= Len(b)
               PROVE  n + 1 <= Len(a) /\ n + 1 <= Len(b) /\ a[n + 1] = b[n + 1]
    BY <1>3
  <2>1. \A k \in 1..n : k <= Len(a) /\ k <= Len(b) /\ a[k] = b[k]
    BY <1>1, <1>3
  <2>2. n <= Len(a) /\ n <= Len(b)
    BY <1>1, <2>1
  <2>3. (\A k \in 1..n : a[k] = b[k]) /\ (\A k \in 1..n : b[k] = a[k])
    BY <2>1
  <2>4. n + 1 <= Len(a) => n + 1 <= Len(b) /\ b[n + 1] <= a[n + 1]
    <3> SUFFICES ASSUME n + 1 <= Len(a) PROVE n + 1 <= Len(b) /\ b[n + 1] <= a[n + 1]
      OBVIOUS
    <3>1. n + 1 \in 1..Len(a) /\ Range(a) \subseteq Range(b)
      BY <1>1
    <3> QED
      BY <2>2, <2>3, <3>1, RisingBelow
  <2>5. n + 1 <= Len(b) => n + 1 <= Len(a) /\ a[n + 1] <= b[n + 1]
    <3> SUFFICES ASSUME n + 1 <= Len(b) PROVE n + 1 <= Len(a) /\ a[n + 1] <= b[n + 1]
      OBVIOUS
    <3>1. n + 1 \in 1..Len(b) /\ Range(b) \subseteq Range(a)
      BY <1>1
    <3> QED
      BY <2>2, <2>3, <3>1, RisingBelow
  <2>6. n + 1 \in 1..Len(a) /\ n + 1 \in 1..Len(b)
    BY <1>1, <2>4, <2>5
  <2> QED
    BY <1>1, <2>4, <2>5, <2>6
<1> HIDE DEF S
<1>4. Nat \subseteq S
  BY <1>2, <1>3, Induction
<1>5. Len(a) \in S /\ Len(b) \in S
  BY <1>1, <1>4
<1>6. Len(a) = Len(b) /\ \A k \in 1..Len(a) : a[k] = b[k]
  BY <1>1, <1>5 DEF S
<1> QED
  BY <1>6, SeqEqual

LEMMA WordsOnce ==
    ASSUME NEW text, NEW a \in Seq(Nat), NEW b \in Seq(Nat), NEW v, NEW w,
           WordsAt(text, a, v), WordsAt(text, b, w)
    PROVE  v = w
<1>1. a = b
  BY RisingOnce DEF WordsAt, Rising
<1> QED
  BY <1>1 DEF WordsAt

(* A text without a 0, in which another word can begin. *)
Open(text) ==
    /\ text \in Seq(Visible \cup Seps)
    /\ text # <<>> => is_sep(text[Len(text)])
Told(text, words) == Open(text) /\ \E at \in Seq(Nat) : WordsAt(text, at, words)

(* The words of an open text stay as they are when more is typed. *)
LEMMA WordStays ==
    ASSUME NEW text, Open(text), NEW t \in Seq(Visible \cup Seps), Len(t) >= Len(text),
           \A k \in 1..Len(text) : t[k] = text[k], NEW p \in 1..Len(text)
    PROVE  Until(SubSeq(t, p, Len(t)), Seps) = Until(SubSeq(text, p, Len(text)), Seps)
<1> DEFINE A == SubSeq(t, p, Len(t))
           B == SubSeq(text, p, Len(text))
           V == Visible \cup Seps
<1> HIDE DEF V
<1>1. /\ text \in Seq(V) /\ t \in Seq(V) /\ Len(text) \in Nat /\ Len(t) \in Nat /\ Len(t) >= Len(text)
      /\ text[Len(text)] \in Seps
  <2>1. text \in Seq(Visible \cup Seps) /\ Len(text) \in Nat /\ Len(text) >= 1
    BY DEF Open
  <2>2. text # <<>>
    BY <2>1, EmptySeq
  <2> QED
    BY <2>1, <2>2 DEF V, Open, is_sep
<1>2. /\ A \in Seq(V) /\ Len(A) = Len(t) - p + 1 /\ \A k \in 1..(Len(t) - p + 1) : A[k] = t[p + k - 1]
  <2>1. \A k \in p..Len(t) : t[k] \in V
    BY <1>1
  <2>2. p <= Len(t)
    BY <1>1
  <2> QED
    BY <1>1, <2>1, <2>2, SubSeqProperties
<1>3. /\ B \in Seq(V) /\ Len(B) = Len(text) - p + 1
      /\ \A k \in 1..(Len(text) - p + 1) : B[k] = text[p + k - 1]
  <2>1. \A k \in p..Len(text) : text[k] \in V
    BY <1>1
  <2> QED
    BY <1>1, <2>1, SubSeqProperties
<1> HIDE DEF A, B
<1>4. Len(B) <= Len(A) /\ \A k \in 1..Len(B) : A[k] = B[k]
  <2>1. \A k \in 1..(Len(text) - p + 1) : p + k - 1 \in 1..Len(text) /\ k \in 1..(Len(t) - p + 1)
    BY <1>1
  <2>2. Len(B) <= Len(A)
    BY <1>1, <1>2, <1>3
  <2>3. ASSUME NEW k \in 1..(Len(text) - p + 1) PROVE A[k] = B[k]
    <3>1. A[k] = t[p + k - 1] /\ B[k] = text[p + k - 1]
      BY <1>2, <1>3, <2>1
    <3> QED
      BY <2>1, <3>1
  <2> QED
    BY <1>3, <2>2, <2>3
<1>5. PICK m \in 0..Len(B) : /\ \A k \in 1..m : B[k] \notin Seps
                             /\ m = Len(B) \/ B[m + 1] \in Seps
  BY <1>3, UntilEnds
<1>6. m # Len(B)
  <2>1. Len(B) \in 1..(Len(text) - p + 1) /\ p + Len(B) - 1 = Len(text)
    BY <1>1, <1>3
  <2>2. B[Len(B)] \in Seps
    BY <1>1, <1>3, <2>1
  <2> QED
    BY <1>5, <2>1, <2>2
<1>7. m \in Nat /\ m + 1 \in 1..Len(B) /\ B[m + 1] \in Seps /\ Len(B) \in Nat /\ Len(A) \in Nat
  <2>1. Len(B) \in Nat /\ Len(A) \in Nat
    BY <1>2, <1>3
  <2>2. m \in Nat /\ m + 1 \in 1..Len(B)
    BY <1>6, <2>1
  <2> QED
    BY <1>5, <1>6, <2>1, <2>2
<1>8. Until(B, Seps) = SubSeq(B, 1, m)
  BY <1>3, <1>5, UntilIs
<1>9. Until(A, Seps) = SubSeq(A, 1, m)
  <2>1. m \in 0..Len(A) /\ (\A k \in 1..m : A[k] \notin Seps) /\ A[m + 1] \in Seps
    BY <1>4, <1>5, <1>7
  <2> QED
    BY <1>2, <2>1, UntilIs
<1>10. SubSeq(A, 1, m) = SubSeq(B, 1, m)
  <2>1. \A k \in 1..m : A[k] \in V /\ B[k] \in V /\ A[k] = B[k]
    BY <1>2, <1>3, <1>4, <1>7
  <2>2. /\ SubSeq(A, 1, m) \in Seq(V) /\ Len(SubSeq(A, 1, m)) = m
        /\ \A k \in 1..m : SubSeq(A, 1, m)[k] = A[k]
    BY <1>7, <2>1, SubSeqProperties
  <2>3. /\ SubSeq(B, 1, m) \in Seq(V) /\ Len(SubSeq(B, 1, m)) = m
        /\ \A k \in 1..m : SubSeq(B, 1, m)[k] = B[k]
    BY <1>7, <2>1, SubSeqProperties
  <2> QED
    BY <2>1, <2>2, <2>3, SeqEqual
<1> QED
  BY <1>8, <1>9, <1>10 DEF A, B

LEMMA ToldNone == ASSUME NEW lead \in Seq(Seps) PROVE Told(lead, <<>>)
<1>1. lead \in Seq(Visible \cup Seps)
  BY SeqMonotonic
<1>2. DOMAIN lead = 1..Len(lead) /\ Len(lead) \in Nat /\ \A k \in 1..Len(lead) : is_sep(lead[k])
  BY DEF is_sep
<1>3. lead # <<>> => Len(lead) \in 1..Len(lead)
  BY EmptySeq
<1>4. Open(lead)
  BY <1>1, <1>2, <1>3 DEF Open
<1>5. Range(<<>>) = {k \in DOMAIN lead : ~is_sep(lead[k]) /\ (k = 1 \/ is_sep(lead[k - 1]))}
  BY <1>2, RangeOfNone
<1>6. <<>> = [k \in DOMAIN <<>> |-> Until(SubSeq(lead, <<>>[k], Len(lead)), Seps)]
  OBVIOUS
<1>7. WordsAt(lead, <<>>, <<>>)
  BY <1>5, <1>6, RangeOfNone DEF WordsAt, Rising
<1> QED
  BY <1>4, <1>7, RangeOfNone DEF Told

-----------------------------------------------------------------------------
(* A line that is typed word by word. *)

LEMMA VisibleNotSep == \A c \in Visible : ~is_sep(c)
<1>1. \A c \in Range(Digits) : c \notin Seps
  <2>1. DOMAIN Digits = 1..16 /\ \A k \in 1..16 : Digits[k] \notin Seps
    BY DEF Digits, Seps
  <2> QED
    BY <2>1 DEF Range
<1>2. \A c \in Range(Uppers) : c \notin Seps
  <2>1. DOMAIN Uppers = 1..6 /\ \A k \in 1..6 : Uppers[k] \notin Seps
    BY DEF Uppers, Seps
  <2> QED
    BY <2>1 DEF Range
<1>3. \A c \in Names \cup {"/", "x", "X", "B", "i", "u"} : c \notin Seps
  BY DEF Names, Plain, Dumped, Seps
<1> QED
  BY <1>1, <1>2, <1>3 DEF is_sep, Visible

(* What follows an open text: a word and a blank, or only a blank. *)
Follows(t, text, w, blank) ==
    /\ t \in Seq(Visible \cup Seps) /\ Len(t) = Len(text) + Len(w) + 1
    /\ \A k \in 1..Len(text) : t[k] = text[k]
    /\ \A k \in 1..Len(w) : t[Len(text) + k] = w[k]
    /\ t[Len(t)] = blank

LEMMA FollowsIs ==
    ASSUME NEW text \in Seq(Visible \cup Seps), NEW w \in Seq(Visible), NEW blank \in Seps
    PROVE  Follows(text \o w \o <<blank>>, text, w, blank)
<1> DEFINE V == Visible \cup Seps
           t == text \o w \o <<blank>>
<1> HIDE DEF V
<1>1. text \in Seq(V) /\ w \in Seq(V) /\ <<blank>> \in Seq(V) /\ Len(<<blank>>) = 1
      /\ Len(text) \in Nat /\ Len(w) \in Nat /\ <<blank>>[1] = blank
  <2>1. w \in Seq(V)
    BY SeqMonotonic DEF V
  <2>2. <<blank>> \in Seq(V)
    BY DEF V
  <2> QED
    BY <2>1, <2>2 DEF V
<1>2. /\ text \o w \in Seq(V) /\ Len(text \o w) = Len(text) + Len(w)
      /\ \A k \in 1..(Len(text) + Len(w)) :
             (text \o w)[k] = IF k <= Len(text) THEN text[k] ELSE w[k - Len(text)]
  BY <1>1, ConcatProperties
<1> DEFINE u == text \o w
<1> HIDE DEF u
<1>3. /\ t \in Seq(V) /\ Len(t) = Len(u) + 1
      /\ \A k \in 1..(Len(u) + 1) : t[k] = IF k <= Len(u) THEN u[k] ELSE <<blank>>[k - Len(u)]
  <2>1. u \in Seq(V) /\ t = u \o <<blank>>
    BY <1>2 DEF u
  <2> QED
    BY <1>1, <2>1, ConcatProperties
<1>4. Len(u) = Len(text) + Len(w)
      /\ \A k \in 1..(Len(text) + Len(w)) : u[k] = IF k <= Len(text) THEN text[k] ELSE w[k - Len(text)]
  BY <1>2 DEF u
<1> HIDE DEF t
<1>5. \A k \in 1..Len(text) : t[k] = text[k]
  BY <1>1, <1>3, <1>4
<1>6. ASSUME NEW k \in 1..Len(w) PROVE t[Len(text) + k] = w[k]
  <2>1. Len(text) + k \in 1..(Len(u) + 1) /\ Len(text) + k <= Len(u) /\ ~(Len(text) + k <= Len(text))
        /\ Len(text) + k - Len(text) = k /\ Len(text) + k \in 1..(Len(text) + Len(w))
    BY <1>1, <1>4
  <2> QED
    BY <1>3, <1>4, <2>1
<1>7. t[Len(t)] = blank
  <2>1. Len(t) \in 1..(Len(u) + 1) /\ ~(Len(t) <= Len(u)) /\ Len(t) - Len(u) = 1
    BY <1>1, <1>3, <1>4
  <2> QED
    BY <1>1, <1>3, <2>1
<1> QED
  BY <1>3, <1>4, <1>5, <1>6, <1>7 DEF Follows, V, t

(* The places where words begin, before and after more has been typed. *)
LEMMA PlacesFollow ==
    ASSUME NEW text, Open(text), NEW w \in Seq(Visible), NEW blank \in Seps, NEW t,
           Follows(t, text, w, blank), NEW k \in 1..Len(t)
    PROVE  First(t, k) <=> (k \in 1..Len(text) /\ First(text, k)) \/ (w # <<>> /\ k = Len(text) + 1)
<1>1. /\ Len(text) \in Nat /\ Len(w) \in Nat /\ Len(t) = Len(text) + Len(w) + 1
      /\ (\A a \in 1..Len(text) : t[a] = text[a]) /\ (\A a \in 1..Len(w) : t[Len(text) + a] = w[a])
      /\ is_sep(t[Len(t)])
  BY DEF Open, Follows, is_sep
<1>2. \A a \in 1..Len(w) : ~is_sep(t[Len(text) + a])
  <2> TAKE a \in 1..Len(w)
  <2>1. w[a] \in Visible
    OBVIOUS
  <2> QED
    BY <1>1, <2>1, VisibleNotSep
<1>3. CASE k \in 1..Len(text)
  <2>1. t[k] = text[k] /\ (k # 1 => t[k - 1] = text[k - 1]) /\ k # Len(text) + 1
    BY <1>1, <1>3
  <2> QED
    BY <1>3, <2>1 DEF First
<1>4. CASE k = Len(text) + 1 /\ w # <<>>
  <2>1. 1 \in 1..Len(w)
    BY <1>4, EmptySeq, <1>1
  <2>2. ~is_sep(t[k])
    BY <1>2, <1>4, <2>1
  <2>3. k = 1 \/ is_sep(t[k - 1])
    <3>1. CASE text = <<>>
      BY <1>4, <3>1, EmptySeq
    <3>2. CASE text # <<>>
      <4>1. Len(text) \in 1..Len(text) /\ k - 1 = Len(text)
        BY <1>1, <1>4, <3>2, EmptySeq DEF Open
      <4> QED
        BY <1>1, <3>2, <4>1 DEF Open
    <3> QED
      BY <3>1, <3>2
  <2> QED
    BY <1>4, <2>2, <2>3 DEF First
<1>5. CASE k = Len(text) + 1 /\ w = <<>>
  <2>1. k = Len(t) /\ k \notin 1..Len(text)
    BY <1>1, <1>5, EmptySeq
  <2> QED
    BY <1>1, <1>5, <2>1 DEF First
<1>6. CASE k > Len(text) + 1
  <2>1. k \notin 1..Len(text)
    BY <1>1, <1>6
  <2>2. CASE k = Len(t)
    BY <1>1, <1>6, <2>1, <2>2 DEF First
  <2>3. CASE k # Len(t)
    <3>1. PICK a \in 1..Len(w) : a = k - 1 - Len(text)
      <4>1. k - 1 - Len(text) \in 1..Len(w)
        BY <1>1, <1>6, <2>3
      <4> QED
        BY <4>1
    <3>2. Len(text) + a = k - 1 /\ k # 1
      BY <1>1, <3>1
    <3>3. ~is_sep(t[k - 1])
      BY <1>2, <3>2
    <3> QED
      BY <1>1, <1>6, <2>1, <3>2, <3>3 DEF First
  <2> QED
    BY <2>2, <2>3
<1> QED
  BY <1>1, <1>3, <1>4, <1>5, <1>6

LEMMA OpenFollows ==
    ASSUME NEW text, Open(text), NEW w \in Seq(Visible), NEW blank \in Seps, NEW t,
           Follows(t, text, w, blank)
    PROVE  Open(t)
BY DEF Open, Follows, is_sep

(* The word that is typed is the last of the words. *)
LEMMA WordTyped ==
    ASSUME NEW text, Open(text), NEW w \in Seq(Visible), NEW blank \in Seps, NEW t,
           Follows(t, text, w, blank)
    PROVE  Until(SubSeq(t, Len(text) + 1, Len(t)), Seps) = w
<1> DEFINE V == Visible \cup Seps
           B == SubSeq(t, Len(text) + 1, Len(t))
<1> HIDE DEF V
<1>1. /\ Len(text) \in Nat /\ Len(w) \in Nat /\ Len(t) = Len(text) + Len(w) + 1
      /\ (\A a \in 1..Len(w) : t[Len(text) + a] = w[a]) /\ t[Len(t)] \in Seps /\ t \in Seq(V)
  BY DEF Open, Follows, V
<1>2. /\ B \in Seq(V) /\ Len(B) = Len(w) + 1 /\ \A k \in 1..(Len(w) + 1) : B[k] = t[Len(text) + k]
  <2>1. \A k \in Len(text) + 1 .. Len(t) : t[k] \in V
    BY <1>1
  <2>2. Len(text) + 1 <= Len(t) /\ Len(t) - (Len(text) + 1) + 1 = Len(w) + 1
    BY <1>1
  <2>3. /\ B \in Seq(V) /\ Len(B) = Len(w) + 1
        /\ \A k \in 1..(Len(w) + 1) : B[k] = t[Len(text) + 1 + k - 1]
    BY <1>1, <2>1, <2>2, SubSeqProperties
  <2>4. \A k \in 1..(Len(w) + 1) : Len(text) + 1 + k - 1 = Len(text) + k
    BY <1>1
  <2> QED
    BY <2>3, <2>4
<1> HIDE DEF B
<1>3. \A k \in 1..Len(w) : B[k] = w[k] /\ w[k] \in Visible /\ B[k] \notin Seps
  <2> TAKE k \in 1..Len(w)
  <2>1. k \in 1..(Len(w) + 1)
    BY <1>1
  <2>2. B[k] = w[k] /\ w[k] \in Visible
    BY <1>1, <1>2, <2>1
  <2> QED
    BY <2>2, VisibleNotSep DEF is_sep
<1>4. B[Len(w) + 1] \in Seps
  <2>1. Len(w) + 1 \in 1..(Len(w) + 1) /\ Len(text) + (Len(w) + 1) = Len(t)
    BY <1>1
  <2>2. B[Len(w) + 1] = t[Len(t)]
    BY <1>2, <2>1
  <2> QED
    BY <1>1, <2>2
<1>5. Until(B, Seps) = SubSeq(B, 1, Len(w))
  <2>1. Len(w) \in 0..Len(B)
    BY <1>1, <1>2
  <2>2. \A k \in 1..Len(w) : B[k] \notin Seps
    BY <1>3
  <2> QED
    BY <1>2, <1>4, <2>1, <2>2, UntilIs
<1>6. SubSeq(B, 1, Len(w)) = w
  <2>1. \A k \in 1..Len(w) : B[k] \in Visible
    BY <1>3
  <2>2. /\ SubSeq(B, 1, Len(w)) \in Seq(Visible) /\ Len(SubSeq(B, 1, Len(w))) = Len(w)
        /\ \A k \in 1..Len(w) : SubSeq(B, 1, Len(w))[k] = B[k]
    BY <1>1, <2>1, SubSeqProperties
  <2> QED
    BY <1>3, <2>2, SeqEqual
<1> QED
  BY <1>5, <1>6 DEF B

LEMMA SeqIs == ASSUME NEW S, NEW a \in Seq(S) PROVE a = [k \in 1..Len(a) |-> a[k]]
OBVIOUS

Blank == " "
NewLine == "\n"

LEMMA BlankIs == Blank \in Seps /\ NewLine \in Seps
BY DEF Blank, NewLine, Seps

Phrase == {w \in Seq(Visible) : w # <<>>}

(* Only a blank is typed: the words stay. *)
LEMMA ToldBlank ==
    ASSUME NEW text, NEW words, Told(text, words), NEW blank \in Seps
    PROVE  Told(text \o <<blank>>, words)
<1> DEFINE t == text \o <<blank>>
<1>1. text \in Seq(Visible \cup Seps) /\ Open(text) /\ Len(text) \in Nat
  BY DEF Told, Open
<1>2. <<>> \in Seq(Visible) /\ Len(<<>>) = 0
  BY EmptySeq
<1>3. text \o <<>> = text
  BY <1>1, ConcatEmptySeq
<1>4. Follows(t, text, <<>>, blank)
  BY <1>1, <1>2, <1>3, FollowsIs
<1> HIDE DEF t
<1>5. Open(t)
  BY <1>1, <1>2, <1>4, OpenFollows
<1>6. PICK at \in Seq(Nat) : WordsAt(text, at, words)
  BY DEF Told
<1>7. t \in Seq(Visible \cup Seps) /\ Len(t) = Len(text) + 1 /\ DOMAIN t = 1..Len(t) /\ DOMAIN text = 1..Len(text)
      /\ \A k \in 1..Len(text) : t[k] = text[k]
  BY <1>1, <1>2, <1>4 DEF Follows
<1>8. \A k \in 1..Len(t) : First(t, k) <=> k \in 1..Len(text) /\ First(text, k)
  BY <1>1, <1>2, <1>4, PlacesFollow
<1>9. Range(at) = {k \in DOMAIN text : First(text, k)} /\ Rising(at)
      /\ words = [k \in DOMAIN at |-> Until(SubSeq(text, at[k], Len(text)), Seps)]
  BY <1>6, Zenon DEF WordsAt, First, Rising
<1>10. Range(at) = {k \in DOMAIN t : First(t, k)}
  <2>1. 1..Len(text) \subseteq 1..Len(t)
    BY <1>1, <1>7
  <2> QED
    BY <1>7, <1>8, <1>9, <2>1
<1>11. \A k \in DOMAIN at : Until(SubSeq(t, at[k], Len(t)), Seps) = Until(SubSeq(text, at[k], Len(text)), Seps)
  <2> TAKE k \in DOMAIN at
  <2>1. at[k] \in 1..Len(text)
    BY <1>7, <1>9 DEF Range
  <2>2. Len(t) >= Len(text)
    BY <1>1, <1>7
  <2> QED
    BY <1>1, <1>7, <2>1, <2>2, WordStays
<1>12. words = [k \in DOMAIN at |-> Until(SubSeq(t, at[k], Len(t)), Seps)]
  BY <1>9, <1>11
<1>13. WordsAt(t, at, words)
  BY <1>9, <1>10, <1>12, Zenon DEF WordsAt, First, Rising
<1> QED
  BY <1>5, <1>13 DEF Told, t

(* A word and a blank are typed: it is one word more. *)
LEMMA ToldMore ==
    ASSUME NEW text, NEW words \in Seq(Phrase), Told(text, words), NEW w \in Phrase, NEW blank \in Seps
    PROVE  Told(text \o w \o <<blank>>, Append(words, w))
<1> DEFINE t == text \o w \o <<blank>>
<1>1. text \in Seq(Visible \cup Seps) /\ Open(text) /\ Len(text) \in Nat /\ w \in Seq(Visible) /\ w # <<>>
  BY DEF Told, Open, Phrase
<1>2. Follows(t, text, w, blank)
  BY <1>1, FollowsIs
<1> HIDE DEF t
<1>3. Open(t)
  BY <1>1, <1>2, OpenFollows
<1>4. PICK at \in Seq(Nat) : WordsAt(text, at, words)
  BY DEF Told
<1>5. t \in Seq(Visible \cup Seps) /\ DOMAIN t = 1..Len(t) /\ DOMAIN text = 1..Len(text)
      /\ Len(t) = Len(text) + Len(w) + 1 /\ Len(w) \in Nat
      /\ \A k \in 1..Len(text) : t[k] = text[k]
  BY <1>1, <1>2 DEF Follows
<1>6. \A k \in 1..Len(t) : First(t, k) <=> (k \in 1..Len(text) /\ First(text, k)) \/ k = Len(text) + 1
  BY <1>1, <1>2, PlacesFollow
<1>7. Range(at) = {k \in DOMAIN text : First(text, k)} /\ Rising(at)
      /\ words = [k \in DOMAIN at |-> Until(SubSeq(text, at[k], Len(text)), Seps)]
  BY <1>4, Zenon DEF WordsAt, First, Rising
<1> DEFINE p == Len(text) + 1
           b == Append(at, p)
<1>8. /\ b \in Seq(Nat) /\ Len(b) = Len(at) + 1 /\ Len(at) \in Nat /\ b[Len(at) + 1] = p
      /\ (\A k \in 1..Len(at) : b[k] = at[k])
      /\ DOMAIN at = 1..Len(at) /\ DOMAIN b = 1..(Len(at) + 1) /\ p \in Nat
  <2>1. p \in Nat
    BY <1>1
  <2>2. /\ b \in Seq(Nat) /\ Len(b) = Len(at) + 1 /\ b[Len(at) + 1] = p
        /\ (\A k \in 1..Len(at) : b[k] = at[k])
    BY <2>1, AppendProperties
  <2> QED
    BY <2>1, <2>2
<1>9. \A k \in 1..Len(at) : at[k] \in 1..Len(text) /\ at[k] < p
  <2> TAKE k \in 1..Len(at)
  <2>1. at[k] \in 1..Len(text)
    BY <1>5, <1>7, <1>8 DEF Range
  <2> QED
    BY <1>1, <2>1
<1> HIDE DEF p, b
<1>10. Rising(b)
  <2> SUFFICES ASSUME NEW j \in 1..(Len(at) + 1), NEW k \in 1..(Len(at) + 1), j < k PROVE b[j] < b[k]
    BY <1>8 DEF Rising
  <2>1. j \in 1..Len(at)
    BY <1>8
  <2>2. CASE k = Len(at) + 1
    BY <1>8, <1>9, <2>1, <2>2
  <2>3. CASE k \in 1..Len(at)
    BY <1>7, <1>8, <2>1, <2>3 DEF Rising
  <2>4. k = Len(at) + 1 \/ k \in 1..Len(at)
    BY <1>8
  <2> QED
    BY <2>2, <2>3, <2>4
<1>11. \A k : k \in Range(b) <=> k \in Range(at) \/ k = p
  <2>1. \A k : k \in Range(b) <=> \E a \in 1..(Len(at) + 1) : b[a] = k
    BY <1>8 DEF Range
  <2>2. \A k : k \in Range(at) <=> \E a \in 1..Len(at) : at[a] = k
    BY <1>8 DEF Range
  <2>3. \A a \in 1..(Len(at) + 1) : a \in 1..Len(at) \/ a = Len(at) + 1
    BY <1>8
  <2>4. Len(at) + 1 \in 1..(Len(at) + 1) /\ 1..Len(at) \subseteq 1..(Len(at) + 1)
    BY <1>8
  <2> QED
    BY <1>8, <2>1, <2>2, <2>3, <2>4
<1>12. Range(b) = {k \in DOMAIN t : First(t, k)}
  <2>1. 1..Len(text) \subseteq 1..Len(t) /\ p \in 1..Len(t)
    BY <1>1, <1>5 DEF p
  <2>2. \A k \in 1..Len(t) : First(t, k) <=> (k \in 1..Len(text) /\ First(text, k)) \/ k = p
    BY <1>6 DEF p
  <2> QED
    BY <1>5, <1>7, <1>11, <2>1, <2>2
<1>13. /\ Append(words, w) \in Seq(Phrase) /\ Len(Append(words, w)) = Len(words) + 1
       /\ Append(words, w)[Len(words) + 1] = w
       /\ \A k \in 1..Len(words) : Append(words, w)[k] = words[k]
  BY AppendProperties
<1>14. Len(words) = Len(at) /\ \A k \in 1..Len(at) : words[k] = Until(SubSeq(text, at[k], Len(text)), Seps)
  <2>1. DOMAIN words = 1..Len(words) /\ Len(words) \in Nat /\ DOMAIN words = 1..Len(at)
    BY <1>7, <1>8
  <2> QED
    BY <1>7, <1>8, <2>1
<1>15. \A k \in 1..(Len(at) + 1) : Append(words, w)[k] = Until(SubSeq(t, b[k], Len(t)), Seps)
  <2> TAKE k \in 1..(Len(at) + 1)
  <2>1. CASE k = Len(at) + 1
    <3>1. Until(SubSeq(t, p, Len(t)), Seps) = w
      BY <1>1, <1>2, WordTyped DEF p
    <3> QED
      BY <1>8, <1>13, <1>14, <2>1, <3>1
  <2>2. CASE k \in 1..Len(at)
    <3>1. PICK q \in 1..Len(text) : q = at[k]
      BY <1>9, <2>2
    <3>2. Len(t) >= Len(text)
      BY <1>1, <1>5
    <3>3. Until(SubSeq(t, q, Len(t)), Seps) = Until(SubSeq(text, q, Len(text)), Seps)
      BY <1>1, <1>5, <3>2, WordStays
    <3>4. Append(words, w)[k] = words[k] /\ b[k] = at[k]
      BY <1>8, <1>13, <1>14, <2>2
    <3> QED
      BY <1>14, <2>2, <3>1, <3>3, <3>4
  <2>3. k = Len(at) + 1 \/ k \in 1..Len(at)
    BY <1>8
  <2> QED
    BY <2>1, <2>2, <2>3
<1>16. Append(words, w) = [k \in DOMAIN b |-> Until(SubSeq(t, b[k], Len(t)), Seps)]
  <2>1. Append(words, w) = [k \in 1..(Len(at) + 1) |-> Append(words, w)[k]]
    BY <1>13, <1>14, SeqIs
  <2> QED
    BY <1>8, <1>15, <2>1
<1>17. WordsAt(t, b, Append(words, w))
  BY <1>10, <1>12, <1>16, Zenon DEF WordsAt, First, Rising
<1> QED
  BY <1>3, <1>8, <1>17 DEF Told, t

Longer(text, w) == text \o w \o <<Blank>>

(* The text that Joined makes is one that f makes word by word. *)
Joins(f, words, lead) ==
    f = [k \in 0..Len(words) |-> IF k = 0 THEN lead ELSE Longer(f[k - 1], words[k])]

LEMMA JoinedIs ==
    ASSUME NEW words \in Seq(Phrase), NEW lead \in Seq(Seps)
    PROVE  \E f : Joins(f, words, lead) /\ Joined(words, lead) = f[Len(words)] \o <<NewLine>>
<1> DEFINE V == Seq(Visible \cup Seps)
           s == [p \in (1..Len(words)) \X V |-> Longer(p[2], words[p[1]])]
           f == CHOOSE h : Joins(h, words, lead)
<1>1. \A k \in 1..Len(words) : words[k] \in V
  <2> TAKE k \in 1..Len(words)
  <2>1. words[k] \in Phrase
    OBVIOUS
  <2>2. words[k] \in Seq(Visible)
    BY <2>1 DEF Phrase
  <2> QED
    BY <2>2, SeqMonotonic
<1>2. Blank \in Seps
  BY BlankIs
<1>3. <<Blank>> \in V
  BY <1>2
<1>4. lead \in V
  BY SeqMonotonic
<1>5. \A u, v \in V : u \o v \in V
  BY ConcatProperties
<1> HIDE DEF V
<1>6. s \in [(1..Len(words)) \X V -> V]
  BY <1>1, <1>3, <1>5 DEF Longer
<1>7. \A k \in 1..Len(words), v \in V : s[<<k, v>>] = Longer(v, words[k])
  OBVIOUS
<1> HIDE DEF s
<1>8. Recursive(V, Len(words), lead, s)
  <2>1. Len(words) \in Nat
    OBVIOUS
  <2> QED
    BY <1>4, <1>6, <2>1, Recursion
<1>9. PICK g \in [0..Len(words) -> V] :
          g[0] = lead /\ \A k \in 1..Len(words) : g[k] = s[<<k, g[k - 1]>>]
  BY <1>8 DEF Recursive
<1>10. \A k \in 1..Len(words) : g[k] = Longer(g[k - 1], words[k])
  <2> TAKE k \in 1..Len(words)
  <2>1. k - 1 \in 0..Len(words)
    OBVIOUS
  <2>2. g[k - 1] \in V
    BY <1>9, <2>1
  <2> QED
    BY <1>7, <1>9, <2>2
<1>11. g = [k \in 0..Len(words) |-> IF k = 0 THEN lead ELSE Longer(g[k - 1], words[k])]
  BY <1>9, <1>10
<1>12. Joins(g, words, lead)
  BY <1>11, Zenon DEF Joins
<1>13. Joins(f, words, lead)
  BY <1>12
<1>14. Joined(words, lead) = f[Len(words)] \o <<NewLine>>
  BY Zenon DEF Joined, Joins, Longer, Blank, NewLine
<1> QED
  BY <1>13, <1>14

LEMMA JoinedTold ==
    ASSUME NEW words \in Seq(Phrase), NEW lead \in Seq(Seps)
    PROVE  Told(Joined(words, lead), words)
<1>1. PICK f : Joins(f, words, lead) /\ Joined(words, lead) = f[Len(words)] \o <<NewLine>>
  BY JoinedIs
<1>2. Len(words) \in Nat
  OBVIOUS
<1>3. \A k \in 0..Len(words) : f[k] = IF k = 0 THEN lead ELSE Longer(f[k - 1], words[k])
  BY <1>1, Zenon DEF Joins
<1>4. f[0] = lead /\ \A k \in 1..Len(words) : f[k] = Longer(f[k - 1], words[k])
  BY <1>2, <1>3
<1> DEFINE S == {n \in Nat : n <= Len(words) => Told(f[n], SubSeq(words, 1, n))}
<1>5. 0 \in S
  <2>1. SubSeq(words, 1, 0) = <<>>
    BY SubSeqEmpty
  <2> QED
    BY <1>4, <2>1, ToldNone
<1>6. ASSUME NEW n \in Nat, n \in S PROVE n + 1 \in S
  <2> SUFFICES ASSUME n + 1 <= Len(words) PROVE Told(f[n + 1], SubSeq(words, 1, n + 1))
    OBVIOUS
  <2>1. Told(f[n], SubSeq(words, 1, n))
    BY <1>2, <1>6
  <2>2. n + 1 \in 1..Len(words) /\ n + 1 - 1 = n
    BY <1>2
  <2>3. f[n + 1] = Longer(f[n], words[n + 1])
    BY <1>4, <2>2
  <2>4. words[n + 1] \in Phrase /\ Blank \in Seps
    BY <2>2, BlankIs
  <2>5. /\ SubSeq(words, 1, n) \in Seq(Phrase) /\ Len(SubSeq(words, 1, n)) = n
        /\ \A k \in 1..n : SubSeq(words, 1, n)[k] = words[k]
    <3>1. \A k \in 1..n : words[k] \in Phrase
      BY <1>2, <2>2
    <3> QED
      BY <3>1, SubSeqProperties
  <2>6. Told(f[n + 1], Append(SubSeq(words, 1, n), words[n + 1]))
    BY <2>1, <2>3, <2>4, <2>5, ToldMore DEF Longer
  <2>7. Append(SubSeq(words, 1, n), words[n + 1]) = SubSeq(words, 1, n + 1)
    <3>1. \A k \in 1..(n + 1) : words[k] \in Phrase
      BY <1>2, <2>2
    <3>2. /\ SubSeq(words, 1, n + 1) \in Seq(Phrase) /\ Len(SubSeq(words, 1, n + 1)) = n + 1
          /\ \A k \in 1..(n + 1) : SubSeq(words, 1, n + 1)[k] = words[k]
      BY <3>1, SubSeqProperties
    <3>3. /\ Append(SubSeq(words, 1, n), words[n + 1]) \in Seq(Phrase)
          /\ Len(Append(SubSeq(words, 1, n), words[n + 1])) = n + 1
          /\ Append(SubSeq(words, 1, n), words[n + 1])[n + 1] = words[n + 1]
          /\ \A k \in 1..n : Append(SubSeq(words, 1, n), words[n + 1])[k] = words[k]
      <4> DEFINE u == SubSeq(words, 1, n)
                 w == words[n + 1]
      <4> HIDE DEF u, w
      <4>1. u \in Seq(Phrase) /\ Len(u) = n /\ (\A k \in 1..n : u[k] = words[k]) /\ w \in Phrase
        BY <2>4, <2>5 DEF u, w
      <4>2. /\ Append(u, w) \in Seq(Phrase) /\ Len(Append(u, w)) = n + 1
            /\ Append(u, w)[n + 1] = w /\ \A k \in 1..n : Append(u, w)[k] = u[k]
        BY <4>1, AppendProperties
      <4> QED
        BY <4>1, <4>2 DEF u, w
    <3>4. \A k \in 1..(n + 1) : k \in 1..n \/ k = n + 1
      OBVIOUS
    <3> QED
      BY <3>2, <3>3, <3>4, SeqEqual
  <2> QED
    BY <2>6, <2>7
<1> HIDE DEF S
<1>7. Nat \subseteq S
  BY <1>5, <1>6, Induction
<1>8. Told(f[Len(words)], SubSeq(words, 1, Len(words)))
  BY <1>2, <1>7 DEF S
<1>9. SubSeq(words, 1, Len(words)) = words
  BY SubSeqFull
<1>10. NewLine \in Seps
  BY BlankIs
<1> QED
  BY <1>1, <1>8, <1>9, <1>10, ToldBlank

-----------------------------------------------------------------------------
(* What a command calls, of any words. *)

Calls == [fun : Called, args : Seq(U32)]

LEMMA CallIs == ASSUME NEW f \in Called, NEW args \in Seq(U32) PROVE Call(f, args) \in Calls
BY DEF Call, Calls

LEMMA NoneOneTwo ==
    ASSUME NEW m \in U32, NEW n \in U32
    PROVE  <<>> \in Seq(U32) /\ <<m>> \in Seq(U32) /\ <<m, n>> \in Seq(U32)
<1>1. <<>> \in Seq(U32)
  BY EmptySeq
<1> HIDE DEF U32
<1>2. <<m>> \in Seq(U32) /\ <<m, n>> \in Seq(U32)
  OBVIOUS
<1> QED BY <1>1, <1>2

LEMMA CalledAre ==
    /\ Plain \subseteq Called /\ Dumped \subseteq Called /\ {"x", "d", "i", "u", "c"} \subseteq Called
    /\ {"anything", "nothing", "usage", "log_level", "status", "dump"} \subseteq Called
    /\ {"alloc", "free", "exit", "sched"} \subseteq Called
BY DEF Plain, Dumped, Called, Names

LEMMA Answers == {Anything, Nothing, Usage} \subseteq Calls
BY CallIs, CalledAre, NoneOneTwo, U32Is DEF Anything, Nothing, Usage

LEMMA ModU32 == ASSUME NEW n \in Int PROVE n % Word \in U32
BY BoundAssumption DEF U32

LEMMA WordsAre ==
    ASSUME NEW a, WordsType(a), NEW k, Has(a, k)
    PROVE  a[k] \in Seq(Chars) /\ a[k] # <<>> /\ Num(a, k) \in U32
BY AtoiU32 DEF WordsType, Has, Num

LEMMA CallsWith ==
    ASSUME NEW f \in Called, NEW m \in U32, NEW n \in U32
    PROVE  Call(f, <<>>) \in Calls /\ Call(f, <<m>>) \in Calls /\ Call(f, <<m, n>>) \in Calls
BY CallIs, NoneOneTwo

LEMMA LevelCalls == ASSUME NEW a, WordsType(a) PROVE command_log_level(a) \in Calls
<1>1. ASSUME NEW n \in 0..7, Digits[n + 1] = a[2][1] PROVE Value(a[2][1]) \in U32
  <2>1. n + 1 \in 1..16
    OBVIOUS
  <2>2. Value(a[2][1]) = n + 1 - 1
    BY <1>1, <2>1, DigitValue
  <2> QED BY <2>2, WordIs DEF U32
<1>2. ASSUME \E n \in 0..7 : Digits[n + 1] = a[2][1] PROVE Call("log_level", <<Value(a[2][1])>>) \in Calls
  <2>1. Value(a[2][1]) \in U32
    BY <1>1, <1>2
  <2> QED BY <2>1, CallsWith, CalledAre
<1> QED BY <1>2, Answers DEF command_log_level

LEMMA MemCalls == ASSUME NEW a, WordsType(a) PROVE command_mem(a) \in Calls
<1>1. Has(a, 3) => Num(a, 3) \in U32
  BY WordsAre
<1>2. Has(a, 4) => Num(a, 4) \in U32
  BY WordsAre
<1>3. ASSUME NEW n \in U32 PROVE (n * PAGESIZE) % Word \in U32
  BY ModU32, WordIs, U32Is
<1>4. /\ "status" \in Called /\ "dump" \in Called /\ "alloc" \in Called /\ "free" \in Called
  BY CalledAre
<1>5. Call("status", <<>>) \in Calls /\ Call("dump", <<>>) \in Calls
  BY <1>4, CallsWith, U32Is
<1>6. Has(a, 3) => Call("dump", <<Num(a, 3)>>) \in Calls
  BY <1>1, <1>4, CallsWith
<1>7. Has(a, 3) => Call("alloc", <<(Num(a, 3) * PAGESIZE) % Word>>) \in Calls
  BY <1>1, <1>3, <1>4, CallsWith
<1>8. Has(a, 4) => Call("free", <<Num(a, 3), (Num(a, 4) * PAGESIZE) % Word>>) \in Calls
  <2>1. Has(a, 4) => Has(a, 3)
    BY DEF Has, WordsType
  <2> QED BY <2>1, <1>1, <1>2, <1>3, <1>4, CallsWith
<1> QED BY <1>5, <1>6, <1>7, <1>8, Answers, Zenon DEF command_mem

LEMMA ExamineCalls ==
    ASSUME NEW param \in Seq(Chars), NEW address \in U32
    PROVE  Examine(param, address) \in Calls
<1> DEFINE L == {"x", "d", "i", "u", "c"}
           lettered == At(param, 1) \in L
           count == IF lettered THEN Tail(param) ELSE param
           n == IF count = <<>> THEN 1 ELSE atoi(count)
<1>1. lettered => param # <<>> /\ param[1] \in L
  <2>1. NUL \notin Visible
    BY BoundAssumption
  <2>2. L \subseteq Visible
    BY DEF Visible, Names, Range, Digits
  <2>3. At(param, 1) \in L => 1 \in DOMAIN param /\ At(param, 1) = param[1]
    BY <2>1, <2>2 DEF At
  <2>4. 1 \in DOMAIN param => param # <<>>
    OBVIOUS
  <2> QED BY <2>3, <2>4
<1>2. count \in Seq(Chars)
  BY <1>1
<1>3. n \in U32
  BY <1>2, AtoiU32, U32Is
<1>4. lettered => Call(param[1], <<n, address>>) \in Calls
  BY <1>1, <1>3, CallsWith, CalledAre
<1>5. Call("x", <<n, address>>) \in Calls
  BY <1>3, CallsWith, CalledAre
<1>6. Examine(param, address) = IF lettered \/ (param # <<>> /\ IsDigit(param[1], 10))
                                THEN Call(IF lettered THEN param[1] ELSE "x", <<n, address>>)
                                ELSE Usage
  BY Zenon DEF Examine
<1> QED BY <1>4, <1>5, <1>6, Answers

LEMMA XCalls == ASSUME NEW a, WordsType(a) PROVE command_x(a) \in Calls
<1>1. ASSUME Has(a, 2) PROVE Call("x", <<1, Num(a, 2)>>) \in Calls
  BY <1>1, WordsAre, CallsWith, CalledAre, U32Is
<1>2. ASSUME Has(a, 2), Has(a, 3) PROVE Examine(Tail(a[2]), Num(a, 3)) \in Calls
  <2>1. a[2] \in Seq(Chars) /\ a[2] # <<>> /\ Num(a, 3) \in U32
    BY <1>2, WordsAre
  <2>2. Tail(a[2]) \in Seq(Chars)
    BY <2>1
  <2> QED BY <2>1, <2>2, ExamineCalls
<1>3. Usage \in Calls
  BY Answers
<1>4. CASE ~Has(a, 2)
  <2>1. ~Has(a, 3)
    BY <1>4 DEF Has, WordsType
  <2>2. command_x(a) = Usage
    BY <1>4, <2>1 DEF command_x
  <2> QED BY <1>3, <2>2
<1>5. CASE Has(a, 2) /\ Has(a, 3) /\ a[2][1] = "/"
  BY <1>2, <1>5, Zenon DEF command_x
<1>6. CASE Has(a, 2) /\ ~(Has(a, 3) /\ a[2][1] = "/")
  <2>1. command_x(a) = Call("x", <<1, Num(a, 2)>>)
    BY <1>6 DEF command_x
  <2> QED BY <1>1, <1>6, <2>1
<1> QED BY <1>4, <1>5, <1>6, Zenon

LEMMA DumpCalls ==
    ASSUME NEW a, WordsType(a), NEW c \in Dumped, a[1] = <<c>>
    PROVE  command_dump(a) \in Calls
<1>1. Call(a[1][1], <<>>) \in Calls
  <2>1. a[1][1] \in Called
    BY CalledAre
  <2> QED BY <2>1, CallsWith, U32Is
<1>2. Has(a, 3) => Call("sched", <<Num(a, 3)>>) \in Calls
  BY WordsAre, CallsWith, CalledAre
<1> QED BY <1>1, <1>2, Answers, Zenon DEF command_dump

LEMMA ExecCalls == ASSUME NEW a, WordsType(a) PROVE exec_cmd(a) \in Calls
<1>1. ASSUME NEW c \in Plain, a[1] = <<c>>
      PROVE  Call(IF a[1][1] = "quit" THEN "exit" ELSE a[1][1], <<>>) \in Calls
  <2>1. a[1][1] \in Called /\ "exit" \in Called
    BY <1>1, CalledAre
  <2> QED BY <2>1, CallsWith, U32Is
<1> QED
  BY <1>1, LevelCalls, MemCalls, XCalls, DumpCalls, Answers, Zenon DEF exec_cmd

-----------------------------------------------------------------------------
(* What a command calls, of the words that were meant. *)

LEMMA Whole == ASSUME NEW S, NEW s \in Seq(S) PROVE SubSeq(s, 1, Len(s)) = s
OBVIOUS

LEMMA AtoiWritten == ASSUME NEW k \in 0..9 PROVE atoi(Written(k)) = k /\ Written(k) \in Phrase
<1> DEFINE s == <<Digits[k + 1]>>
<1>1. Digits[k + 1] \in Visible
  BY VisibleChars, k + 1 \in 1..16
<1>2. s \in Seq(Visible) /\ s \in Seq(Chars) /\ Len(s) = 1 /\ s # <<>> /\ s[1] = Digits[k + 1]
  BY <1>1, VisibleChars
<1>3. At(s, 1) = Digits[k + 1] /\ At(s, 2) = NUL
  BY <1>2 DEF At
<1>4. NUL \notin {"x", "X", "b", "B"}
  BY BoundAssumption DEF Visible, Range, Digits, Uppers, Names
<1>5. Digits[k + 1] = "0" => k = 0
  <2>1. Digits[1] = "0" /\ k + 1 \in 1..16 /\ 1 \in 1..16
    BY DEF Digits
  <2>2. Digits[k + 1] = Digits[1] => k + 1 = 1
    BY <2>1, DigitsDiffer
  <2> QED BY <2>1, <2>2
<1>6. CASE k = 0
  <2>1. Digits[k + 1] = "0"
    BY <1>6 DEF Digits
  <2>2. BaseOf(s) = 8
    BY <1>3, <1>4, <2>1 DEF BaseOf
  <2> QED BY <1>2, <1>6, <2>2, AtoiNone DEF Written, Phrase
<1>7. CASE k # 0
  <2>1. BaseOf(s) = 10
    BY <1>3, <1>5, <1>7 DEF BaseOf
  <2>2. Spells(<<>>, 10, 0)
    BY SpellsNone
  <2>3. 0 * 10 + k \in U32 /\ 0 * 10 + k = k /\ k \in 0..(10 - 1)
    BY WordIs DEF U32
  <2>4. Spells(Append(<<>>, Digits[k + 1]), 10, 0 * 10 + k)
    BY <2>2, <2>3, SpellsMore
  <2>5. Append(<<>>, Digits[k + 1]) = s
    OBVIOUS
  <2>6. SubSeq(s, Skipped(BaseOf(s)) + 1, Len(s)) = s
    <3>1. Skipped(BaseOf(s)) + 1 = 1
      BY <2>1 DEF Skipped
    <3>2. SubSeq(s, 1, Len(s)) = s
      BY <1>2, Whole
    <3> QED BY <3>1, <3>2
  <2>7. Spells(SubSeq(s, Skipped(BaseOf(s)) + 1, Len(s)), BaseOf(s), k)
    BY <2>1, <2>3, <2>4, <2>5, <2>6
  <2>8. atoi(s) = k
    <3>1. s \in Seq(Chars) /\ BaseOf(s) \in {2, 10, 16}
      BY <1>2, <2>1
    <3> HIDE DEF s
    <3> QED BY <3>1, <2>7, AtoiSpelled
  <2> QED BY <2>8, <1>2 DEF Written, Phrase
<1> QED BY <1>6, <1>7

(* Two words, three and four. *)
LEMMA Two == ASSUME NEW u, NEW v, NEW a, a = <<u, v>>
             PROVE  a[1] = u /\ a[2] = v /\ Has(a, 2) /\ ~Has(a, 3) /\ ~Has(a, 4)
BY DEF Has
LEMMA Three == ASSUME NEW u, NEW v, NEW w, NEW a, a = <<u, v, w>>
               PROVE  a[1] = u /\ a[2] = v /\ a[3] = w /\ Has(a, 2) /\ Has(a, 3) /\ ~Has(a, 4)
BY DEF Has
LEMMA Four == ASSUME NEW u, NEW v, NEW w, NEW x, NEW a, a = <<u, v, w, x>>
              PROVE  a[1] = u /\ a[2] = v /\ a[3] = w /\ a[4] = x /\ Has(a, 2) /\ Has(a, 3) /\ Has(a, 4)
BY DEF Has

LEMMA SameLetter == ASSUME NEW c, NEW d, <<c>> = <<d>> PROVE c = d
OBVIOUS

(* The command that a first word names. *)
LEMMA DispatchPlain ==
    ASSUME NEW a, NEW c \in Plain, a[1] = <<c>>
    PROVE  exec_cmd(a) = Call(IF c = "quit" THEN "exit" ELSE c, <<>>)
<1>1. \A d : a[1] = <<d>> => d = c
  BY SameLetter
<1>2. a[1] # <<"log_level">> /\ a[1] # <<"mem">> /\ a[1] # <<"x">>
  BY <1>1 DEF Plain
<1>3. \A d \in Dumped : a[1] # <<d>>
  BY <1>1 DEF Plain, Dumped
<1>4. a[1][1] = c
  OBVIOUS
<1> QED BY <1>2, <1>3, <1>4 DEF exec_cmd

LEMMA DispatchDumped ==
    ASSUME NEW a, NEW c \in Dumped, a[1] = <<c>>
    PROVE  exec_cmd(a) = command_dump(a)
<1>1. \A d : a[1] = <<d>> => d = c
  BY SameLetter
<1>2. a[1] # <<"log_level">> /\ a[1] # <<"mem">> /\ a[1] # <<"x">>
  BY <1>1 DEF Dumped
<1>3. \A d \in Plain : a[1] # <<d>>
  BY <1>1 DEF Plain, Dumped
<1> QED BY <1>2, <1>3 DEF exec_cmd

LEMMA DispatchOthers ==
    ASSUME NEW a
    PROVE  /\ a[1] = <<"log_level">> => exec_cmd(a) = command_log_level(a)
           /\ a[1] = <<"mem">> => exec_cmd(a) = command_mem(a)
           /\ a[1] = <<"x">> => exec_cmd(a) = command_x(a)
<1>1. ASSUME NEW c \in {"log_level", "mem", "x"}, a[1] = <<c>>
      PROVE  (\A d \in Plain \cup Dumped : a[1] # <<d>>) /\ \A d : a[1] = <<d>> => d = c
  <2>1. \A d : a[1] = <<d>> => d = c
    BY <1>1, SameLetter
  <2>2. c \notin Plain \cup Dumped
    BY DEF Plain, Dumped
  <2> QED BY <2>1, <2>2
<1>2. CASE a[1] = <<"log_level">>
  <2>1. a[1] # <<"mem">> /\ a[1] # <<"x">>
    BY <1>1, <1>2
  <2>2. \A d \in Plain \cup Dumped : a[1] # <<d>>
    BY <1>1, <1>2
  <2> QED BY <1>2, <2>1, <2>2 DEF exec_cmd
<1>3. CASE a[1] = <<"mem">>
  <2>1. a[1] # <<"log_level">> /\ a[1] # <<"x">>
    BY <1>1, <1>3
  <2>2. \A d \in Plain \cup Dumped : a[1] # <<d>>
    BY <1>1, <1>3
  <2> QED BY <1>3, <2>1, <2>2 DEF exec_cmd
<1>4. CASE a[1] = <<"x">>
  <2>1. a[1] # <<"mem">> /\ a[1] # <<"log_level">>
    BY <1>1, <1>4
  <2>2. \A d \in Plain \cup Dumped : a[1] # <<d>>
    BY <1>1, <1>4
  <2> QED BY <1>4, <2>1, <2>2 DEF exec_cmd
<1> QED BY <1>2, <1>3, <1>4

(* The words of a request make the call that it is for. *)
Meets(request) ==
    /\ request.words \in Seq(Phrase) /\ request.words # <<>>
    /\ request.call \in Calls /\ exec_cmd(request.words) = request.call

LEMMA LetterPhrase ==
    ASSUME NEW c \in Visible
    PROVE  <<c>> \in Phrase
<1>1. <<c>> \in Seq(Visible) /\ <<c>> # <<>>
  OBVIOUS
<1> QED BY <1>1 DEF Phrase

LEMMA WordsVisible ==
    /\ Plain \subseteq Visible /\ Dumped \subseteq Visible
    /\ {"dump", "mem", "status", "log_level", "alloc", "free", "sched", "x", "/"} \subseteq Visible
    /\ {"d", "i", "u", "c"} \subseteq Visible
BY DEF Visible, Names, Plain, Dumped, Range, Digits

LEMMA Phrases ==
    ASSUME NEW u \in Phrase, NEW v \in Phrase, NEW w \in Phrase, NEW x \in Phrase
    PROVE  <<u>> \in Seq(Phrase) /\ <<u, v>> \in Seq(Phrase) /\ <<u, v, w>> \in Seq(Phrase)
           /\ <<u, v, w, x>> \in Seq(Phrase)
OBVIOUS

LEMMA MeetsIs ==
    ASSUME NEW words \in Seq(Phrase), words # <<>>, NEW f \in Called, NEW args \in Seq(U32),
           exec_cmd(words) = Call(f, args)
    PROVE  Meets(Ask(words, f, args))
BY CallIs DEF Meets, Ask

LEMMA PlainMeets ==
    ASSUME NEW c \in Plain
    PROVE  Meets(Ask(<<<<c>>>>, IF c = "quit" THEN "exit" ELSE c, <<>>))
<1> DEFINE a == <<<<c>>>>
           f == IF c = "quit" THEN "exit" ELSE c
<1>1. <<c>> \in Phrase
  BY WordsVisible, LetterPhrase
<1>2. a \in Seq(Phrase) /\ a # <<>> /\ a[1] = <<c>>
  BY <1>1, Phrases
<1>3. f \in Called
  BY CalledAre
<1>4. exec_cmd(a) = Call(f, <<>>)
  BY <1>2, DispatchPlain
<1>5. <<>> \in Seq(U32)
  BY EmptySeq
<1> HIDE DEF a, f
<1>6. Meets(Ask(a, f, <<>>))
  BY <1>2, <1>3, <1>4, <1>5, MeetsIs
<1> QED BY <1>6 DEF a, f

LEMMA SaysIs ==
    ASSUME NEW a, NEW c, a[2] = <<c>>, Has(a, 2)
    PROVE  \A d : Says(a, d) <=> d = c
BY SameLetter DEF Says

LEMMA DumpMeets ==
    ASSUME NEW c \in Dumped
    PROVE  Meets(Ask(<<<<c>>, <<"dump">>>>, c, <<>>))
<1> DEFINE a == <<<<c>>, <<"dump">>>>
<1>1. <<c>> \in Phrase /\ <<"dump">> \in Phrase
  BY WordsVisible, LetterPhrase
<1>2. a \in Seq(Phrase) /\ a # <<>>
  BY <1>1, Phrases
<1>3. a[1] = <<c>> /\ a[2] = <<"dump">> /\ Has(a, 2) /\ ~Has(a, 3)
  BY Two
<1>4. c \in Called /\ <<>> \in Seq(U32)
  BY CalledAre, EmptySeq
<1>5. a[1][1] = c
  BY <1>3
<1> HIDE DEF a
<1>6. Says(a, "dump")
  BY <1>3, SaysIs
<1>7. command_dump(a) = Call(c, <<>>)
  BY <1>3, <1>5, <1>6 DEF command_dump
<1>8. exec_cmd(a) = Call(c, <<>>)
  BY <1>3, <1>7, DispatchDumped
<1>9. Meets(Ask(a, c, <<>>))
  BY <1>2, <1>4, <1>8, MeetsIs
<1> QED BY <1>9 DEF a

LEMMA MemSays ==
    ASSUME NEW a, a[1] = <<"mem">>, Has(a, 2)
    PROVE  /\ a[2] = <<"status">> => exec_cmd(a) = Call("status", <<>>)
           /\ a[2] = <<"dump">> /\ ~Has(a, 3) => exec_cmd(a) = Call("dump", <<>>)
           /\ a[2] = <<"dump">> /\ Has(a, 3) /\ Num(a, 3) # 0 => exec_cmd(a) = Call("dump", <<Num(a, 3)>>)
           /\ a[2] = <<"alloc">> /\ Has(a, 3) /\ Num(a, 3) # 0 =>
                exec_cmd(a) = Call("alloc", <<(Num(a, 3) * PAGESIZE) % Word>>)
           /\ a[2] = <<"free">> /\ Has(a, 4) /\ Num(a, 3) # 0 /\ Num(a, 4) # 0 =>
                exec_cmd(a) = Call("free", <<Num(a, 3), (Num(a, 4) * PAGESIZE) % Word>>)
<1>1. exec_cmd(a) = command_mem(a)
  BY DispatchOthers
<1>2. CASE a[2] = <<"status">>
  <2>1. \A d : Says(a, d) <=> d = "status"
    BY <1>2, SaysIs
  <2>2. Says(a, "status") /\ ~Says(a, "dump") /\ ~Says(a, "alloc") /\ ~Says(a, "free")
    BY <2>1
  <2>3. <<"status">> # <<"dump">> /\ <<"status">> # <<"alloc">> /\ <<"status">> # <<"free">>
    OBVIOUS
  <2> QED BY <1>1, <1>2, <2>2, <2>3 DEF command_mem
<1>3. CASE a[2] = <<"dump">>
  <2>1. \A d : Says(a, d) <=> d = "dump"
    BY <1>3, SaysIs
  <2>2. ~Says(a, "status") /\ Says(a, "dump") /\ ~Says(a, "alloc") /\ ~Says(a, "free")
    BY <2>1
  <2>3. <<"dump">> # <<"status">> /\ <<"dump">> # <<"alloc">> /\ <<"dump">> # <<"free">>
    OBVIOUS
  <2> QED BY <1>1, <1>3, <2>2, <2>3 DEF command_mem
<1>4. CASE a[2] = <<"alloc">>
  <2>1. \A d : Says(a, d) <=> d = "alloc"
    BY <1>4, SaysIs
  <2>2. ~Says(a, "status") /\ Says(a, "alloc") /\ ~Says(a, "dump") /\ ~Says(a, "free")
    BY <2>1
  <2>3. <<"alloc">> # <<"status">> /\ <<"alloc">> # <<"dump">> /\ <<"alloc">> # <<"free">>
    OBVIOUS
  <2> QED BY <1>1, <1>4, <2>2, <2>3 DEF command_mem
<1>5. CASE a[2] = <<"free">>
  <2>1. \A d : Says(a, d) <=> d = "free"
    BY <1>5, SaysIs
  <2>2. ~Says(a, "status") /\ Says(a, "free") /\ ~Says(a, "dump") /\ ~Says(a, "alloc")
    BY <2>1
  <2>3. <<"free">> # <<"status">> /\ <<"free">> # <<"dump">> /\ <<"free">> # <<"alloc">>
    OBVIOUS
  <2> QED BY <1>1, <1>5, <2>2, <2>3 DEF command_mem
<1> QED BY <1>2, <1>3, <1>4, <1>5, Zenon

LEMMA MemMeets ==
    /\ Meets(Ask(<<<<"mem">>, <<"status">>>>, "status", <<>>))
    /\ Meets(Ask(<<<<"mem">>, <<"dump">>>>, "dump", <<>>))
<1>1. <<"mem">> \in Phrase /\ <<"status">> \in Phrase /\ <<"dump">> \in Phrase
  BY WordsVisible, LetterPhrase
<1>2. "status" \in Called /\ "dump" \in Called /\ <<>> \in Seq(U32)
  BY CalledAre, EmptySeq
<1>3. Meets(Ask(<<<<"mem">>, <<"status">>>>, "status", <<>>))
  <2> DEFINE a == <<<<"mem">>, <<"status">>>>
  <2>1. a[1] = <<"mem">> /\ a[2] = <<"status">> /\ Has(a, 2) /\ ~Has(a, 3)
    BY Two
  <2>2. a \in Seq(Phrase) /\ a # <<>>
    BY <1>1, Phrases
  <2> HIDE DEF a
  <2>3. exec_cmd(a) = Call("status", <<>>)
    BY <2>1, MemSays
  <2>4. Meets(Ask(a, "status", <<>>))
    BY <1>2, <2>2, <2>3, MeetsIs
  <2> QED BY <2>4 DEF a
<1>4. Meets(Ask(<<<<"mem">>, <<"dump">>>>, "dump", <<>>))
  <2> DEFINE a == <<<<"mem">>, <<"dump">>>>
  <2>1. a[1] = <<"mem">> /\ a[2] = <<"dump">> /\ Has(a, 2) /\ ~Has(a, 3)
    BY Two
  <2>2. a \in Seq(Phrase) /\ a # <<>>
    BY <1>1, Phrases
  <2> HIDE DEF a
  <2>3. exec_cmd(a) = Call("dump", <<>>)
    BY <2>1, MemSays
  <2>4. Meets(Ask(a, "dump", <<>>))
    BY <1>2, <2>2, <2>3, MeetsIs
  <2> QED BY <2>4 DEF a
<1> QED BY <1>3, <1>4

LEMMA LevelMeets ==
    ASSUME NEW n \in 0..7
    PROVE  Meets(Ask(<<<<"log_level">>, Written(n)>>, "log_level", <<n>>))
<1> DEFINE a == <<<<"log_level">>, Written(n)>>
<1>1. n \in 0..9 /\ n \in U32 /\ n + 1 \in 1..16
  BY WordIs DEF U32
<1>2. <<"log_level">> \in Phrase /\ Written(n) \in Phrase
  BY <1>1, WordsVisible, LetterPhrase, AtoiWritten
<1>3. a \in Seq(Phrase) /\ a # <<>>
  BY <1>2, Phrases
<1>4. a[1] = <<"log_level">> /\ a[2] = Written(n) /\ Has(a, 2)
  BY Two
<1>5. "log_level" \in Called /\ <<n>> \in Seq(U32)
  BY <1>1, CalledAre, NoneOneTwo
<1> HIDE DEF a
<1>6. a[2][1] = Digits[n + 1]
  BY <1>4 DEF Written
<1>7. Value(a[2][1]) = n
  <2>1. Value(Digits[n + 1]) = n + 1 - 1
    BY <1>1, DigitValue
  <2> QED BY <1>6, <2>1
<1>8. command_log_level(a) = Call("log_level", <<n>>)
  BY <1>4, <1>6, <1>7 DEF command_log_level
<1>9. exec_cmd(a) = Call("log_level", <<n>>)
  BY <1>4, <1>8, DispatchOthers
<1>10. Meets(Ask(a, "log_level", <<n>>))
  BY <1>3, <1>5, <1>9, MeetsIs
<1> QED BY <1>10 DEF a

LEMMA SimpleMeets == \A request \in Simple : Meets(request)
<1> SUFFICES ASSUME NEW request \in Simple PROVE Meets(request)
  OBVIOUS
<1>1. \/ \E c \in Plain : request = Ask(<<<<c>>>>, IF c = "quit" THEN "exit" ELSE c, <<>>)
      \/ \E c \in Dumped : request = Ask(<<<<c>>, <<"dump">>>>, c, <<>>)
      \/ request = Ask(<<<<"mem">>, <<"status">>>>, "status", <<>>)
      \/ request = Ask(<<<<"mem">>, <<"dump">>>>, "dump", <<>>)
      \/ \E n \in Counts \cap 0..7 : request = Ask(<<<<"log_level">>, Written(n)>>, "log_level", <<n>>)
  BY Zenon DEF Simple
<1> QED BY <1>1, PlainMeets, DumpMeets, MemMeets, LevelMeets, Zenon

(* The number s in the commands. *)
LEMMA MemNumber ==
    ASSUME NEW n \in U32, n # 0, NEW s, Legible(n, s)
    PROVE  /\ Meets(Ask(<<<<"mem">>, <<"dump">>, s>>, "dump", <<n>>))
           /\ n * PAGESIZE < Word =>
                 Meets(Ask(<<<<"mem">>, <<"alloc">>, s>>, "alloc", <<n * PAGESIZE>>))
           /\ \A k \in 1..9 :
                 Meets(Ask(<<<<"mem">>, <<"free">>, s, Written(k)>>, "free", <<n, k * PAGESIZE>>))
<1>1. <<"mem">> \in Phrase /\ <<"dump">> \in Phrase /\ <<"alloc">> \in Phrase /\ <<"free">> \in Phrase
  BY WordsVisible, LetterPhrase
<1>2. "dump" \in Called /\ "alloc" \in Called /\ "free" \in Called
  BY CalledAre
<1>3. s \in Phrase /\ atoi(s) = n
  BY DEF Legible, Phrase
<1>4. ASSUME NEW m \in Nat, m < Word PROVE m \in U32 /\ m % Word = m
  <2>1. m \in U32
    BY <1>4, WordIs DEF U32
  <2> QED BY <2>1, Fits
<1>5. Meets(Ask(<<<<"mem">>, <<"dump">>, s>>, "dump", <<n>>))
  <2> DEFINE a == <<<<"mem">>, <<"dump">>, s>>
  <2>1. a[1] = <<"mem">> /\ a[2] = <<"dump">> /\ a[3] = s /\ Has(a, 2) /\ Has(a, 3)
    BY Three
  <2>2. a \in Seq(Phrase) /\ a # <<>> /\ <<n>> \in Seq(U32)
    BY <1>1, <1>3, Phrases, NoneOneTwo
  <2> HIDE DEF a
  <2>3. Num(a, 3) = n
    BY <1>3, <2>1 DEF Num
  <2>4. exec_cmd(a) = Call("dump", <<Num(a, 3)>>)
    BY <2>1, <2>3, MemSays
  <2>5. Meets(Ask(a, "dump", <<n>>))
    BY <1>2, <2>2, <2>3, <2>4, MeetsIs
  <2> QED BY <2>5 DEF a
<1>6. ASSUME n * PAGESIZE < Word
      PROVE  Meets(Ask(<<<<"mem">>, <<"alloc">>, s>>, "alloc", <<n * PAGESIZE>>))
  <2> DEFINE a == <<<<"mem">>, <<"alloc">>, s>>
             m == n * PAGESIZE
  <2>1. a[1] = <<"mem">> /\ a[2] = <<"alloc">> /\ a[3] = s /\ Has(a, 2) /\ Has(a, 3)
    BY Three
  <2>2. m \in Nat
    BY U32Is, WordIs
  <2>3. m \in U32 /\ m % Word = m
    BY <1>4, <1>6, <2>2
  <2>4. a \in Seq(Phrase) /\ a # <<>> /\ <<m>> \in Seq(U32)
    BY <1>1, <1>3, <2>3, Phrases, NoneOneTwo
  <2> HIDE DEF a
  <2>5. Num(a, 3) = n
    BY <1>3, <2>1 DEF Num
  <2>6. exec_cmd(a) = Call("alloc", <<(Num(a, 3) * PAGESIZE) % Word>>)
    BY <2>1, <2>5, MemSays
  <2>7. exec_cmd(a) = Call("alloc", <<m>>)
    BY <2>3, <2>5, <2>6
  <2> HIDE DEF m
  <2>8. Meets(Ask(a, "alloc", <<m>>))
    BY <1>2, <2>4, <2>7, MeetsIs
  <2> QED BY <2>8 DEF a, m
<1>7. ASSUME NEW k \in 1..9
      PROVE  Meets(Ask(<<<<"mem">>, <<"free">>, s, Written(k)>>, "free", <<n, k * PAGESIZE>>))
  <2> DEFINE a == <<<<"mem">>, <<"free">>, s, Written(k)>>
             m == k * PAGESIZE
  <2>1. a[1] = <<"mem">> /\ a[2] = <<"free">> /\ a[3] = s /\ a[4] = Written(k) /\ Has(a, 2) /\ Has(a, 4)
    BY Four
  <2>2. m \in Nat /\ m <= 9 * PAGESIZE
    BY WordIs
  <2>3. m < Word
    BY <2>2, WordIs
  <2>4. m \in U32 /\ m % Word = m
    BY <1>4, <2>2, <2>3
  <2>5. k \in 0..9
    OBVIOUS
  <2>6. Written(k) \in Phrase /\ atoi(Written(k)) = k
    BY <2>5, AtoiWritten
  <2>7. a \in Seq(Phrase) /\ a # <<>> /\ <<n, m>> \in Seq(U32)
    BY <1>1, <1>3, <2>4, <2>6, Phrases, NoneOneTwo
  <2> HIDE DEF a
  <2>8. Num(a, 3) = n /\ Num(a, 4) = k
    BY <1>3, <2>1, <2>6 DEF Num
  <2>9. exec_cmd(a) = Call("free", <<Num(a, 3), (Num(a, 4) * PAGESIZE) % Word>>)
    <3>1. Num(a, 3) # 0 /\ Num(a, 4) # 0
      BY <2>8
    <3> QED BY <2>1, <3>1, MemSays
  <2>10. exec_cmd(a) = Call("free", <<n, m>>)
    BY <2>4, <2>8, <2>9
  <2> HIDE DEF m
  <2>11. Meets(Ask(a, "free", <<n, m>>))
    BY <1>2, <2>7, <2>10, MeetsIs
  <2> QED BY <2>11 DEF a, m
<1> QED BY <1>5, <1>6, <1>7

LEMMA SchedNumber ==
    ASSUME NEW n \in U32, NEW s, Legible(n, s)
    PROVE  Meets(Ask(<<<<"sched">>, <<"dump">>, s>>, "sched", <<n>>))
<1> DEFINE a == <<<<"sched">>, <<"dump">>, s>>
<1>1. <<"sched">> \in Phrase /\ <<"dump">> \in Phrase /\ s \in Phrase /\ atoi(s) = n
  BY WordsVisible, LetterPhrase DEF Legible, Phrase
<1>2. a[1] = <<"sched">> /\ a[2] = <<"dump">> /\ a[3] = s /\ Has(a, 2) /\ Has(a, 3)
  BY Three
<1>3. a \in Seq(Phrase) /\ a # <<>> /\ <<n>> \in Seq(U32) /\ "sched" \in Called
  BY <1>1, Phrases, NoneOneTwo, CalledAre
<1> HIDE DEF a
<1>4. Num(a, 3) = n
  BY <1>1, <1>2 DEF Num
<1>5. Says(a, "dump")
  BY <1>2, SaysIs
<1>6. command_dump(a) = Call("sched", <<n>>)
  BY <1>2, <1>4, <1>5 DEF command_dump
<1>7. "sched" \in Dumped
  BY DEF Dumped
<1>8. exec_cmd(a) = Call("sched", <<n>>)
  BY <1>2, <1>6, <1>7, DispatchDumped
<1>9. Meets(Ask(a, "sched", <<n>>))
  BY <1>3, <1>8, MeetsIs
<1> QED BY <1>9 DEF a

Formatted == {"x", "d", "i", "u", "c"}

(* x, without a format. *)
LEMMA XNumber ==
    ASSUME NEW n \in U32, NEW s, Legible(n, s)
    PROVE  Meets(Ask(<<<<"x">>, s>>, "x", <<1, n>>))
<1> DEFINE a == <<<<"x">>, s>>
<1>1. <<"x">> \in Phrase /\ s \in Phrase /\ atoi(s) = n
  BY WordsVisible, LetterPhrase DEF Legible, Phrase
<1>2. a[1] = <<"x">> /\ a[2] = s /\ Has(a, 2) /\ ~Has(a, 3)
  BY Two
<1>3. a \in Seq(Phrase) /\ a # <<>> /\ <<1, n>> \in Seq(U32) /\ "x" \in Called
  BY <1>1, Phrases, NoneOneTwo, CalledAre, U32Is
<1> HIDE DEF a
<1>4. Num(a, 2) = n
  BY <1>1, <1>2 DEF Num
<1>5. command_x(a) = Call("x", <<1, n>>)
  BY <1>2, <1>4 DEF command_x
<1>6. exec_cmd(a) = Call("x", <<1, n>>)
  BY <1>2, <1>5, DispatchOthers
<1>7. Meets(Ask(a, "x", <<1, n>>))
  BY <1>3, <1>6, MeetsIs
<1> QED BY <1>7 DEF a

(* x, with a word that begins with a slash. *)
LEMMA XSlash ==
    ASSUME NEW n \in U32, NEW s, Legible(n, s), NEW v \in Phrase, v[1] = "/",
           NEW f \in Called, NEW m \in U32, Examine(Tail(v), n) = Call(f, <<m, n>>)
    PROVE  Meets(Ask(<<<<"x">>, v, s>>, f, <<m, n>>))
<1> DEFINE a == <<<<"x">>, v, s>>
<1>1. <<"x">> \in Phrase /\ s \in Phrase /\ atoi(s) = n
  BY WordsVisible, LetterPhrase DEF Legible, Phrase
<1>2. a[1] = <<"x">> /\ a[2] = v /\ a[3] = s /\ Has(a, 2) /\ Has(a, 3)
  BY Three
<1>3. a \in Seq(Phrase) /\ a # <<>> /\ <<m, n>> \in Seq(U32)
  BY <1>1, Phrases, NoneOneTwo
<1> HIDE DEF a
<1>4. Num(a, 3) = n
  BY <1>1, <1>2 DEF Num
<1>5. command_x(a) = Examine(Tail(a[2]), Num(a, 3))
  BY <1>2 DEF command_x
<1>6. exec_cmd(a) = Call(f, <<m, n>>)
  BY <1>2, <1>4, <1>5, DispatchOthers
<1>7. Meets(Ask(a, f, <<m, n>>))
  BY <1>3, <1>6, MeetsIs
<1> QED BY <1>7 DEF a

LEMMA ExamineLetter ==
    ASSUME NEW f \in Formatted, NEW n
    PROVE  Examine(<<f>>, n) = Call(f, <<1, n>>)
<1> DEFINE p == <<f>>
<1>1. p[1] = f /\ At(p, 1) = f /\ Tail(p) = <<>>
  BY DEF At
<1>2. At(p, 1) \in {"x", "d", "i", "u", "c"}
  BY <1>1 DEF Formatted
<1> HIDE DEF p
<1>3. Examine(p, n) = Call(p[1], <<IF Tail(p) = <<>> THEN 1 ELSE atoi(Tail(p)), n>>)
  BY <1>2, Zenon DEF Examine
<1>4. Examine(p, n) = Call(f, <<1, n>>)
  BY <1>1, <1>3
<1> QED BY <1>4 DEF p

LEMMA Joint == ASSUME NEW c, NEW d PROVE <<c>> \o <<d>> = <<c, d>>
<1> DEFINE S == {c, d}
           p == <<c>> \o <<d>>
<1>1. <<c>> \in Seq(S) /\ <<d>> \in Seq(S) /\ Len(<<c>>) = 1 /\ Len(<<d>>) = 1
  OBVIOUS
<1>2. p \in Seq(S) /\ Len(p) = 2
  BY <1>1, ConcatProperties
<1>3. p[1] = c /\ p[2] = d
  BY <1>1, ConcatProperties
<1>4. <<c, d>> \in Seq(S) /\ Len(<<c, d>>) = 2 /\ <<c, d>>[1] = c /\ <<c, d>>[2] = d
  OBVIOUS
<1> HIDE DEF p, S
<1>5. \A k \in 1..2 : p[k] = <<c, d>>[k]
  BY <1>3, <1>4
<1>6. p = <<c, d>>
  BY <1>2, <1>4, <1>5, SeqEqual
<1> QED BY <1>6 DEF p

LEMMA ExamineCounted ==
    ASSUME NEW k \in 0..9, NEW n
    PROVE  /\ Examine(Written(k), n) = Call("x", <<k, n>>)
           /\ Examine(<<"c">> \o Written(k), n) = Call("c", <<k, n>>)
<1>1. atoi(Written(k)) = k /\ k + 1 \in 1..10
  BY AtoiWritten
<1>2. Digits[k + 1] \notin Formatted /\ IsDigit(Digits[k + 1], 10)
  BY <1>1 DEF Formatted, IsDigit, Digits
<1>3. Examine(Written(k), n) = Call("x", <<k, n>>)
  <2> DEFINE p == Written(k)
  <2>1. p[1] = Digits[k + 1] /\ At(p, 1) = Digits[k + 1] /\ p # <<>>
    BY DEF At, Written
  <2>2. ~(At(p, 1) \in {"x", "d", "i", "u", "c"}) /\ IsDigit(p[1], 10)
    BY <1>2, <2>1 DEF Formatted
  <2> HIDE DEF p
  <2>3. Examine(p, n) = Call("x", <<IF p = <<>> THEN 1 ELSE atoi(p), n>>)
    BY <2>1, <2>2, Zenon DEF Examine
  <2>4. Examine(p, n) = Call("x", <<atoi(p), n>>)
    BY <2>1, <2>3
  <2> QED BY <1>1, <2>4 DEF p
<1>4. Examine(<<"c">> \o Written(k), n) = Call("c", <<k, n>>)
  <2> DEFINE p == <<"c">> \o Written(k)
  <2>1. p = <<"c", Digits[k + 1]>>
    BY Joint DEF Written
  <2> HIDE DEF p
  <2>2. p[1] = "c" /\ At(p, 1) = "c" /\ Tail(p) = Written(k) /\ Written(k) # <<>>
    BY <2>1 DEF At, Written
  <2>3. At(p, 1) \in {"x", "d", "i", "u", "c"}
    BY <2>2
  <2>4. Examine(p, n) = Call(p[1], <<IF Tail(p) = <<>> THEN 1 ELSE atoi(Tail(p)), n>>)
    BY <2>3, Zenon DEF Examine
  <2>5. Examine(p, n) = Call("c", <<atoi(Written(k)), n>>)
    BY <2>2, <2>4
  <2> QED BY <1>1, <2>5 DEF p
<1> QED BY <1>3, <1>4

LEMMA SlashWords ==
    ASSUME NEW k \in 0..9
    PROVE  /\ \A f \in Formatted : <<"/", f>> \in Phrase /\ <<"/", f>>[1] = "/" /\ Tail(<<"/", f>>) = <<f>>
           /\ <<"/">> \o Written(k) \in Phrase /\ (<<"/">> \o Written(k))[1] = "/"
           /\ Tail(<<"/">> \o Written(k)) = Written(k)
           /\ <<"/", "c">> \o Written(k) \in Phrase /\ (<<"/", "c">> \o Written(k))[1] = "/"
           /\ Tail(<<"/", "c">> \o Written(k)) = <<"c">> \o Written(k)
<1>1. "/" \in Visible /\ Formatted \subseteq Visible /\ "c" \in Formatted
  BY WordsVisible DEF Formatted
<1>2. Digits[k + 1] \in Visible
  BY VisibleChars, k + 1 \in 1..16
<1>3. ASSUME NEW c \in Visible
      PROVE  <<"/", c>> \in Phrase /\ <<"/", c>>[1] = "/" /\ Tail(<<"/", c>>) = <<c>>
  <2>1. <<"/", c>> \in Seq(Visible) /\ <<"/", c>> # <<>>
    BY <1>1
  <2> QED BY <2>1 DEF Phrase
<1>4. <<"/">> \o Written(k) = <<"/", Digits[k + 1]>>
  BY Joint DEF Written
<1>5. <<"/", "c">> \o Written(k) = <<"/", "c", Digits[k + 1]>>
  <2> DEFINE p == <<"/", "c">> \o Written(k)
             q == <<"/", "c", Digits[k + 1]>>
  <2>1. /\ <<"/", "c">> \in Seq(Visible) /\ Written(k) \in Seq(Visible)
        /\ Len(<<"/", "c">>) = 2 /\ Len(Written(k)) = 1
    BY <1>1, <1>2 DEF Written
  <2>2. p \in Seq(Visible) /\ Len(p) = 3
    BY <2>1, ConcatProperties
  <2>3. p[1] = "/" /\ p[2] = "c" /\ p[3] = Written(k)[1]
    BY <2>1, ConcatProperties
  <2>4. Written(k)[1] = Digits[k + 1]
    BY DEF Written
  <2>5. q \in Seq(Visible) /\ Len(q) = 3 /\ q[1] = "/" /\ q[2] = "c" /\ q[3] = Digits[k + 1]
    BY <1>1, <1>2
  <2> HIDE DEF p, q
  <2>6. \A j \in 1..3 : p[j] = q[j]
    BY <2>3, <2>4, <2>5
  <2>7. p = q
    BY <2>2, <2>5, <2>6, SeqEqual
  <2> QED BY <2>7 DEF p, q
<1>6. /\ <<"/", "c", Digits[k + 1]>> \in Phrase /\ <<"/", "c", Digits[k + 1]>>[1] = "/"
      /\ Tail(<<"/", "c", Digits[k + 1]>>) = <<"c", Digits[k + 1]>>
  <2>1. <<"/", "c", Digits[k + 1]>> \in Seq(Visible) /\ <<"/", "c", Digits[k + 1]>> # <<>>
    BY <1>1, <1>2
  <2> QED BY <2>1 DEF Phrase
<1>7. <<"c">> \o Written(k) = <<"c", Digits[k + 1]>>
  BY Joint DEF Written
<1>8. <<"/", Digits[k + 1]>> \in Phrase /\ <<"/", Digits[k + 1]>>[1] = "/"
      /\ Tail(<<"/", Digits[k + 1]>>) = Written(k)
  BY <1>2, <1>3 DEF Written
<1>9. \A f \in Formatted : <<"/", f>> \in Phrase /\ <<"/", f>>[1] = "/" /\ Tail(<<"/", f>>) = <<f>>
  BY <1>1, <1>3
<1> QED BY <1>4, <1>5, <1>6, <1>7, <1>8, <1>9, Zenon

LEMMA AboutMeets ==
    ASSUME NEW n \in U32, NEW s, Legible(n, s)
    PROVE  \A request \in About(n, s) : Meets(request)
<1> SUFFICES ASSUME NEW request \in About(n, s) PROVE Meets(request)
  OBVIOUS
<1>1. Counts \subseteq 0..9 /\ Counts \ {0} \subseteq 1..9
  BY LineAssumption
<1>2. \/ request = Ask(<<<<"x">>, s>>, "x", <<1, n>>)
      \/ request = Ask(<<<<"sched">>, <<"dump">>, s>>, "sched", <<n>>)
      \/ \E f \in Formatted : request = Ask(<<<<"x">>, <<"/", f>>, s>>, f, <<1, n>>)
      \/ \E k \in Counts : request = Ask(<<<<"x">>, <<"/">> \o Written(k), s>>, "x", <<k, n>>)
      \/ \E k \in Counts : request = Ask(<<<<"x">>, <<"/", "c">> \o Written(k), s>>, "c", <<k, n>>)
      \/ n # 0 /\ request = Ask(<<<<"mem">>, <<"dump">>, s>>, "dump", <<n>>)
      \/ n # 0 /\ \E k \in Counts \ {0} :
            request = Ask(<<<<"mem">>, <<"free">>, s, Written(k)>>, "free", <<n, k * PAGESIZE>>)
      \/ n # 0 /\ ~(n * PAGESIZE >= Word)
               /\ request = Ask(<<<<"mem">>, <<"alloc">>, s>>, "alloc", <<n * PAGESIZE>>)
  BY Zenon DEF About, Formatted
<1>3. ASSUME NEW f \in Formatted PROVE Meets(Ask(<<<<"x">>, <<"/", f>>, s>>, f, <<1, n>>))
  <2>1. <<"/", f>> \in Phrase /\ <<"/", f>>[1] = "/" /\ Tail(<<"/", f>>) = <<f>>
    BY SlashWords, 0 \in 0..9
  <2>2. f \in Called /\ 1 \in U32
    BY CalledAre, U32Is DEF Formatted
  <2>3. Examine(Tail(<<"/", f>>), n) = Call(f, <<1, n>>)
    BY <2>1, ExamineLetter
  <2> QED BY <2>1, <2>2, <2>3, XSlash
<1>4. ASSUME NEW k \in 0..9
      PROVE  /\ Meets(Ask(<<<<"x">>, <<"/">> \o Written(k), s>>, "x", <<k, n>>))
             /\ Meets(Ask(<<<<"x">>, <<"/", "c">> \o Written(k), s>>, "c", <<k, n>>))
  <2> DEFINE v == <<"/">> \o Written(k)
             w == <<"/", "c">> \o Written(k)
  <2>1. /\ v \in Phrase /\ v[1] = "/" /\ Tail(v) = Written(k)
        /\ w \in Phrase /\ w[1] = "/" /\ Tail(w) = <<"c">> \o Written(k)
    BY SlashWords
  <2>2. k \in U32 /\ "x" \in Called /\ "c" \in Called
    BY CalledAre, WordIs DEF U32
  <2>3. Examine(Tail(v), n) = Call("x", <<k, n>>) /\ Examine(Tail(w), n) = Call("c", <<k, n>>)
    BY <2>1, ExamineCounted
  <2> HIDE DEF v, w
  <2>4. Meets(Ask(<<<<"x">>, v, s>>, "x", <<k, n>>)) /\ Meets(Ask(<<<<"x">>, w, s>>, "c", <<k, n>>))
    BY <2>1, <2>2, <2>3, XSlash
  <2> QED BY <2>4 DEF v, w
<1>5. ~(n * PAGESIZE >= Word) => n * PAGESIZE < Word
  <2>1. n * PAGESIZE \in Nat /\ Word \in Nat
    BY U32Is, WordIs
  <2> QED BY <2>1
<1>6. ASSUME NEW k \in Counts \ {0}, n # 0
      PROVE  Meets(Ask(<<<<"mem">>, <<"free">>, s, Written(k)>>, "free", <<n, k * PAGESIZE>>))
  <2>1. k \in 1..9
    BY <1>1
  <2> QED BY <1>6, <2>1, MemNumber, Zenon
<1>7. ASSUME NEW k \in Counts
      PROVE  /\ Meets(Ask(<<<<"x">>, <<"/">> \o Written(k), s>>, "x", <<k, n>>))
             /\ Meets(Ask(<<<<"x">>, <<"/", "c">> \o Written(k), s>>, "c", <<k, n>>))
  BY <1>1, <1>4, Zenon
<1>8. n # 0 => Meets(Ask(<<<<"mem">>, <<"dump">>, s>>, "dump", <<n>>))
  BY MemNumber, Zenon
<1>9. n # 0 /\ ~(n * PAGESIZE >= Word) => Meets(Ask(<<<<"mem">>, <<"alloc">>, s>>, "alloc", <<n * PAGESIZE>>))
  BY <1>5, MemNumber, Zenon
<1>10. Meets(Ask(<<<<"x">>, s>>, "x", <<1, n>>)) /\ Meets(Ask(<<<<"sched">>, <<"dump">>, s>>, "sched", <<n>>))
  BY XNumber, SchedNumber
<1> QED BY <1>2, <1>3, <1>6, <1>7, <1>8, <1>9, <1>10, Zenon

-----------------------------------------------------------------------------
(* The words fit. *)

(* A text that fits in the buffer. *)
Roomy(text) == text \in Seq(Chars) /\ Len(text) < MaxLineLen

(* How far split has read the text, and what it has found up to there. *)
Half(c) == IF is_sep(c) THEN 0 ELSE 1

Found(text, k, c, starts) ==
    /\ k \in Nat \ {0} /\ k <= Len(text) + 1
    /\ starts \in Seq(Nat)
    /\ 2 * Len(starts) <= k - 1 + Half(c)

IInv == Roomy(line) /\ Found(line, i, last, splits)

LEMMA NulIsChar == NUL \in Chars
BY DEF Chars

(* Nothing is found before anything is read. *)
LEMMA Fresh ==
    ASSUME NEW text, Roomy(text)
    PROVE  Found(text, 1, " ", <<>>)
<1>1. Len(text) \in Nat
  BY DEF Roomy
<1>2. Half(" ") = 0
  BY BlankSeparates DEF Half
<1>3. <<>> \in Seq(Nat) /\ Len(<<>>) = 0
  BY EmptySeq
<1>4. 1 <= Len(text) + 1 /\ 2 * 0 <= 1 - 1 + 0
  BY <1>1
<1>5. 2 * Len(<<>>) <= 1 - 1 + Half(" ")
  BY <1>2, <1>3, <1>4, Zenon
<1>6. 1 \in Nat \ {0}
  OBVIOUS
<1> QED BY <1>3, <1>4, <1>5, <1>6, Zenon DEF Found

LEMMA EmptyRoomy == Roomy(<<>>)
<1>1. <<>> \in Seq(Chars) /\ Len(<<>>) = 0
  BY EmptySeq
<1>2. MaxLineLen \in Nat \ {0}
  BY BoundAssumption
<1> QED BY <1>1, <1>2 DEF Roomy

LEMMA InitFits == Init => IInv
<1> SUFFICES ASSUME Init PROVE IInv
  OBVIOUS
<1>1. line = <<>> /\ i = 1 /\ last = " " /\ splits = <<>>
  BY DEF Init
<1> QED BY <1>1, EmptyRoomy, Fresh, Zenon DEF IInv

(* A character is read: at most one word more, and only after a separator. *)
LEMMA SplitCharFits == IInv /\ SplitChar => IInv'
<1> SUFFICES ASSUME IInv, SplitChar PROVE IInv'
  OBVIOUS
<1>1. i \in DOMAIN line
  BY DEF SplitChar, At
<1>2. line \in Seq(Chars) /\ Len(line) \in Nat /\ Len(line) < MaxLineLen /\ i \in 1..Len(line)
  BY <1>1 DEF IInv, Roomy
<1>3. line' \in Seq(Chars) /\ Len(line') = Len(line)
  <2>1. CASE is_sep(line[i])
    <3>1. line' = [line EXCEPT ![i] = NUL]
      BY <2>1 DEF SplitChar
    <3> QED BY <3>1, <1>2, NulIsChar, ExceptSeq
  <2>2. CASE ~is_sep(line[i])
    BY <2>2, <1>2 DEF SplitChar
  <2> QED BY <2>1, <2>2
<1>4. i' = i + 1 /\ last' = line[i]
  BY DEF SplitChar
<1>5. /\ splits \in Seq(Nat) /\ Len(splits) \in Nat /\ i \in Nat \ {0}
      /\ 2 * Len(splits) <= i - 1 + Half(last)
  BY DEF IInv, Found
<1>6. splits' \in Seq(Nat) /\ 2 * Len(splits') <= i + Half(last')
  <2>1. CASE Begins
    <3>1. splits' = Append(splits, i)
      BY <2>1 DEF SplitChar
    <3>2. splits' \in Seq(Nat) /\ Len(splits') = Len(splits) + 1
      BY <3>1, <1>5
    <3>3. Half(last) = 0 /\ Half(last') = 1
      BY <2>1, <1>4 DEF Begins, Half
    <3> QED BY <3>2, <3>3, <1>5
  <2>2. CASE ~Begins
    <3>1. splits' = splits
      BY <2>2 DEF SplitChar
    <3>2. Half(last) \in 0..1 /\ Half(last') \in 0..1
      BY DEF Half
    <3> QED BY <3>1, <3>2, <1>5
  <2> QED BY <2>1, <2>2
<1>7. i' \in Nat \ {0} /\ i' <= Len(line') + 1
  BY <1>2, <1>3, <1>4
<1>8. Roomy(line')
  BY <1>2, <1>3 DEF Roomy
<1>9. 2 * Len(splits') <= i' - 1 + Half(last')
  <2>1. i' - 1 = i
    BY <1>4, <1>5
  <2> QED BY <2>1, <1>6
<1>10. Found(line', i', last', splits')
  BY <1>6, <1>7, <1>9 DEF Found
<1> QED BY <1>8, <1>10, Zenon DEF IInv

LEMMA NextFits == IInv /\ [Next]_vars => IInv'
<1> SUFFICES ASSUME IInv, [Next]_vars PROVE IInv'
  OBVIOUS
<1>1. ASSUME UNCHANGED lineVars PROVE IInv'
  BY <1>1 DEF IInv, lineVars
<1>2. CASE UNCHANGED vars
  BY <1>1, <1>2 DEF vars
<1>3. ASSUME NEW n \in U32, NEW f \in Formats, PutUint(n, f) PROVE IInv'
  BY <1>1, <1>3 DEF PutUint
<1>4. CASE Divide
  BY <1>1, <1>4 DEF Divide
<1>5. CASE Pad
  BY <1>1, <1>5 DEF Pad
<1>6. CASE Digit
  BY <1>1, <1>6 DEF Digit
<1>7. CASE Printed
  BY <1>1, <1>7 DEF Printed
<1>8. ASSUME NEW text, NEW what, Typing(text, what) PROVE IInv'
  <2>1. line' = text /\ i' = 1 /\ last' = " " /\ splits' = <<>>
    BY <1>8 DEF Typing
  <2>2. Roomy(text)
    BY <1>8 DEF Typing, Roomy
  <2> QED BY <2>1, <2>2, Fresh, Zenon DEF IInv
<1>9. ASSUME NEW request, NEW lead, TypeSimple(request, lead) PROVE IInv'
  BY <1>8, <1>9 DEF TypeSimple
<1>10. ASSUME NEW request, NEW lead, TypeCopied(request, lead) PROVE IInv'
  BY <1>8, <1>10 DEF TypeCopied
<1>11. ASSUME NEW text, Scribble(text) PROVE IInv'
  BY <1>8, <1>11 DEF Scribble
<1>12. CASE SplitChar
  BY <1>12, SplitCharFits
<1>13. CASE SplitEnd
  BY <1>1, <1>13 DEF SplitEnd
<1>14. CASE Exec
  BY <1>1, <1>14 DEF Exec
<1>15. CASE Again
  <2>1. line' = <<>> /\ i' = 1 /\ last' = " " /\ splits' = <<>>
    BY <1>15 DEF Again
  <2> QED BY <2>1, EmptyRoomy, Fresh, Zenon DEF IInv
<1>16. ASSUME NEW request, NEW lead, TypeBare(request, lead) PROVE IInv'
  BY <1>8, <1>16 DEF TypeBare
<1> QED
  BY <1>2, <1>3, <1>4, <1>5, <1>6, <1>7, <1>9, <1>10, <1>11, <1>12, <1>13, <1>14, <1>15, <1>16 DEF Next

LEMMA IInvFits == IInv => ArgumentsFit
<1> SUFFICES ASSUME IInv PROVE ArgumentsFit
  OBVIOUS
<1>1. Len(splits) \in Nat /\ Len(line) \in Nat /\ i \in Nat /\ MaxLineLen \in Nat
  BY BoundAssumption DEF IInv, Roomy, Found
<1>2. Half(last) \in 0..1
  BY DEF Half
<1>3. 2 * Len(splits) <= i - 1 + Half(last) /\ i <= Len(line) + 1 /\ Len(line) < MaxLineLen
  BY DEF IInv, Roomy, Found
<1>4. 2 * Len(splits) <= MaxLineLen
  BY <1>1, <1>2, <1>3
<1> QED BY <1>4 DEF ArgumentsFit

(* The pointers of a line of any length, of any text, and the 0 behind them
   fit in the array splits of interpret. *)
THEOREM ArgumentsAlwaysFit == Spec => []ArgumentsFit
<1>1. Spec => []IInv
  BY InitFits, NextFits, PTL DEF Spec
<1> QED BY <1>1, IInvFits, PTL

-----------------------------------------------------------------------------
(* The whole shell. *)

(* The words that were typed are those that the command gets. *)
LEMMA ArgsTyped ==
    ASSUME SplitInv, At(typed, i) = NUL, NEW words \in Seq(Phrase), NEW lead \in Seq(Seps),
           typed = Joined(words, lead)
    PROVE  Args = words
<1>1. WordsAt(Until(typed, {NUL}), splits, Args) /\ splits \in Seq(Nat)
  BY SplitWords DEF SplitInv
<1>2. Told(typed, words)
  BY JoinedTold
<1>3. Until(typed, {NUL}) = typed
  <2>1. typed \in Seq(Visible \cup Seps)
    BY <1>2 DEF Told, Open
  <2>2. Len(typed) \in 0..Len(typed) /\ \A k \in 1..Len(typed) : typed[k] \notin {NUL}
    BY <2>1, VisibleChars
  <2>3. Until(typed, {NUL}) = SubSeq(typed, 1, Len(typed))
    BY <2>1, <2>2, UntilIs
  <2> QED BY <2>1, <2>3, Whole
<1>4. PICK at \in Seq(Nat) : WordsAt(typed, at, words)
  BY <1>2 DEF Told
<1> QED BY <1>1, <1>3, <1>4, WordsOnce

(* The line is the words of a command that makes the call that is meant. *)
Wanted == \E words \in Seq(Phrase), lead \in Seq(Seps) :
              words # <<>> /\ typed = Joined(words, lead) /\ exec_cmd(words) = meant

MeantInv ==
    /\ meant \in Calls /\ call \in Calls
    /\ pc \in {"split", "exec"} /\ meant # Anything => Wanted
    /\ CallIsMeant

Pcs == {"prompt", "divide", "pad", "digits", "split", "exec", "done"}

ShellInv == pc \in Pcs /\ PrintInv /\ SplitInv /\ MeantInv /\ IInv

LEMMA InitShell == Init => ShellInv
<1> SUFFICES ASSUME Init PROVE ShellInv
  OBVIOUS
<1>1. PrintInv
  <2>1. Unseen \in [value : U32, text : Seq(Chars), before : Seq(Chars)] /\ Unseen.text = <<>>
    BY U32Is, EmptySeq DEF Unseen
  <2> QED BY <2>1, UnusedType DEF Init, PrintInv, OutType, ShownType
<1>2. SplitInv
  <2>1. <<>> \in Seq(Chars) /\ Cut(<<>>, <<>>, 1) /\ Marks(<<>>, <<>>, 1) /\ <<>> \in Seq(Nat) /\ Rising(<<>>)
    BY NothingRead, RangeOfNone, EmptySeq
  <2>2. " " = Before(<<>>, 1)
    BY Zenon DEF Before
  <2>3. typed = <<>> /\ line = <<>> /\ i = 1 /\ last = " " /\ splits = <<>> /\ pc = "prompt"
    BY DEF Init
  <2>4. pc # "exec"
    BY <2>3
  <2> QED BY <2>1, <2>2, <2>3, <2>4, Zenon DEF SplitInv
<1>3. MeantInv
  <2>1. pc = "prompt" /\ meant = Anything /\ call = Nothing
    BY DEF Init
  <2> QED BY <2>1, Answers DEF MeantInv, CallIsMeant
<1>4. pc \in Pcs
  BY DEF Init, Pcs
<1> QED BY <1>1, <1>2, <1>3, <1>4, InitFits DEF ShellInv

(* While the kernel prints, nobody types. *)
LEMMA PrintSteps ==
    ASSUME ShellInv, \/ \E n \in U32, f \in Formats : PutUint(n, f)
                     \/ Divide \/ Pad \/ Digit \/ Printed
    PROVE  pc' \in Pcs /\ PrintInv' /\ SplitInv' /\ MeantInv'
<1>1. PrintInv'
  BY PrintBegins, PrintDivides, PrintPads, PrintDigit, PrintEnds DEF ShellInv
<1>2. UNCHANGED <<lineVars, call>> /\ pc' \in {"prompt", "divide", "pad", "digits"}
  BY DEF PutUint, Divide, Pad, Digit, Printed
<1>3. pc' \in Pcs /\ pc' # "exec" /\ pc' \notin {"split", "exec"} /\ pc' # "done"
  BY <1>2 DEF Pcs
<1>4. /\ UNCHANGED <<typed, meant, line, i, splits>> /\ UNCHANGED call
  BY <1>2 DEF lineVars
<1>5. last' = last
  BY <1>2 DEF lineVars
<1>6. SplitInv'
  BY <1>3, <1>4, <1>5, Zenon DEF ShellInv, SplitInv
<1>7. MeantInv'
  BY <1>3, <1>4 DEF ShellInv, MeantInv, CallIsMeant
<1> QED BY <1>1, <1>3, <1>6, <1>7

LEMMA TypingSteps ==
    ASSUME ShellInv, NEW text, NEW what \in Calls, Typing(text, what),
           shown' = shown \/ shown' = Unseen,
           what # Anything => \E words \in Seq(Phrase), lead \in Seq(Seps) :
               words # <<>> /\ text = Joined(words, lead) /\ exec_cmd(words) = what
    PROVE  pc' \in Pcs /\ PrintInv' /\ SplitInv' /\ MeantInv'
<1>1. /\ text \in Seq(Chars) /\ typed' = text /\ line' = text /\ meant' = what
      /\ i' = 1 /\ splits' = <<>> /\ call' = call
  BY DEF Typing
<1>2. pc' = "split" /\ last' = " " /\ out' = out
  BY DEF Typing
<1>3. pc' \in Pcs /\ pc' # "exec" /\ pc' \notin {"divide", "pad", "digits"} /\ pc' # "done"
  BY <1>2 DEF Pcs
<1>4. PrintInv'
  BY <1>2, <1>3, PrintRests DEF ShellInv
<1>5. SplitInv'
  BY <1>1, <1>2, <1>3, SplitFresh
<1>6. what # Anything => Wanted'
  BY <1>1, Zenon DEF Wanted
<1>7. MeantInv'
  BY <1>1, <1>3, <1>6 DEF ShellInv, MeantInv, CallIsMeant
<1> QED BY <1>3, <1>4, <1>5, <1>7

LEMMA AskSteps ==
    ASSUME ShellInv, NEW request, Meets(request), NEW lead \in Leads,
           Typing(Joined(request.words, lead), request.call), shown' = shown \/ shown' = Unseen
    PROVE  pc' \in Pcs /\ PrintInv' /\ SplitInv' /\ MeantInv'
<1>1. lead \in Seq(Seps)
  BY LineAssumption
<1>2. request.words \in Seq(Phrase) /\ request.words # <<>> /\ request.call \in Calls
      /\ exec_cmd(request.words) = request.call
  BY DEF Meets
<1> QED BY <1>1, <1>2, TypingSteps

LEMMA SplitSteps ==
    ASSUME ShellInv, SplitChar \/ SplitEnd
    PROVE  pc' \in Pcs /\ PrintInv' /\ SplitInv' /\ MeantInv'
<1>1. UNCHANGED <<out, shown, typed, meant>> /\ pc = "split" /\ pc' \in {"split", "exec", "done"}
  BY DEF SplitChar, SplitEnd, printVars, lineVars
<1>2. pc' \in Pcs /\ pc' \notin {"divide", "pad", "digits"}
  BY <1>1 DEF Pcs
<1>3. PrintInv'
  BY <1>1, <1>2, PrintRests DEF ShellInv
<1>4. SplitInv'
  BY SplitReads, SplitEnds DEF ShellInv
<1>5. meant # Anything => Wanted /\ Wanted'
  BY <1>1 DEF ShellInv, MeantInv, Wanted
<1>6. call' \in Calls
  BY Answers DEF SplitChar, SplitEnd, ShellInv, MeantInv
<1>7. pc' = "done" => meant = Anything
  <2> SUFFICES ASSUME pc' = "done", meant # Anything PROVE FALSE
    OBVIOUS
  <2>1. SplitEnd
    BY <1>1 DEF SplitChar
  <2>2. splits = <<>> /\ At(line, i) = NUL
    BY <2>1 DEF SplitEnd
  <2>3. SplitInv /\ At(typed, i) = NUL
    BY <2>2, CutEnds DEF ShellInv, SplitInv
  <2>4. PICK words \in Seq(Phrase), lead \in Seq(Seps) : words # <<>> /\ typed = Joined(words, lead)
    BY <1>5 DEF Wanted
  <2>5. Args = words
    BY <2>3, <2>4, ArgsTyped
  <2>6. DOMAIN Args = DOMAIN splits
    BY DEF Args
  <2> QED BY <2>2, <2>4, <2>5, <2>6
<1>8. MeantInv'
  BY <1>1, <1>5, <1>6, <1>7 DEF ShellInv, MeantInv, CallIsMeant
<1> QED BY <1>2, <1>3, <1>4, <1>8

LEMMA ExecSteps ==
    ASSUME ShellInv, Exec
    PROVE  pc' \in Pcs /\ PrintInv' /\ SplitInv' /\ MeantInv'
<1>1. /\ pc = "exec" /\ pc' = "done" /\ call' = exec_cmd(Args)
      /\ out' = out /\ shown' = shown
      /\ UNCHANGED <<typed, meant, line, i, splits>>
  BY DEF Exec, printVars, lineVars
<1>2. last' = last
  BY DEF Exec, lineVars
<1>3. pc' \in Pcs /\ pc' \notin {"divide", "pad", "digits"} /\ pc' # "exec" /\ pc' \notin {"split", "exec"}
  BY <1>1 DEF Pcs
<1>4. PrintInv'
  BY <1>1, <1>3, PrintRests DEF ShellInv
<1>5. SplitInv'
  BY <1>1, <1>2, <1>3, Zenon DEF ShellInv, SplitInv
<1>6. SplitInv /\ At(typed, i) = NUL
  BY <1>1 DEF ShellInv, SplitInv
<1>7. call' \in Calls
  BY <1>1, <1>6, SplitWords, ExecCalls
<1>8. meant # Anything => call' = meant
  <2> SUFFICES ASSUME meant # Anything PROVE call' = meant
    OBVIOUS
  <2>1. Wanted
    BY <1>1 DEF ShellInv, MeantInv
  <2>2. PICK words \in Seq(Phrase), lead \in Seq(Seps) :
            typed = Joined(words, lead) /\ exec_cmd(words) = meant
    BY <2>1 DEF Wanted
  <2>3. Args = words
    BY <1>6, <2>2, ArgsTyped
  <2> QED BY <1>1, <2>2, <2>3
<1>9. MeantInv'
  BY <1>1, <1>3, <1>7, <1>8 DEF ShellInv, MeantInv, CallIsMeant
<1> QED BY <1>3, <1>4, <1>5, <1>9

LEMMA AgainSteps ==
    ASSUME ShellInv, Again
    PROVE  pc' \in Pcs /\ PrintInv' /\ SplitInv' /\ MeantInv'
<1>1. /\ pc' = "prompt" /\ typed' = <<>> /\ meant' = Anything /\ line' = <<>> /\ i' = 1
      /\ splits' = <<>> /\ call' = Nothing /\ out' = out /\ shown' = shown
  BY DEF Again, printVars
<1>2. last' = " "
  BY DEF Again
<1>3. pc' \in Pcs /\ pc' \notin {"divide", "pad", "digits"} /\ pc' # "exec"
      /\ pc' \notin {"split", "exec", "done"}
  BY <1>1 DEF Pcs
<1>4. PrintInv'
  BY <1>1, <1>3, PrintRests DEF ShellInv
<1>5. <<>> \in Seq(Chars)
  BY EmptySeq
<1>6. SplitInv'
  BY <1>1, <1>2, <1>3, <1>5, SplitFresh
<1>7. MeantInv'
  BY <1>1, <1>3, Answers DEF MeantInv, CallIsMeant
<1> QED BY <1>3, <1>4, <1>6, <1>7

LEMMA NextShell == ShellInv /\ [Next]_vars => ShellInv'
<1> SUFFICES ASSUME ShellInv, [Next]_vars PROVE pc' \in Pcs /\ PrintInv' /\ SplitInv' /\ MeantInv'
  BY NextFits DEF ShellInv
<1>1. CASE UNCHANGED vars
  <2>1. UNCHANGED <<pc, out, shown, typed, meant, line, i, splits, call>>
    BY <1>1 DEF vars, printVars, lineVars
  <2>2. last' = last
    BY <1>1 DEF vars, lineVars
  <2>3. PrintInv'
    BY <2>1 DEF ShellInv, PrintInv, OutType, ShownType, Measured, Halfway, Begun, Given
  <2>4. SplitInv'
    BY <2>1, <2>2, Zenon DEF ShellInv, SplitInv
  <2>5. MeantInv'
    BY <2>1 DEF ShellInv, MeantInv, CallIsMeant, Wanted
  <2> QED BY <2>1, <2>3, <2>4, <2>5 DEF ShellInv
<1>2. CASE (\E n \in U32, f \in Formats : PutUint(n, f)) \/ Divide \/ Pad \/ Digit \/ Printed
  BY <1>2, PrintSteps, Zenon
<1>3. ASSUME NEW request \in Simple, NEW lead \in Leads, TypeSimple(request, lead)
      PROVE  pc' \in Pcs /\ PrintInv' /\ SplitInv' /\ MeantInv'
  BY <1>3, SimpleMeets, AskSteps, Zenon DEF TypeSimple
<1>4. ASSUME NEW request \in Copied, NEW lead \in Leads, TypeCopied(request, lead)
      PROVE  pc' \in Pcs /\ PrintInv' /\ SplitInv' /\ MeantInv'
  <2>1. shown.text # <<>> /\ request \in About(shown.value, shown.before \o shown.text)
    BY <1>4 DEF Copied
  <2>2. Legible(shown.value, shown.before \o shown.text) /\ shown.value \in U32
    BY <2>1 DEF ShellInv, PrintInv, ShownType
  <2>3. Meets(request)
    BY <2>1, <2>2, AboutMeets
  <2>4. Typing(Joined(request.words, lead), request.call) /\ shown' = shown
    BY <1>4 DEF TypeCopied
  <2> QED BY <2>3, <2>4, AskSteps, Zenon
<1>5. ASSUME NEW text \in Scribbles, Scribble(text)
      PROVE  pc' \in Pcs /\ PrintInv' /\ SplitInv' /\ MeantInv'
  <2>1. Anything \in Calls
    BY Answers
  <2> QED BY <1>5, <2>1, TypingSteps, Zenon DEF Scribble
<1>6. CASE SplitChar \/ SplitEnd
  BY <1>6, SplitSteps, Zenon
<1>7. CASE Exec
  BY <1>7, ExecSteps, Zenon
<1>8. CASE Again
  BY <1>8, AgainSteps, Zenon
<1>9. ASSUME NEW request \in Bare, NEW lead \in Leads, TypeBare(request, lead)
      PROVE  pc' \in Pcs /\ PrintInv' /\ SplitInv' /\ MeantInv'
  <2>1. Anything \in Calls
    BY Answers
  <2>2. Typing(Joined(request.words, lead), Anything) /\ shown' = shown
    BY <1>9 DEF TypeBare
  <2> QED BY <2>1, <2>2, TypingSteps, Zenon
<1> QED BY <1>1, <1>2, <1>3, <1>4, <1>5, <1>6, <1>7, <1>8, <1>9, Zenon DEF Next

LEMMA SeqIn ==
    ASSUME NEW S, NEW T, NEW s \in Seq(S), \A k \in 1..Len(s) : s[k] \in T
    PROVE  s \in Seq(T)
OBVIOUS

LEMMA ShellInvWords == ShellInv => WordsFound
<1> SUFFICES ASSUME ShellInv, pc = "exec" PROVE WordsAt(Until(typed, {NUL}), splits, Args)
  BY DEF WordsFound
<1>1. SplitInv /\ At(typed, i) = NUL
  BY DEF ShellInv, SplitInv
<1> QED BY <1>1, SplitWords

LEMMA ShellInvTypes == ShellInv => TypeOK
<1> SUFFICES ASSUME ShellInv PROVE TypeOK
  OBVIOUS
<1>1. pc \in {"prompt", "divide", "pad", "digits", "split", "exec", "done"}
  BY DEF ShellInv, Pcs
<1>2. out \in Outs /\ shown \in [value : U32, text : Seq(Chars), before : Seq(Chars)]
  BY DEF ShellInv, PrintInv, OutType, ShownType
<1>3. /\ typed \in Seq(Chars) /\ line \in Seq(Chars) /\ Len(line) = Len(typed) /\ Len(line) < MaxLineLen
      /\ i \in 1..(Len(typed) + 1) /\ Len(typed) \in Nat
  BY DEF ShellInv, SplitInv, Cut, IInv, Roomy
<1>4. i \in 1..MaxLineLen /\ i <= MaxLineLen
  BY <1>3, BoundAssumption
<1>5. last \in Chars
  <2>1. last = Before(typed, i)
    BY DEF ShellInv, SplitInv
  <2>2. CASE i = 1
    <3>1. last = Blank
      BY <2>1, <2>2, Zenon DEF Before, Blank
    <3> QED BY <3>1, BlankIs, VisibleChars
  <2>3. CASE i # 1
    <3>1. last = typed[i - 1]
      BY <2>1, <2>3, Zenon DEF Before
    <3>2. i - 1 \in 1..Len(typed)
      BY <1>3, <2>3
    <3> QED BY <1>3, <3>1, <3>2
  <2> QED BY <2>2, <2>3
<1>6. splits \in Seq(1..MaxLineLen)
  <2>1. splits \in Seq(Nat) /\ Marks(splits, typed, i)
    BY DEF ShellInv, SplitInv
  <2>2. \A k \in 1..Len(splits) : splits[k] \in 1..MaxLineLen
    <3> TAKE k \in 1..Len(splits)
    <3>1. splits[k] \in Nat /\ splits[k] \in Range(splits)
      BY <2>1 DEF Range
    <3>2. splits[k] \in 1..(i - 1)
      BY <2>1, <3>1 DEF Marks
    <3> QED BY <1>3, <1>4, <3>2, BoundAssumption
  <2> DEFINE S == 1..MaxLineLen
  <2>3. \A k \in 1..Len(splits) : splits[k] \in S
    BY <2>2
  <2> HIDE DEF S
  <2>4. splits \in Seq(S)
    BY <2>1, <2>3, SeqIn
  <2> QED BY <2>4 DEF S
<1>7. meant \in Calls /\ call \in Calls
  BY DEF ShellInv, MeantInv
<1>8. last \in Chars /\ {typed, line} \subseteq Seq(Chars)
      /\ {meant, call} \subseteq [fun : Called, args : Seq(U32)]
  BY <1>3, <1>5, <1>7 DEF Calls
<1> QED BY <1>1, <1>2, <1>4, <1>6, <1>8 DEF TypeOK, Outs

LEMMA ShellInvMeant == ShellInv => CallIsMeant
BY DEF ShellInv, MeantInv

LEMMA ShellHolds == Spec => []ShellInv
BY InitShell, NextShell, PTL DEF Spec

(* Every local of vprintk, split and exec_cmd keeps its type, in any line of
   any buffer: a number printed or read stays in 32 bits, a word begins inside
   the line, and a command's arguments are a sequence of numbers. *)
THEOREM TypesHold == Spec => []TypeOK
BY ShellHolds, ShellInvTypes, PTL

(* split finds every word of every line, in its place and in order, though it
   writes zeros over the blanks of the line it is still reading: what it has
   cut so far and what is still ahead of it are together the line as typed. *)
THEOREM EveryWordFound == Spec => []WordsFound
BY ShellHolds, ShellInvWords, PTL

(* Whoever copies any 32-bit number off the screen, in any base and with any
   padding that vprintk prints, and types it in a command behind any blanks, has
   the command called with that number, digit by digit: as it stands if it is a
   decimal or behind a 0x, and otherwise with the 0x (0b) in front that tells
   atoi its base. *)
THEOREM WhatIsMeantIsCalled == Spec => []CallIsMeant
BY ShellHolds, ShellInvMeant, PTL
=============================================================================
