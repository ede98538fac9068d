---------------------------- MODULE PagingProofs ----------------------------
(***************************************************************************)
(* Frames are accounted for, address spaces are apart and the processor     *)
(* follows the tables, for every memory, word size, set of directories and  *)
(* of tables.                                                               *)
(*                                                                          *)
(* Tidy says of the entries, the bitmap and the frames that map dropped     *)
(* what Accounted does, and that no frame is in two entries.  Apart says    *)
(* how directories share tables; FreeBlank and Ready are what these two     *)
(* need of free tables and of the clone under way.  Put, Take, Adds and so  *)
(* on are what a step does to one of these parts, entry by entry.  CopyInv  *)
(* says how far the clone under way has come: behind it the two directories *)
(* map the same pages.                                                      *)
(***************************************************************************)
EXTENDS Paging, WellFoundedInduction, TLAPS

Entries == [Tables -> [Slots -> Frames \cup {None}]]
Views   == [Spaces -> [Dirs -> Tables \cup {None}]]

Holds(E, f) == \E t \in Tables, i \in Slots : E[t][i] = f

Tidy(E, M, L) ==
    /\ \A t, u \in Tables : \A i, j \in Slots :
           E[t][i] = E[u][j] /\ E[t][i] # None => t = u /\ i = j
    /\ \A f \in Frames : f \in M <=> f \in L \/ Holds(E, f)
    /\ \A f \in L : ~Holds(E, f)

(* Tables that are not in use are blank. *)
FreeBlank(E, V) == \A t \in Tables \ V : \A i \in Slots : E[t][i] = None

(* A table is shared only at one index, and then with the kernel. *)
Apart(T, V) ==
    /\ \A s \in Spaces : \A d \in Dirs : T[s][d] \in V \cup {None}
    /\ \A s, u \in Spaces : \A d, e \in Dirs :
           T[s][d] = T[u][e] /\ T[s][d] # None /\ <<s, d>> # <<u, e>> =>
               d = e /\ T[s][d] = T[Kernel][d]

(* Where the kernel sees a table, the processor walks the same one. *)
Walked(T, P) == \A s \in Spaces : \A d \in Dirs : T[s][d] # None => P[s][d] = T[s][d]

(* What the clone under way has still to fill is empty. *)
Ready(E, T, c) ==
    c.dir < NDirs =>
        /\ c.to # Kernel
        /\ \A d \in Dirs : d > c.dir => T[c.to][d] = None
        /\ T[c.to][c.dir] # None => \A i \in Slots : i >= c.slot => E[T[c.to][c.dir]][i] = None

(* The page of directory entry T[s] in the translation buffer B. *)
Remembers(B, S, E, T, s) ==
    \A d \in Dirs : \A i \in Slots :
        <<d, i>> \notin S /\ B[<<d, i>>] # None =>
            T[s][d] # None /\ B[<<d, i>>] = E[T[s][d]][i]

IInv ==
    /\ TypeOK /\ Kernel \in spaces
    /\ Tidy(entry, marked, lost)
    /\ FreeBlank(entry, live)
    /\ Walked(tables, paddrs)
    /\ mode = "run" =>
          /\ Apart(tables, live)
          /\ Ready(entry, tables, copy)
          /\ Copying => copy.to # current_pd
          /\ Remembers(tlb, stale, entry, tables, current_pd)
-----------------------------------------------------------------------------
(* Operators *)

LEMMA FrameFacts == Frames \subseteq Nat /\ None \notin Frames /\ Frames \subseteq Int
BY NameAssumption DEF Frames

LEMMA PageFacts ==
    ASSUME NEW p \in Pages
    PROVE  Dir(p) \in Dirs /\ Slot(p) \in Slots /\ p = <<Dir(p), Slot(p)>>
BY DEF Pages, Dir, Slot

(* The entry of slot i of table t becomes v. *)
Sets(E, E2, t, i, v) ==
    /\ E2 \in Entries
    /\ \A u \in Tables : \A j \in Slots : E2[u][j] = IF u = t /\ j = i THEN v ELSE E[u][j]

LEMMA SetsExcept ==
    ASSUME NEW E \in Entries, NEW t \in Tables, NEW i \in Slots, NEW v \in Frames \cup {None}
    PROVE  /\ Sets(E, [E EXCEPT ![t] = [E[t] EXCEPT ![i] = v]], t, i, v)
           /\ Sets(E, [E EXCEPT ![t][i] = v], t, i, v)
BY DEF Entries, Sets

(* page::claim, and the same of frees. *)
Put(E, M, L, E2, M2, L2, t, i, f) ==
    /\ Sets(E, E2, t, i, f)
    /\ M2 = M \cup {f}
    /\ L2 = IF E[t][i] = None THEN L ELSE L \cup {E[t][i]}

Take(E, M, E2, M2, t, i) ==
    /\ Sets(E, E2, t, i, None)
    /\ M2 = M \ {E[t][i]}

(* A clear frame given to an entry leaves the accounts tidy: what the entry
   held before is lost. *)
LEMMA PutTidy ==
    ASSUME NEW E \in Entries, NEW M \in SUBSET Frames, NEW L \in SUBSET Frames,
           NEW E2, NEW M2, NEW L2, NEW t \in Tables, NEW i \in Slots,
           NEW f \in Frames, f \notin M, Tidy(E, M, L), Put(E, M, L, E2, M2, L2, t, i, f)
    PROVE  Tidy(E2, M2, L2)
<1>1. ~Holds(E, f) /\ f \notin L
  BY DEF Tidy
<1>2. E \in Entries /\ \A u \in Tables : \A j \in Slots : E2[u][j] = IF u = t /\ j = i THEN f ELSE E[u][j]
  BY DEF Put, Sets
<1>3. \A u \in Tables : \A j \in Slots : E[u][j] # f
  BY <1>1 DEF Holds
<1>4. \A g : Holds(E2, g) <=> g = f \/ \E u \in Tables, j \in Slots : E[u][j] = g /\ ~(u = t /\ j = i)
  BY <1>2, <1>3 DEF Holds
<1>5. \A u, w \in Tables : \A j, k \in Slots : E[u][j] = E[w][k] /\ E[u][j] # None => u = w /\ j = k
  BY DEF Tidy
<1>6. \A u, w \in Tables : \A j, k \in Slots : E2[u][j] = E2[w][k] /\ E2[u][j] # None => u = w /\ j = k
  BY <1>2, <1>3, <1>5
<1>7. \A g : g # None => (Holds(E, g) <=> (g = E[t][i] \/ (\E u \in Tables, j \in Slots : E[u][j] = g /\ ~(u = t /\ j = i))))
  BY DEF Holds
<1>8. E[t][i] # None => ~\E u \in Tables, j \in Slots : E[u][j] = E[t][i] /\ ~(u = t /\ j = i)
  BY <1>5
<1>9. M2 = M \cup {f} /\ L2 = IF E[t][i] = None THEN L ELSE L \cup {E[t][i]}
  BY DEF Put
<1>10. \A g \in Frames : g # None
  BY FrameFacts
<1>11. E[t][i] # None => ~Holds(E2, E[t][i])
  BY <1>4, <1>8, <1>3
<1>12. \A g \in L : ~Holds(E2, g)
  <2> SUFFICES ASSUME NEW g \in L PROVE ~Holds(E2, g)
    OBVIOUS
  <2>1. ~Holds(E, g)
    BY DEF Tidy
  <2>2. g # f
    BY <1>1
  <2> QED
    BY <2>1, <2>2, <1>4 DEF Holds
<1>13. \A g \in L2 : ~Holds(E2, g)
  BY <1>9, <1>11, <1>12
<1>14. \A g \in Frames : g \in M2 <=> g \in L2 \/ Holds(E2, g)
  <2> SUFFICES ASSUME NEW g \in Frames PROVE g \in M2 <=> g \in L2 \/ Holds(E2, g)
    OBVIOUS
  <2>1. g \in M <=> g \in L \/ Holds(E, g)
    BY DEF Tidy
  <2> QED
    BY <2>1, <1>4, <1>7, <1>9, <1>10
<1> QED
  BY <1>6, <1>13, <1>14 DEF Tidy

(* So does a frame taken from the entry that holds it. *)
LEMMA TakeTidy ==
    ASSUME NEW E \in Entries, NEW M \in SUBSET Frames, NEW L \in SUBSET Frames,
           NEW E2, NEW M2, NEW t \in Tables, NEW i \in Slots,
           E[t][i] # None, Tidy(E, M, L), Take(E, M, E2, M2, t, i)
    PROVE  Tidy(E2, M2, L)
<1>2. \A u \in Tables : \A j \in Slots : E2[u][j] = IF u = t /\ j = i THEN None ELSE E[u][j]
  BY DEF Take, Sets
<1>5. \A u, w \in Tables : \A j, k \in Slots : E[u][j] = E[w][k] /\ E[u][j] # None => u = w /\ j = k
  BY DEF Tidy
<1>6. \A u, w \in Tables : \A j, k \in Slots : E2[u][j] = E2[w][k] /\ E2[u][j] # None => u = w /\ j = k
  BY <1>2, <1>5
<1>4. \A g \in Frames : Holds(E2, g) <=> g # E[t][i] /\ Holds(E, g)
  <2> SUFFICES ASSUME NEW g \in Frames PROVE Holds(E2, g) <=> g # E[t][i] /\ Holds(E, g)
    OBVIOUS
  <2>1. g # None
    BY FrameFacts
  <2> QED
    BY <1>2, <1>5, <2>1 DEF Holds
<1>7. E[t][i] \notin L
  BY DEF Tidy, Holds
<1>8. M2 = M \ {E[t][i]}
  BY DEF Take
<1>9. \A g \in L : ~Holds(E2, g)
  BY <1>4 DEF Tidy
<1>10. \A g \in Frames : g \in M2 <=> g \in L \/ Holds(E2, g)
  BY <1>4, <1>7, <1>8 DEF Tidy
<1> QED
  BY <1>6, <1>9, <1>10 DEF Tidy
-----------------------------------------------------------------------------
(* Views of the directories *)

(* Table t is entered at index d of directory s. *)
Points(T, T2, s, d, t) ==
    \A u \in Spaces : \A e \in Dirs : T2[u][e] = IF u = s /\ e = d THEN t ELSE T[u][e]

LEMMA PointsExcept ==
    ASSUME NEW T \in Views, NEW s \in Spaces, NEW d \in Dirs, NEW t \in Tables \cup {None}
    PROVE  [T EXCEPT ![s][d] = t] \in Views /\ Points(T, [T EXCEPT ![s][d] = t], s, d, t)
BY DEF Views, Points

(* A table fresh from the heap keeps directories apart. *)
LEMMA NewApart ==
    ASSUME NEW T \in Views, NEW V \in SUBSET Tables, NEW T2, NEW V2, NEW s \in Spaces,
           NEW d \in Dirs, NEW t \in Tables, t \notin V, T[s][d] = None,
           Apart(T, V), Points(T, T2, s, d, t), V \cup {t} \subseteq V2
    PROVE  Apart(T2, V2)
<1>1. \A u \in Spaces : \A e \in Dirs : T2[u][e] = IF u = s /\ e = d THEN t ELSE T[u][e]
  BY DEF Points
<1>2. \A u \in Spaces : \A e \in Dirs : T[u][e] # t
  BY NameAssumption DEF Apart
<1>3. \A u \in Spaces : \A e \in Dirs : T2[u][e] \in V2 \cup {None}
  BY <1>1 DEF Apart
<1>9. \A u, w \in Spaces : \A e, k \in Dirs :
          T[u][e] = T[w][k] /\ T[u][e] # None => e = k /\ (u # w => T[u][e] = T[Kernel][e])
  BY DEF Apart
<1>4. ASSUME NEW u \in Spaces, NEW w \in Spaces, NEW e \in Dirs, NEW k \in Dirs,
             T2[u][e] = T2[w][k], T2[u][e] # None, <<u, e>> # <<w, k>>
      PROVE  e = k /\ T2[u][e] = T2[Kernel][e]
  <2>1. T2[u][e] = T[u][e] /\ T2[w][k] = T[w][k]
    BY <1>1, <1>2, <1>4
  <2>5. T[u][e] = T[w][k] /\ T[u][e] # None
    BY <2>1, <1>4
  <2>6. u # w \/ e # k
    BY <1>4
  <2>2. e = k /\ T[u][e] = T[Kernel][e]
    BY <1>9, <2>5, <2>6
  <2>3. Kernel \in Spaces
    BY NameAssumption
  <2>4. T2[Kernel][e] = T[Kernel][e]
    BY <1>1, <1>4, <2>1, <2>2, <2>3
  <2> QED
    BY <2>1, <2>2, <2>4
<1> QED
  BY <1>3, <1>4 DEF Apart

(* So does entering the kernel's table of an index at that index elsewhere. *)
LEMMA ShareApart ==
    ASSUME NEW T \in Views, NEW V \in SUBSET Tables, NEW T2, NEW s \in Spaces \ {Kernel},
           NEW d \in Dirs, Apart(T, V), Points(T, T2, s, d, T[Kernel][d])
    PROVE  Apart(T2, V)
<1>0. Kernel \in Spaces
  BY NameAssumption
<1>1. \A u \in Spaces : \A e \in Dirs : T2[u][e] = IF u = s /\ e = d THEN T[Kernel][d] ELSE T[u][e]
  BY DEF Points
<1>2. \A e \in Dirs : T2[Kernel][e] = T[Kernel][e]
  BY <1>0, <1>1
<1>3. \A u \in Spaces : \A e \in Dirs : T2[u][e] \in V \cup {None}
  BY <1>0, <1>1 DEF Apart
<1>4. \A u, w \in Spaces : \A e, k \in Dirs :
          T[u][e] = T[w][k] /\ T[u][e] # None => e = k /\ (u # w => T[u][e] = T[Kernel][e])
  BY DEF Apart
<1>5. ASSUME NEW u \in Spaces, NEW w \in Spaces, NEW e \in Dirs, NEW k \in Dirs,
             T2[u][e] = T2[w][k], T2[u][e] # None, <<u, e>> # <<w, k>>
      PROVE  e = k /\ T2[u][e] = T2[Kernel][e]
  <2>1. CASE u = s /\ e = d
    BY <2>1, <1>0, <1>1, <1>2, <1>4, <1>5
  <2>2. CASE w = s /\ k = d /\ ~(u = s /\ e = d)
    BY <2>2, <1>0, <1>1, <1>2, <1>4, <1>5
  <2>3. CASE ~(u = s /\ e = d) /\ ~(w = s /\ k = d)
    BY <2>3, <1>0, <1>1, <1>2, <1>4, <1>5
  <2> QED
    BY <2>1, <2>2, <2>3
<1> QED
  BY <1>3, <1>5 DEF Apart

(* And clearing the only entry of a table. *)
LEMMA DropApart ==
    ASSUME NEW T \in Views, NEW V \in SUBSET Tables, NEW T2, NEW s \in Spaces, NEW d \in Dirs,
           T[s][d] # None, \A u \in Spaces \ {s} : \A e \in Dirs : T[u][e] # T[s][d],
           Apart(T, V), Points(T, T2, s, d, None)
    PROVE  Apart(T2, V \ {T[s][d]})
<1>0. Kernel \in Spaces
  BY NameAssumption
<1>1. \A u \in Spaces : \A e \in Dirs : T2[u][e] = IF u = s /\ e = d THEN None ELSE T[u][e]
  BY DEF Points
<1>2. \A u \in Spaces : \A e \in Dirs : T[u][e] = T[s][d] => u = s /\ e = d
  BY DEF Apart
<1>3. \A u \in Spaces : \A e \in Dirs : T2[u][e] \in (V \ {T[s][d]}) \cup {None}
  BY <1>1, <1>2 DEF Apart
<1>9. \A u, w \in Spaces : \A e, k \in Dirs :
          T[u][e] = T[w][k] /\ T[u][e] # None => e = k /\ (u # w => T[u][e] = T[Kernel][e])
  BY DEF Apart
<1>4. ASSUME NEW u \in Spaces, NEW w \in Spaces, NEW e \in Dirs, NEW k \in Dirs,
             T2[u][e] = T2[w][k], T2[u][e] # None, <<u, e>> # <<w, k>>
      PROVE  e = k /\ T2[u][e] = T2[Kernel][e]
  <2>1. T2[u][e] = T[u][e] /\ T2[w][k] = T[w][k]
    BY <1>1, <1>4
  <2>5. T[u][e] = T[w][k] /\ T[u][e] # None
    BY <2>1, <1>4
  <2>6. u # w \/ e # k
    BY <1>4
  <2>2. e = k /\ T[u][e] = T[Kernel][e]
    BY <1>9, <2>5, <2>6
  <2>3. ~(Kernel = s /\ e = d)
    BY <1>1, <1>2, <1>4, <2>1, <2>2
  <2>4. T2[Kernel][e] = T[Kernel][e]
    BY <1>0, <1>1, <2>3
  <2> QED
    BY <2>1, <2>2, <2>4
<1> QED
  BY <1>3, <1>4 DEF Apart

(* And a directory that is cleared altogether. *)
LEMMA ClearApart ==
    ASSUME NEW T \in Views, NEW V \in SUBSET Tables, NEW T2, NEW s \in Spaces \ {Kernel},
           Apart(T, V), T2 = [T EXCEPT ![s] = [d \in Dirs |-> None]]
    PROVE  Apart(T2, V)
<1>0. Kernel \in Spaces
  BY NameAssumption
<1>1. \A u \in Spaces : \A e \in Dirs : T2[u][e] = IF u = s THEN None ELSE T[u][e]
  BY DEF Views
<1>3. \A u \in Spaces : \A e \in Dirs : T2[u][e] \in V \cup {None}
  BY <1>1 DEF Apart
<1>9. \A u, w \in Spaces : \A e, k \in Dirs :
          T[u][e] = T[w][k] /\ T[u][e] # None => e = k /\ (u # w => T[u][e] = T[Kernel][e])
  BY DEF Apart
<1>4. ASSUME NEW u \in Spaces, NEW w \in Spaces, NEW e \in Dirs, NEW k \in Dirs,
             T2[u][e] = T2[w][k], T2[u][e] # None, <<u, e>> # <<w, k>>
      PROVE  e = k /\ T2[u][e] = T2[Kernel][e]
  <2>1. T2[u][e] = T[u][e] /\ T2[w][k] = T[w][k]
    BY <1>1, <1>4
  <2>5. T[u][e] = T[w][k] /\ T[u][e] # None
    BY <2>1, <1>4
  <2>6. u # w \/ e # k
    BY <1>4
  <2>2. e = k /\ T[u][e] = T[Kernel][e]
    BY <1>9, <2>5, <2>6
  <2> QED
    BY <1>0, <1>1, <1>4, <2>1, <2>2
<1> QED
  BY <1>3, <1>4 DEF Apart
-----------------------------------------------------------------------------
(* map *)

(* Ordinary facts about the variables, from TypeOK. *)
LEMMA Typing ==
    ASSUME TypeOK
    PROVE  /\ entry \in Entries /\ tables \in Views /\ paddrs \in Views
           /\ marked \in SUBSET Frames /\ lost \in SUBSET Frames /\ live \in SUBSET Tables
           /\ current_pd \in Spaces /\ spaces \subseteq Spaces
           /\ copy.from \in spaces /\ copy.to \in spaces
           /\ copy.dir \in 0..NDirs /\ copy.slot \in Slots
BY DEF TypeOK, Entries, Views

(* A translation stays true as long as its entry does. *)
LEMMA KeepsMemory ==
    ASSUME NEW B, NEW S, NEW E, NEW T, NEW S2, NEW E2, NEW T2, NEW s,
           Remembers(B, S, E, T, s), S \subseteq S2,
           \A d \in Dirs : \A i \in Slots :
               <<d, i>> \notin S2 /\ B[<<d, i>>] # None /\ T[s][d] # None /\ B[<<d, i>>] = E[T[s][d]][i] =>
                   T2[s][d] = T[s][d] /\ E2[T[s][d]][i] = E[T[s][d]][i]
    PROVE  Remembers(B, S2, E2, T2, s)
BY DEF Remembers

LEMMA GetPageFacts ==
    ASSUME IInv, mode = "run", NEW p \in Pages, NEW t \in Tables, GetPage(p, t)
    PROVE  /\ Found(p, t) = entry[t]
           /\ live' \in SUBSET Tables /\ t \in live' /\ live \subseteq live'
           /\ tables' \in Views /\ paddrs' \in Views
           /\ Apart(tables', live')
           /\ Walked(tables', paddrs')
           /\ \A s \in Spaces : \A d \in Dirs :
                  tables'[s][d] = IF s = current_pd /\ d = Dir(p) THEN t ELSE tables[s][d]
           /\ tables[current_pd][Dir(p)] \in {None, t}
           /\ tables[current_pd][Dir(p)] = None => t \notin live
<1>1. TypeOK /\ FreeBlank(entry, live) /\ Apart(tables, live) /\ Walked(tables, paddrs)
  BY DEF IInv
<1>2. entry \in Entries /\ tables \in Views /\ paddrs \in Views /\ live \in SUBSET Tables /\ current_pd \in Spaces
  BY <1>1, Typing
<1>3. Dir(p) \in Dirs /\ Slot(p) \in Slots
  BY PageFacts
<1>4. /\ t \in IF Missing(p) THEN Tables \ live ELSE {tables[current_pd][Dir(p)]}
      /\ live' = live \cup {t}
      /\ tables' = [tables EXCEPT ![current_pd][Dir(p)] = t]
      /\ paddrs' = IF Missing(p) THEN [paddrs EXCEPT ![current_pd][Dir(p)] = t] ELSE paddrs
  BY DEF GetPage
<1>5. Found(p, t) = entry[t]
  <2>1. CASE Missing(p)
    <3>1. \A i \in Slots : entry[t][i] = None
      BY <1>1, <1>4, <2>1 DEF FreeBlank
    <3>2. entry[t] = [i \in Slots |-> entry[t][i]]
      BY <1>2 DEF Entries
    <3> QED
      BY <2>1, <3>1, <3>2 DEF Found, Blank
  <2>2. CASE ~Missing(p)
    BY <2>2 DEF Found
  <2> QED
    BY <2>1, <2>2
<1>6. tables' \in Views /\ Points(tables, tables', current_pd, Dir(p), t)
  BY <1>2, <1>3, <1>4, PointsExcept
<1>7. \A s \in Spaces : \A d \in Dirs :
          tables'[s][d] = IF s = current_pd /\ d = Dir(p) THEN t ELSE tables[s][d]
  BY <1>6 DEF Points
<1>8. paddrs' \in Views /\ (Missing(p) => Points(paddrs, paddrs', current_pd, Dir(p), t))
  BY <1>2, <1>3, <1>4, PointsExcept
<1>9. live' \in SUBSET Tables /\ t \in live' /\ live \subseteq live'
  BY <1>2, <1>4
<1>10. Apart(tables', live')
  <2>1. CASE Missing(p)
    <3>1. t \notin live /\ tables[current_pd][Dir(p)] = None /\ live \cup {t} \subseteq live'
      BY <1>4, <2>1 DEF Missing
    <3> QED
      BY <1>1, <1>2, <1>3, <1>6, <3>1, NewApart
  <2>2. CASE ~Missing(p)
    <3>1. \A s \in Spaces : \A d \in Dirs : tables'[s][d] = tables[s][d]
      BY <1>4, <1>7, <2>2
    <3>2. Kernel \in Spaces
      BY NameAssumption
    <3>3. \A s \in Spaces : \A d \in Dirs : tables'[s][d] \in live' \cup {None}
      BY <1>1, <1>9, <3>1 DEF Apart
    <3>4. \A s, u \in Spaces : \A d, e \in Dirs :
              tables[s][d] = tables[u][e] /\ tables[s][d] # None /\ <<s, d>> # <<u, e>> =>
                  d = e /\ tables[s][d] = tables[Kernel][d]
      BY <1>1 DEF Apart
    <3>5. \A s, u \in Spaces : \A d, e \in Dirs :
              tables'[s][d] = tables'[u][e] /\ tables'[s][d] # None /\ <<s, d>> # <<u, e>> =>
                  d = e /\ tables'[s][d] = tables'[Kernel][d]
      BY <3>1, <3>2, <3>4
    <3> QED
      BY <3>3, <3>5 DEF Apart
  <2> QED
    BY <2>1, <2>2
<1>11. Walked(tables', paddrs')
  <2>1. CASE Missing(p)
    BY <1>1, <1>7, <1>8, <2>1 DEF Walked, Points
  <2>2. CASE ~Missing(p)
    <3>1. paddrs' = paddrs /\ t = tables[current_pd][Dir(p)]
      BY <1>4, <2>2
    <3> QED
      BY <1>1, <1>7, <3>1 DEF Walked
  <2> QED
    BY <2>1, <2>2
<1>12. /\ tables[current_pd][Dir(p)] \in {None, t}
       /\ tables[current_pd][Dir(p)] = None => t \notin live
  BY <1>4 DEF Missing
<1> QED
  BY <1>5, <1>6, <1>7, <1>8, <1>9, <1>10, <1>11, <1>12

(* What map does to the page, whichever of the two maps it is. *)
LEMMA MapKeeps ==
    ASSUME IInv, Running, NEW p \in Pages, NEW t \in Tables, NEW f \in Frames, f \notin marked,
           GetPage(p, t), Claim(t, Found(p, t), p, f), UNCHANGED <<mode, spaceVars, tlb, copy>>
    PROVE  IInv'
<1>1. mode = "run" /\ ~Copying
  BY DEF Running
<1>2. /\ TypeOK /\ Kernel \in spaces /\ Tidy(entry, marked, lost) /\ FreeBlank(entry, live)
      /\ Apart(tables, live) /\ Remembers(tlb, stale, entry, tables, current_pd)
  BY <1>1 DEF IInv
<1>3. /\ entry \in Entries /\ tables \in Views /\ live \in SUBSET Tables /\ current_pd \in Spaces
      /\ marked \in SUBSET Frames /\ lost \in SUBSET Frames
  BY <1>2, Typing
<1>4. Dir(p) \in Dirs /\ Slot(p) \in Slots /\ p = <<Dir(p), Slot(p)>>
  BY PageFacts
<1>5. /\ Found(p, t) = entry[t]
      /\ live' \in SUBSET Tables /\ t \in live' /\ live \subseteq live'
      /\ tables' \in Views /\ paddrs' \in Views
      /\ Apart(tables', live')
      /\ Walked(tables', paddrs')
      /\ \A s \in Spaces : \A d \in Dirs :
             tables'[s][d] = IF s = current_pd /\ d = Dir(p) THEN t ELSE tables[s][d]
      /\ tables[current_pd][Dir(p)] \in {None, t}
      /\ tables[current_pd][Dir(p)] = None => t \notin live
  BY <1>1, GetPageFacts
<1>6. /\ marked' = marked \cup {f}
      /\ entry' = [entry EXCEPT ![t] = [entry[t] EXCEPT ![Slot(p)] = f]]
      /\ lost' = IF entry[t][Slot(p)] = None THEN lost ELSE lost \cup {entry[t][Slot(p)]}
      /\ stale' = IF entry[t][Slot(p)] = None THEN stale ELSE stale \cup ({p} \cap Cached)
  BY <1>5 DEF Claim
<1>7. Sets(entry, entry', t, Slot(p), f)
  BY <1>3, <1>4, <1>6, SetsExcept
<1>8. entry' \in Entries /\ \A u \in Tables : \A j \in Slots :
          entry'[u][j] = IF u = t /\ j = Slot(p) THEN f ELSE entry[u][j]
  BY <1>7 DEF Sets
<1>9. Put(entry, marked, lost, entry', marked', lost', t, Slot(p), f)
  BY <1>6, <1>7 DEF Put
<1>10. Tidy(entry', marked', lost')
  BY <1>2, <1>3, <1>4, <1>9, PutTidy
<1>11. FreeBlank(entry', live')
  BY <1>2, <1>5, <1>8 DEF FreeBlank
<1>12. /\ mode' = mode /\ spaces' = spaces /\ current_pd' = current_pd
       /\ tlb' = tlb /\ copy' = copy
  BY DEF spaceVars
<1>13. TypeOK'
  <2>1. entry[t][Slot(p)] \in Frames \cup {None}
    BY <1>3, <1>4 DEF Entries
  <2>2. marked' \subseteq Frames /\ lost' \subseteq Frames
    BY <1>3, <1>6, <2>1
  <2>3. stale' \subseteq Pages
    BY <1>2, <1>6 DEF TypeOK, Cached
  <2> QED
    BY <1>2, <1>5, <1>8, <1>12, <2>2, <2>3 DEF TypeOK, Entries, Views
<1>14. Remembers(tlb', stale', entry', tables', current_pd')
  <2>1. stale \subseteq stale'
    BY <1>6
  <2>2. ASSUME NEW d \in Dirs, NEW i \in Slots, <<d, i>> \notin stale', tlb[<<d, i>>] # None,
               tables[current_pd][d] # None,
               tlb[<<d, i>>] = entry[tables[current_pd][d]][i]
        PROVE  /\ tables'[current_pd][d] = tables[current_pd][d]
               /\ entry'[tables[current_pd][d]][i] = entry[tables[current_pd][d]][i]
    <3>1. tables[current_pd][d] \in live /\ tables[current_pd][d] \in Tables
      BY <1>2, <1>3, <2>2 DEF Apart
    <3>2. tables'[current_pd][d] = tables[current_pd][d]
      BY <1>3, <1>5, <2>2
    <3>3. ASSUME tables[current_pd][d] = t, i = Slot(p)
          PROVE  FALSE
      <4>1. tables[current_pd][Dir(p)] = t
        BY <1>5, <3>1, <3>3
      <4>2. d = Dir(p)
        BY <1>2, <1>3, <1>4, <2>2, <3>3, <4>1 DEF Apart
      <4>3. p \in Cached
        BY <1>4, <2>2, <3>3, <4>2 DEF Cached
      <4>4. entry[t][Slot(p)] = None
        BY <1>4, <1>6, <2>2, <3>3, <4>2, <4>3
      <4> QED
        BY <2>2, <3>3, <4>4
    <3> QED
      BY <1>8, <3>1, <3>2, <3>3
  <2>3. Remembers(tlb, stale', entry', tables', current_pd)
    BY <1>2, <2>1, <2>2, KeepsMemory
  <2> QED
    BY <1>12, <2>3
<1>15. ~Copying'
  BY <1>1, <1>12 DEF Copying
<1>16. Ready(entry', tables', copy')
  BY <1>15 DEF Ready, Copying
<1> QED
  BY <1>2, <1>5, <1>10, <1>11, <1>12, <1>13, <1>14, <1>15, <1>16 DEF IInv

(* A refused map adds at most an empty table. *)
LEMMA MapRefusedKeeps ==
    ASSUME IInv, NEW p \in Pages, NEW f \in Frames, MapRefused(p, f)
    PROVE  IInv'
<1>1. PICK t \in Tables : GetPage(p, t) /\ entry' = [entry EXCEPT ![t] = Found(p, t)]
  BY DEF MapRefused
<1>2. /\ mode = "run" /\ ~Copying /\ mode' \in {"run", "cannot map"}
      /\ marked' = marked /\ spaces' = spaces /\ current_pd' = current_pd
      /\ tlb' = tlb /\ copy' = copy /\ stale' = stale /\ lost' = lost
  BY DEF MapRefused, Running, spaceVars, historyVars
<1>3. /\ TypeOK /\ Kernel \in spaces /\ Tidy(entry, marked, lost) /\ FreeBlank(entry, live)
      /\ Apart(tables, live) /\ Remembers(tlb, stale, entry, tables, current_pd)
  BY <1>2 DEF IInv
<1>4. entry \in Entries /\ tables \in Views /\ live \in SUBSET Tables /\ current_pd \in Spaces
  BY <1>3, Typing
<1>5. /\ Found(p, t) = entry[t]
      /\ live' \in SUBSET Tables /\ t \in live' /\ live \subseteq live'
      /\ tables' \in Views /\ paddrs' \in Views
      /\ Apart(tables', live')
      /\ Walked(tables', paddrs')
      /\ \A s \in Spaces : \A d \in Dirs :
             tables'[s][d] = IF s = current_pd /\ d = Dir(p) THEN t ELSE tables[s][d]
      /\ tables[current_pd][Dir(p)] \in {None, t}
  BY <1>1, <1>2, GetPageFacts
<1>6. entry' = entry
  BY <1>1, <1>4, <1>5 DEF Entries
<1>7. TypeOK'
  BY <1>2, <1>3, <1>5, <1>6 DEF TypeOK, Views
<1>8. FreeBlank(entry', live')
  BY <1>3, <1>5, <1>6 DEF FreeBlank
<1>9. Remembers(tlb', stale', entry', tables', current_pd')
  <2>1. \A d \in Dirs : tables[current_pd][d] # None => tables'[current_pd][d] = tables[current_pd][d]
    BY <1>4, <1>5
  <2>2. Remembers(tlb, stale, entry, tables', current_pd)
    BY <1>3, <2>1, KeepsMemory
  <2> QED
    BY <1>2, <1>6, <2>2
<1>10. ~Copying'
  BY <1>2 DEF Copying
<1>11. Ready(entry', tables', copy')
  BY <1>10 DEF Ready, Copying
<1>12. Tidy(entry', marked', lost')
  BY <1>2, <1>3, <1>6
<1> QED
  BY <1>2, <1>3, <1>5, <1>7, <1>8, <1>9, <1>10, <1>11, <1>12 DEF IInv

(* A panic leaves everything as it is. *)
LEMMA PanicKeeps ==
    ASSUME IInv, mode = "run", NEW msg \in {"no frame", "not mapped"}, Panic(msg)
    PROVE  IInv'
<1>1. /\ mode' = msg
      /\ marked' = marked /\ entry' = entry /\ live' = live /\ tables' = tables /\ paddrs' = paddrs
      /\ spaces' = spaces /\ current_pd' = current_pd /\ tlb' = tlb /\ copy' = copy
      /\ stale' = stale /\ lost' = lost
  BY DEF Panic, tableVars, spaceVars, historyVars
<1>2. TypeOK'
  BY <1>1 DEF IInv, TypeOK
<1>3. mode' # "run"
  BY <1>1
<1> QED
  BY <1>1, <1>2, <1>3 DEF IInv
-----------------------------------------------------------------------------
(* unmap *)

(* The frame goes back and the entry is cleared; live and tables may follow. *)
LEMMA ReleaseFacts ==
    ASSUME IInv, mode = "run", NEW p \in Pages, NEW t \in Tables,
           tables[current_pd][Dir(p)] = t, Release(t, p), entry[t][Slot(p)] # None, lost' = lost
    PROVE  /\ entry' \in Entries
           /\ \A u \in Tables : \A j \in Slots :
                  entry'[u][j] = IF u = t /\ j = Slot(p) THEN None ELSE entry[u][j]
           /\ Tidy(entry', marked', lost')
           /\ marked' \subseteq Frames /\ stale' \subseteq Pages /\ stale \subseteq stale'
           /\ \A d \in Dirs : \A i \in Slots :
                  <<d, i>> \notin stale' /\ tlb[<<d, i>>] # None /\ tables[current_pd][d] # None =>
                      tables[current_pd][d] \in Tables /\ ~(tables[current_pd][d] = t /\ i = Slot(p))
<1>1. /\ TypeOK /\ Tidy(entry, marked, lost) /\ Apart(tables, live)
  BY DEF IInv
<1>2. /\ entry \in Entries /\ tables \in Views /\ live \in SUBSET Tables /\ current_pd \in Spaces
      /\ marked \in SUBSET Frames /\ lost \in SUBSET Frames
  BY <1>1, Typing
<1>3. Dir(p) \in Dirs /\ Slot(p) \in Slots /\ p = <<Dir(p), Slot(p)>>
  BY PageFacts
<1>4. /\ marked' = marked \ {entry[t][Slot(p)]}
      /\ entry' = [entry EXCEPT ![t][Slot(p)] = None]
      /\ stale' = stale \cup ({p} \cap Cached)
  BY DEF Release
<1>5. Sets(entry, entry', t, Slot(p), None)
  BY <1>2, <1>3, <1>4, SetsExcept
<1>6. entry' \in Entries /\ \A u \in Tables : \A j \in Slots :
          entry'[u][j] = IF u = t /\ j = Slot(p) THEN None ELSE entry[u][j]
  BY <1>5 DEF Sets
<1>7. Take(entry, marked, entry', marked', t, Slot(p))
  BY <1>4, <1>5 DEF Take
<1>8. Tidy(entry', marked', lost')
  BY <1>1, <1>2, <1>3, <1>7, TakeTidy
<1>9. marked' \subseteq Frames /\ stale' \subseteq Pages /\ stale \subseteq stale'
  BY <1>1, <1>4 DEF TypeOK
<1>10. ASSUME NEW d \in Dirs, NEW i \in Slots,
              <<d, i>> \notin stale', tlb[<<d, i>>] # None, tables[current_pd][d] # None
       PROVE  tables[current_pd][d] \in Tables /\ ~(tables[current_pd][d] = t /\ i = Slot(p))
  <2>1. tables[current_pd][d] \in Tables
    BY <1>1, <1>2, <1>10 DEF Apart
  <2>2. tables[current_pd][d] = t => d = Dir(p)
    BY <1>1, <1>2, <1>3, <1>10 DEF Apart
  <2>3. p \notin stale' => p \notin Cached
    BY <1>4
  <2>4. <<d, i>> \in Cached
    BY <1>10 DEF Cached, Pages
  <2> QED
    BY <1>3, <1>10, <2>1, <2>2, <2>3, <2>4
<1> QED
  BY <1>6, <1>8, <1>9, <1>10

LEMMA UnmapKeeps ==
    ASSUME IInv, NEW p \in Pages, Unmap(p)
    PROVE  IInv'
<1> DEFINE t == tables[current_pd][Dir(p)]
<1>1. /\ mode = "run" /\ ~Copying /\ Maps(current_pd, p) # None /\ Release(t, p)
      /\ mode' = mode /\ live' = live /\ tables' = tables /\ paddrs' = paddrs
      /\ spaces' = spaces /\ current_pd' = current_pd
      /\ tlb' = tlb /\ copy' = copy /\ lost' = lost
  BY DEF Unmap, Running, spaceVars
<1>2. /\ TypeOK /\ Kernel \in spaces /\ FreeBlank(entry, live) /\ Walked(tables, paddrs)
      /\ Apart(tables, live) /\ Remembers(tlb, stale, entry, tables, current_pd)
  BY <1>1 DEF IInv
<1>3. /\ entry \in Entries /\ tables \in Views /\ live \in SUBSET Tables /\ current_pd \in Spaces
  BY <1>2, Typing
<1>4. Dir(p) \in Dirs /\ Slot(p) \in Slots
  BY PageFacts
<1>5. t \in Tables /\ entry[t][Slot(p)] # None
  BY <1>1, <1>3, <1>4 DEF Maps, Views
<1> HIDE DEF t
<1>6. /\ entry' \in Entries
      /\ \A u \in Tables : \A j \in Slots :
             entry'[u][j] = IF u = t /\ j = Slot(p) THEN None ELSE entry[u][j]
      /\ Tidy(entry', marked', lost')
      /\ marked' \subseteq Frames /\ stale' \subseteq Pages /\ stale \subseteq stale'
      /\ \A d \in Dirs : \A i \in Slots :
             <<d, i>> \notin stale' /\ tlb[<<d, i>>] # None /\ tables[current_pd][d] # None =>
                 tables[current_pd][d] \in Tables /\ ~(tables[current_pd][d] = t /\ i = Slot(p))
  BY <1>1, <1>5, ReleaseFacts DEF t
<1>7. TypeOK'
  BY <1>1, <1>2, <1>6 DEF TypeOK, Entries
<1>8. FreeBlank(entry', live')
  BY <1>1, <1>2, <1>6 DEF FreeBlank
<1>9. \A d \in Dirs : \A i \in Slots :
          <<d, i>> \notin stale' /\ tlb[<<d, i>>] # None /\ tables[current_pd][d] # None =>
              entry'[tables[current_pd][d]][i] = entry[tables[current_pd][d]][i]
  BY <1>6
<1>10. Remembers(tlb, stale', entry', tables, current_pd)
  BY <1>2, <1>6, <1>9, KeepsMemory
<1>11. ~Copying'
  BY <1>1 DEF Copying
<1>12. Ready(entry', tables', copy')
  BY <1>11 DEF Ready, Copying
<1> QED
  BY <1>1, <1>2, <1>6, <1>7, <1>8, <1>10, <1>11, <1>12 DEF IInv

LEMMA UnmapLastKeeps ==
    ASSUME IInv, NEW p \in Pages, UnmapLast(p)
    PROVE  IInv'
<1> DEFINE t == tables[current_pd][Dir(p)]
<1>1. /\ mode = "run" /\ ~Copying /\ Maps(current_pd, p) # None /\ Release(t, p) /\ LastOf(t, p)
      /\ mode' = IF OwnTable(t) THEN "run" ELSE "wild"
      /\ live' = live \ {t} /\ paddrs' = paddrs
      /\ tables' = [tables EXCEPT ![current_pd][Dir(p)] = None]
      /\ spaces' = spaces /\ current_pd' = current_pd
      /\ tlb' = tlb /\ copy' = copy /\ lost' = lost
  BY DEF UnmapLast, Running, spaceVars
<1>2. /\ TypeOK /\ Kernel \in spaces /\ FreeBlank(entry, live) /\ Walked(tables, paddrs)
      /\ Apart(tables, live) /\ Remembers(tlb, stale, entry, tables, current_pd)
  BY <1>1 DEF IInv
<1>3. /\ entry \in Entries /\ tables \in Views /\ live \in SUBSET Tables /\ current_pd \in Spaces
  BY <1>2, Typing
<1>4. Dir(p) \in Dirs /\ Slot(p) \in Slots
  BY PageFacts
<1>5. t \in Tables /\ entry[t][Slot(p)] # None
  BY <1>1, <1>3, <1>4 DEF Maps, Views
<1>6. tables' \in Views /\ Points(tables, tables', current_pd, Dir(p), None)
  BY <1>1, <1>3, <1>4, PointsExcept
<1>7. \A s \in Spaces : \A d \in Dirs :
          tables'[s][d] = IF s = current_pd /\ d = Dir(p) THEN None ELSE tables[s][d]
  BY <1>6 DEF Points
<1>8. mode' = "run" => Apart(tables', live')
  <2> SUFFICES ASSUME mode' = "run" PROVE Apart(tables', live')
    OBVIOUS
  <2>1. \A s \in Spaces \ {current_pd} : \A d \in Dirs : tables[s][d] # tables[current_pd][Dir(p)]
    BY <1>1 DEF OwnTable
  <2>2. tables[current_pd][Dir(p)] # None
    BY <1>5, NameAssumption
  <2>3. Apart(tables', live \ {tables[current_pd][Dir(p)]})
    BY <1>2, <1>3, <1>4, <1>6, <2>1, <2>2, DropApart
  <2> QED
    BY <1>1, <2>3
<1> HIDE DEF t
<1>9. /\ entry' \in Entries
      /\ \A u \in Tables : \A j \in Slots :
             entry'[u][j] = IF u = t /\ j = Slot(p) THEN None ELSE entry[u][j]
      /\ Tidy(entry', marked', lost')
      /\ marked' \subseteq Frames /\ stale' \subseteq Pages /\ stale \subseteq stale'
      /\ \A d \in Dirs : \A i \in Slots :
             <<d, i>> \notin stale' /\ tlb[<<d, i>>] # None /\ tables[current_pd][d] # None =>
                 tables[current_pd][d] \in Tables /\ ~(tables[current_pd][d] = t /\ i = Slot(p))
  BY <1>1, <1>5, ReleaseFacts DEF t
<1>10. TypeOK'
  <2>1. mode' \in {"run", "wild"} /\ live' \subseteq Tables
    BY <1>1, <1>3
  <2> QED
    BY <1>1, <1>2, <1>6, <1>9, <2>1 DEF TypeOK, Entries, Views
<1>11. FreeBlank(entry', live')
  <2>1. \A i \in Slots : entry'[t][i] = None
    BY <1>1, <1>5, <1>9 DEF LastOf
  <2> QED
    BY <1>1, <1>2, <1>5, <1>9, <2>1 DEF FreeBlank
<1>12. Walked(tables', paddrs')
  BY <1>1, <1>2, <1>7 DEF Walked
<1>13. Remembers(tlb, stale', entry', tables', current_pd)
  <2>1. ASSUME NEW d \in Dirs, NEW i \in Slots, <<d, i>> \notin stale', tlb[<<d, i>>] # None,
               tables[current_pd][d] # None,
               tlb[<<d, i>>] = entry[tables[current_pd][d]][i]
        PROVE  /\ tables'[current_pd][d] = tables[current_pd][d]
               /\ entry'[tables[current_pd][d]][i] = entry[tables[current_pd][d]][i]
    <3>1. tables[current_pd][d] \in Tables /\ ~(tables[current_pd][d] = t /\ i = Slot(p))
      BY <1>9, <2>1
    <3>2. tables[current_pd][d] # t
      BY <1>1, <2>1, <3>1 DEF LastOf
    <3>3. d # Dir(p)
      BY <3>2 DEF t
    <3> QED
      BY <1>3, <1>7, <1>9, <3>1, <3>3
  <2> QED
    BY <1>2, <1>9, <2>1, KeepsMemory
<1>14. ~Copying'
  BY <1>1 DEF Copying
<1>15. Ready(entry', tables', copy')
  BY <1>14 DEF Ready, Copying
<1> QED
  BY <1>1, <1>2, <1>8, <1>9, <1>10, <1>11, <1>12, <1>13, <1>14, <1>15 DEF IInv
-----------------------------------------------------------------------------
(* clone *)

LEMMA CloneKeeps ==
    ASSUME IInv, NEW s \in Spaces, NEW new \in Spaces, Clone(s, new)
    PROVE  IInv'
<1>1. /\ mode = "run" /\ s \in spaces /\ new \notin spaces /\ spaces' = spaces \cup {new}
      /\ tables' = [tables EXCEPT ![new] = [d \in Dirs |-> None]]
      /\ paddrs' = [paddrs EXCEPT ![new] = [d \in Dirs |-> None]]
      /\ copy' = [from |-> s, to |-> new, dir |-> 0, slot |-> 0]
      /\ mode' = mode /\ marked' = marked /\ entry' = entry /\ live' = live
      /\ current_pd' = current_pd /\ tlb' = tlb /\ stale' = stale /\ lost' = lost
  BY DEF Clone, Running, historyVars
<1>2. /\ TypeOK /\ Kernel \in spaces /\ Tidy(entry, marked, lost) /\ FreeBlank(entry, live)
      /\ Walked(tables, paddrs) /\ Apart(tables, live)
      /\ Remembers(tlb, stale, entry, tables, current_pd)
  BY <1>1 DEF IInv
<1>3. /\ tables \in Views /\ paddrs \in Views /\ live \in SUBSET Tables /\ current_pd \in spaces
      /\ spaces \subseteq Spaces
  BY <1>2, Typing DEF TypeOK
<1>4. new # Kernel /\ new # current_pd
  BY <1>1, <1>2, <1>3
<1>5. Apart(tables', live')
  BY <1>1, <1>2, <1>3, <1>4, ClearApart
<1>6. tables' \in Views /\ paddrs' \in Views
  BY <1>1, <1>3 DEF Views
<1>7. \A u \in Spaces : \A d \in Dirs : tables'[u][d] = IF u = new THEN None ELSE tables[u][d]
  BY <1>1, <1>3 DEF Views
<1>8. Walked(tables', paddrs')
  BY <1>1, <1>2, <1>3, <1>7 DEF Walked, Views
<1>9. TypeOK'
  <2>1. copy' \in [from : spaces', to : spaces', dir : 0..NDirs, slot : Slots]
    BY <1>1, SizeAssumption DEF Slots
  <2> QED
    BY <1>1, <1>2, <1>3, <1>6, <2>1 DEF TypeOK, Views
<1>10. Ready(entry', tables', copy')
  <2>1. copy'.to = new /\ copy'.dir = 0
    BY <1>1
  <2>2. copy'.dir < NDirs => copy'.dir \in Dirs
    BY <2>1, SizeAssumption DEF Dirs
  <2> QED
    BY <1>4, <1>7, <2>1, <2>2 DEF Ready
<1>11. Remembers(tlb', stale', entry', tables', current_pd')
  <2>1. \A d \in Dirs : tables'[current_pd][d] = tables[current_pd][d]
    BY <1>3, <1>4, <1>7
  <2>2. Remembers(tlb, stale, entry, tables', current_pd)
    BY <1>2, <2>1, KeepsMemory
  <2> QED
    BY <1>1, <2>2
<1>12. copy'.to # current_pd' /\ Kernel \in spaces'
  BY <1>1, <1>2, <1>4
<1>13. Tidy(entry', marked', lost') /\ FreeBlank(entry', live')
  BY <1>1, <1>2
<1> QED
  BY <1>5, <1>8, <1>9, <1>10, <1>11, <1>12, <1>13 DEF IInv

(* What a turn of the loops finds. *)
LEMMA CloneFacts ==
    ASSUME IInv, Here
    PROVE  /\ TypeOK /\ Kernel \in spaces /\ Tidy(entry, marked, lost) /\ FreeBlank(entry, live)
           /\ Walked(tables, paddrs) /\ Apart(tables, live) /\ Ready(entry, tables, copy)
           /\ Remembers(tlb, stale, entry, tables, current_pd)
           /\ mode = "run" /\ copy.dir \in Dirs /\ copy.dir < NDirs
           /\ copy.to # current_pd /\ copy.to # Kernel
           /\ copy.to \in Spaces /\ copy.from \in Spaces
<1>1. mode = "run" /\ copy.dir < NDirs
  BY DEF Here, Copying
<1>2. copy.dir \in Dirs
  <2>1. copy.dir \in 0..NDirs
    BY Typing DEF IInv
  <2> QED
    BY <1>1, <2>1, SizeAssumption DEF Dirs
<1>3. copy.to \in Spaces /\ copy.from \in Spaces
  BY Typing DEF IInv
<1>4. Ready(entry, tables, copy) /\ copy.to # current_pd
  BY <1>1 DEF IInv, Copying
<1>5. copy.to # Kernel
  BY <1>1, <1>4 DEF Ready
<1> QED
  BY <1>1, <1>2, <1>3, <1>4, <1>5 DEF IInv

LEMMA TurnFacts ==
    ASSUME TypeOK, copy.dir < NDirs, NextDir \/ NextPage
    PROVE  /\ copy' \in [from : spaces, to : spaces, dir : 0..NDirs, slot : Slots]
           /\ copy'.to = copy.to
           /\ \/ copy'.dir = copy.dir + 1
              \/ NextPage /\ copy'.dir = copy.dir /\ copy'.slot = copy.slot + 1
<1>1. /\ copy \in [from : spaces, to : spaces, dir : 0..NDirs, slot : Slots]
      /\ copy.dir \in 0..NDirs /\ copy.slot \in Slots /\ NDirs \in Nat /\ TableLen \in Nat \ {0}
  BY SizeAssumption DEF TypeOK
<1>2. copy.dir + 1 \in 0..NDirs /\ 0 \in Slots
  BY <1>1 DEF Slots
<1>3. CASE NextDir
  BY <1>1, <1>2, <1>3 DEF NextDir
<1>4. CASE NextPage /\ copy.slot # TableLen - 1
  <2>1. copy.slot + 1 \in Slots
    BY <1>1, <1>4 DEF Slots
  <2> QED
    BY <1>1, <1>4, <2>1 DEF NextPage
<1>5. CASE NextPage /\ copy.slot = TableLen - 1
  BY <1>3, <1>5 DEF NextPage
<1> QED
  BY <1>3, <1>4, <1>5

(* A turn that goes on to the next table or the next page, with the table at
   hand as the next turns need it. *)
LEMMA TurnReady ==
    ASSUME IInv, Here, NextDir \/ NextPage, NEW E, NEW T,
           \A d \in Dirs : d > copy.dir => T[copy.to][d] = tables[copy.to][d],
           copy'.dir = copy.dir =>
               /\ T[copy.to][copy.dir] = tables[copy.to][copy.dir]
               /\ \A i \in Slots : i > copy.slot =>
                      E[T[copy.to][copy.dir]][i] = entry[T[copy.to][copy.dir]][i]
    PROVE  Ready(E, T, copy')
<1>1. /\ TypeOK /\ Ready(entry, tables, copy) /\ copy.dir \in Dirs /\ copy.dir < NDirs /\ copy.to # Kernel
  BY CloneFacts
<1>2. copy'.to = copy.to /\ \/ copy'.dir = copy.dir + 1
                            \/ NextPage /\ copy'.dir = copy.dir /\ copy'.slot = copy.slot + 1
  BY <1>1, TurnFacts
<1>3. /\ \A d \in Dirs : d > copy.dir => tables[copy.to][d] = None
      /\ tables[copy.to][copy.dir] # None =>
             \A i \in Slots : i >= copy.slot => entry[tables[copy.to][copy.dir]][i] = None
  BY <1>1 DEF Ready
<1>4. copy.dir \in Int /\ copy.slot \in Int /\ Slots \subseteq Int /\ Dirs \subseteq Int
  BY <1>1, Typing DEF Dirs, Slots
<1>5. CASE copy'.dir = copy.dir + 1
  <2>5. ASSUME NEW d \in Dirs, d >= copy.dir + 1 PROVE d > copy.dir
    <3>1. d \in Int /\ copy.dir \in Int
      BY <1>4
    <3> QED
      BY <2>5, <3>1
  <2>1. \A d \in Dirs : d >= copy.dir + 1 => T[copy.to][d] = None
    BY <1>3, <2>5
  <2>2. copy.dir + 1 < NDirs => copy.dir + 1 \in Dirs
    BY <1>1, SizeAssumption DEF Dirs
  <2>3. copy.dir + 1 < NDirs => T[copy.to][copy.dir + 1] = None
    BY <2>1, <2>2, <1>4
  <2>4. \A d \in Dirs : d > copy.dir + 1 => T[copy.to][d] = None
    BY <2>1, <1>4
  <2> QED
    BY <1>1, <1>2, <1>5, <2>3, <2>4 DEF Ready
<1>6. CASE NextPage /\ copy'.dir = copy.dir /\ copy'.slot = copy.slot + 1
  <2>1. \A d \in Dirs : d > copy.dir => T[copy.to][d] = None
    BY <1>3
  <2>2. T[copy.to][copy.dir] # None =>
            \A i \in Slots : i >= copy.slot + 1 => E[T[copy.to][copy.dir]][i] = None
    BY <1>3, <1>4, <1>6
  <2> QED
    BY <1>1, <1>2, <1>6, <2>1, <2>2 DEF Ready
<1> QED
  BY <1>2, <1>5, <1>6

LEMMA CloneSkipKeeps ==
    ASSUME IInv, CloneSkip \/ CloneHole
    PROVE  IInv'
<1>1. /\ Here /\ (NextDir \/ NextPage)
      /\ mode' = mode /\ marked' = marked /\ entry' = entry /\ live' = live
      /\ tables' = tables /\ paddrs' = paddrs /\ spaces' = spaces /\ current_pd' = current_pd
      /\ tlb' = tlb /\ stale' = stale /\ lost' = lost
  BY DEF CloneSkip, CloneHole, tableVars, spaceVars, historyVars
<1>2. /\ TypeOK /\ Kernel \in spaces /\ Tidy(entry, marked, lost) /\ FreeBlank(entry, live)
      /\ Walked(tables, paddrs) /\ Apart(tables, live)
      /\ Remembers(tlb, stale, entry, tables, current_pd)
      /\ copy.dir < NDirs /\ copy.to # current_pd
  BY <1>1, CloneFacts
<1>3. copy' \in [from : spaces, to : spaces, dir : 0..NDirs, slot : Slots] /\ copy'.to = copy.to
  BY <1>1, <1>2, TurnFacts
<1>4. TypeOK'
  BY <1>1, <1>2, <1>3 DEF TypeOK
<1>5. Ready(entry, tables, copy')
  BY <1>1, TurnReady
<1> QED
  BY <1>1, <1>2, <1>3, <1>4, <1>5 DEF IInv

LEMMA CloneSharedKeeps ==
    ASSUME IInv, CloneShared
    PROVE  IInv'
<1>1. /\ Here /\ Shared /\ NextDir
      /\ tables' = [tables EXCEPT ![copy.to][copy.dir] = Source]
      /\ paddrs' = [paddrs EXCEPT ![copy.to][copy.dir] = paddrs[copy.from][copy.dir]]
      /\ mode' = mode /\ marked' = marked /\ entry' = entry /\ live' = live
      /\ spaces' = spaces /\ current_pd' = current_pd
      /\ tlb' = tlb /\ stale' = stale /\ lost' = lost
  BY DEF CloneShared, Point, spaceVars, historyVars
<1>2. /\ TypeOK /\ Kernel \in spaces /\ Tidy(entry, marked, lost) /\ FreeBlank(entry, live)
      /\ Walked(tables, paddrs) /\ Apart(tables, live)
      /\ Remembers(tlb, stale, entry, tables, current_pd)
      /\ copy.dir \in Dirs /\ copy.dir < NDirs /\ copy.to # current_pd /\ copy.to # Kernel
      /\ copy.to \in Spaces /\ copy.from \in Spaces
  BY <1>1, CloneFacts
<1>3. /\ tables \in Views /\ paddrs \in Views /\ live \in SUBSET Tables /\ current_pd \in Spaces
  BY <1>2, Typing
<1>4. /\ Source = tables[Kernel][copy.dir] /\ Source # None
      /\ Source = tables[copy.from][copy.dir] /\ Source \in Tables
  BY <1>1, <1>2, <1>3 DEF Shared, Source, Views
<1>5. paddrs[copy.from][copy.dir] = Source
  BY <1>2, <1>4 DEF Walked
<1>6. /\ tables' \in Views /\ Points(tables, tables', copy.to, copy.dir, tables[Kernel][copy.dir])
      /\ paddrs' \in Views /\ Points(paddrs, paddrs', copy.to, copy.dir, tables[Kernel][copy.dir])
  BY <1>1, <1>2, <1>3, <1>4, <1>5, PointsExcept
<1>7. Apart(tables', live')
  BY <1>1, <1>2, <1>3, <1>6, ShareApart
<1>8. Walked(tables', paddrs')
  BY <1>2, <1>6 DEF Walked, Points
<1>9. copy' \in [from : spaces, to : spaces, dir : 0..NDirs, slot : Slots] /\ copy'.to = copy.to
  BY <1>1, <1>2, TurnFacts
<1>10. TypeOK'
  BY <1>1, <1>2, <1>6, <1>9 DEF TypeOK, Views
<1>11. Ready(entry, tables', copy')
  <2>1. \A d \in Dirs : d > copy.dir => tables'[copy.to][d] = tables[copy.to][d]
    BY <1>2, <1>6 DEF Points, Dirs
  <2>2. copy'.dir # copy.dir
    <3>1. copy \in [from : spaces, to : spaces, dir : 0..NDirs, slot : Slots]
      BY <1>2 DEF TypeOK
    <3>2. copy'.dir = copy.dir + 1
      BY <1>1, <3>1 DEF NextDir
    <3>3. copy.dir \in Int
      BY <1>2 DEF Dirs
    <3> QED
      BY <3>2, <3>3
  <2> QED
    BY <1>1, <2>1, <2>2, TurnReady
<1>12. Remembers(tlb, stale, entry, tables', current_pd)
  <2>1. \A d \in Dirs : tables'[current_pd][d] = tables[current_pd][d]
    BY <1>2, <1>3, <1>6 DEF Points
  <2> QED
    BY <1>2, <2>1, KeepsMemory
<1> QED
  BY <1>1, <1>2, <1>7, <1>8, <1>9, <1>10, <1>11, <1>12 DEF IInv

LEMMA CloneTableKeeps ==
    ASSUME IInv, CloneTable
    PROVE  IInv'
<1>1. /\ Here /\ Private /\ Target = None
      /\ mode' = mode /\ marked' = marked /\ spaces' = spaces /\ current_pd' = current_pd
      /\ tlb' = tlb /\ copy' = copy /\ stale' = stale /\ lost' = lost
  BY DEF CloneTable, spaceVars, historyVars
<1>0. PICK t \in Tables \ live :
          /\ live' = live \cup {t}
          /\ entry' = [entry EXCEPT ![t] = Blank]
          /\ tables' = [tables EXCEPT ![copy.to][copy.dir] = t]
          /\ paddrs' = [paddrs EXCEPT ![copy.to][copy.dir] = t]
  BY DEF CloneTable, Point
<1>2. /\ TypeOK /\ Kernel \in spaces /\ Tidy(entry, marked, lost) /\ FreeBlank(entry, live)
      /\ Walked(tables, paddrs) /\ Apart(tables, live) /\ Ready(entry, tables, copy)
      /\ Remembers(tlb, stale, entry, tables, current_pd)
      /\ copy.dir \in Dirs /\ copy.dir < NDirs /\ copy.to # current_pd /\ copy.to # Kernel
      /\ copy.to \in Spaces /\ copy.from \in Spaces
  BY <1>1, CloneFacts
<1>3. /\ entry \in Entries /\ tables \in Views /\ paddrs \in Views /\ live \in SUBSET Tables
      /\ current_pd \in Spaces
  BY <1>2, Typing
<1>4. entry' = entry
  <2>1. \A i \in Slots : entry[t][i] = None
    BY <1>2 DEF FreeBlank
  <2>2. entry[t] = [i \in Slots |-> entry[t][i]]
    BY <1>3 DEF Entries
  <2>3. entry[t] = Blank
    BY <2>1, <2>2 DEF Blank
  <2> QED
    BY <1>0, <1>3, <2>3 DEF Entries
<1>5. /\ tables' \in Views /\ Points(tables, tables', copy.to, copy.dir, t)
      /\ paddrs' \in Views /\ Points(paddrs, paddrs', copy.to, copy.dir, t)
  BY <1>0, <1>2, <1>3, PointsExcept
<1>6. Apart(tables', live')
  <2>1. t \notin live /\ tables[copy.to][copy.dir] = None /\ live \cup {t} \subseteq live' /\ t \in Tables
    BY <1>0, <1>1 DEF Target
  <2> QED
    BY <1>2, <1>3, <1>5, <2>1, NewApart
<1>7. Walked(tables', paddrs')
  BY <1>2, <1>5 DEF Walked, Points
<1>8. TypeOK'
  <2>1. live' \subseteq Tables
    BY <1>0, <1>3
  <2> QED
    BY <1>1, <1>2, <1>4, <1>5, <2>1 DEF TypeOK, Views
<1>9. FreeBlank(entry, live')
  BY <1>0, <1>2 DEF FreeBlank
<1>10. Ready(entry, tables', copy)
  <2>1. \A d \in Dirs : d > copy.dir => tables'[copy.to][d] = None
    BY <1>2, <1>5 DEF Points, Dirs, Ready
  <2>2. tables'[copy.to][copy.dir] = t
    BY <1>2, <1>5 DEF Points
  <2>3. \A i \in Slots : entry[t][i] = None
    BY <1>2 DEF FreeBlank
  <2> QED
    BY <1>2, <2>1, <2>2, <2>3 DEF Ready
<1>11. Remembers(tlb, stale, entry, tables', current_pd)
  <2>1. \A d \in Dirs : tables'[current_pd][d] = tables[current_pd][d]
    BY <1>2, <1>3, <1>5 DEF Points
  <2> QED
    BY <1>2, <2>1, KeepsMemory
<1> QED
  BY <1>1, <1>2, <1>4, <1>6, <1>7, <1>8, <1>9, <1>10, <1>11 DEF IInv

LEMMA ClonePageKeeps ==
    ASSUME IInv, ClonePage
    PROVE  IInv'
<1> DEFINE t == tables[copy.to][copy.dir]
<1>1. /\ Here /\ Private /\ t # None /\ NextPage
      /\ tlb' = EmptyTlb /\ stale' = {}
      /\ mode' = mode /\ live' = live /\ tables' = tables /\ paddrs' = paddrs
      /\ spaces' = spaces /\ current_pd' = current_pd /\ lost' = lost
  BY DEF ClonePage, Filled, Target, spaceVars
<1>0. PICK f \in Frames : /\ FreeFrame(f) /\ marked' = marked \cup {f}
                          /\ entry' = [entry EXCEPT ![t][copy.slot] = f]
  BY DEF ClonePage, Target
<1>2. /\ TypeOK /\ Kernel \in spaces /\ Tidy(entry, marked, lost) /\ FreeBlank(entry, live)
      /\ Walked(tables, paddrs) /\ Apart(tables, live) /\ Ready(entry, tables, copy)
      /\ copy.dir \in Dirs /\ copy.dir < NDirs /\ copy.to # current_pd /\ copy.to # Kernel
      /\ copy.to \in Spaces
  BY <1>1, CloneFacts
<1>3. /\ entry \in Entries /\ tables \in Views /\ live \in SUBSET Tables /\ copy.slot \in Slots
      /\ marked \in SUBSET Frames /\ lost \in SUBSET Frames
  BY <1>2, Typing
<1>4. t \in live /\ t \in Tables
  BY <1>1, <1>2, <1>3 DEF Apart
<1>5. entry[t][copy.slot] = None
  BY <1>1, <1>2, <1>3 DEF Ready, Slots
<1> HIDE DEF t
<1>6. f \notin marked
  BY <1>0 DEF FreeFrame
<1>7. Sets(entry, entry', t, copy.slot, f)
  BY <1>0, <1>3, <1>4, SetsExcept
<1>8. Put(entry, marked, lost, entry', marked', lost', t, copy.slot, f)
  BY <1>0, <1>1, <1>5, <1>7 DEF Put
<1>9. Tidy(entry', marked', lost')
  BY <1>2, <1>3, <1>4, <1>6, <1>8, PutTidy
<1>10. entry' \in Entries /\ \A u \in Tables : \A j \in Slots :
          entry'[u][j] = IF u = t /\ j = copy.slot THEN f ELSE entry[u][j]
  BY <1>7 DEF Sets
<1>11. FreeBlank(entry', live')
  BY <1>1, <1>2, <1>4, <1>10 DEF FreeBlank
<1>12. copy' \in [from : spaces, to : spaces, dir : 0..NDirs, slot : Slots] /\ copy'.to = copy.to
  BY <1>1, <1>2, TurnFacts
<1>13. TypeOK'
  <2>1. tlb' \in [Pages -> Frames \cup {None}] /\ marked' \subseteq Frames
    BY <1>0, <1>1, <1>3 DEF EmptyTlb
  <2> QED
    BY <1>1, <1>2, <1>10, <1>12, <2>1 DEF TypeOK, Entries
<1>14. Ready(entry', tables, copy')
  <2>1. \A i \in Slots : i > copy.slot => entry'[t][i] = entry[t][i]
    BY <1>3, <1>4, <1>10 DEF Slots
  <2>2. \A i \in Slots : i > copy.slot =>
            entry'[tables[copy.to][copy.dir]][i] = entry[tables[copy.to][copy.dir]][i]
    BY <2>1 DEF t
  <2> QED
    BY <1>1, <2>2, TurnReady
<1>15. Remembers(tlb', stale', entry', tables', current_pd')
  BY <1>1 DEF Remembers, EmptyTlb, Pages
<1> QED
  BY <1>1, <1>2, <1>9, <1>11, <1>12, <1>13, <1>14, <1>15 DEF IInv
-----------------------------------------------------------------------------
(* The processor *)

LEMMA SwitchKeeps ==
    ASSUME IInv, NEW s \in Spaces, Switch(s)
    PROVE  IInv'
<1>1. /\ mode = "run" /\ ~Copying /\ s \in spaces /\ current_pd' = s /\ tlb' = EmptyTlb /\ stale' = {}
      /\ mode' = mode /\ marked' = marked /\ entry' = entry /\ live' = live
      /\ tables' = tables /\ paddrs' = paddrs /\ spaces' = spaces /\ copy' = copy /\ lost' = lost
  BY DEF Switch, Running, tableVars
<1>2. TypeOK'
  BY <1>1 DEF IInv, TypeOK, EmptyTlb
<1>3. Remembers(tlb', stale', entry', tables', current_pd')
  BY <1>1 DEF Remembers, EmptyTlb, Pages
<1>4. ~Copying'
  BY <1>1 DEF Copying
<1> QED
  BY <1>1, <1>2, <1>3, <1>4 DEF IInv

LEMMA AccessKeeps ==
    ASSUME IInv, NEW p \in Pages, Access(p)
    PROVE  IInv'
<1>1. /\ mode = "run" /\ marked' = marked /\ entry' = entry /\ live' = live
      /\ tables' = tables /\ paddrs' = paddrs /\ spaces' = spaces /\ current_pd' = current_pd
      /\ copy' = copy /\ stale' = stale /\ lost' = lost
      /\ (mode' = "wild" /\ tlb' = tlb) \/ mode' = mode
  BY DEF Access, tableVars, spaceVars, historyVars
<1>2. /\ TypeOK /\ Remembers(tlb, stale, entry, tables, current_pd)
      /\ entry \in Entries /\ tables \in Views /\ paddrs \in Views /\ current_pd \in Spaces
  BY <1>1, Typing DEF IInv
<1>3. Dir(p) \in Dirs /\ Slot(p) \in Slots /\ p = <<Dir(p), Slot(p)>>
  BY PageFacts
<1>4. CASE mode' = "wild" /\ tlb' = tlb
  <2>1. TypeOK'
    BY <1>1, <1>2, <1>4 DEF TypeOK
  <2> QED
    BY <1>1, <1>4, <2>1 DEF IInv
<1>5. CASE mode' = mode
  <2> DEFINE u == paddrs[current_pd][Dir(p)]
  <2>1. /\ u = tables[current_pd][Dir(p)] /\ u # None
        /\ tlb' = [tlb EXCEPT ![p] = entry[u][Slot(p)]]
    BY <1>1, <1>5 DEF Access
  <2>2. u \in Tables /\ entry[u][Slot(p)] \in Frames \cup {None}
    BY <1>2, <1>3, <2>1 DEF Views, Entries
  <2>3. TypeOK'
    <3>1. tlb' \in [Pages -> Frames \cup {None}]
      BY <1>2, <2>1, <2>2 DEF TypeOK
    <3> QED
      BY <1>1, <1>2, <1>5, <3>1 DEF TypeOK
  <2>4. Remembers(tlb', stale, entry, tables, current_pd)
    <3> SUFFICES ASSUME NEW d \in Dirs, NEW i \in Slots, <<d, i>> \notin stale, tlb'[<<d, i>>] # None
                 PROVE  tables[current_pd][d] # None /\ tlb'[<<d, i>>] = entry[tables[current_pd][d]][i]
      BY DEF Remembers
    <3>1. tlb \in [Pages -> Frames \cup {None}] /\ <<d, i>> \in Pages
      BY <1>2 DEF TypeOK, Pages
    <3>2. CASE <<d, i>> = p
      <4>1. d = Dir(p) /\ i = Slot(p)
        BY <3>2 DEF Dir, Slot
      <4> QED
        BY <2>1, <3>1, <3>2, <4>1
    <3>3. CASE <<d, i>> # p
      <4>1. tlb'[<<d, i>>] = tlb[<<d, i>>]
        BY <2>1, <3>1, <3>3
      <4> QED
        BY <1>2, <4>1 DEF Remembers
    <3> QED
      BY <3>2, <3>3
  <2> QED
    BY <1>1, <1>5, <2>3, <2>4 DEF IInv, Copying
<1> QED
  BY <1>1, <1>4, <1>5

LEMMA EvictKeeps ==
    ASSUME IInv, NEW p \in Pages, Evict(p)
    PROVE  IInv'
<1>1. /\ mode = "run" /\ mode' = mode /\ marked' = marked /\ entry' = entry /\ live' = live
      /\ tables' = tables /\ paddrs' = paddrs /\ spaces' = spaces /\ current_pd' = current_pd
      /\ copy' = copy /\ lost' = lost
      /\ tlb' = [tlb EXCEPT ![p] = None] /\ stale' = stale \ {p}
  BY DEF Evict, tableVars, spaceVars
<1>2. TypeOK /\ Remembers(tlb, stale, entry, tables, current_pd) /\ tlb \in [Pages -> Frames \cup {None}]
  BY <1>1 DEF IInv, TypeOK
<1>3. TypeOK'
  BY <1>1, <1>2 DEF TypeOK
<1>4. Remembers(tlb', stale', entry, tables, current_pd)
  <2>1. \A d \in Dirs : \A i \in Slots : <<d, i>> \notin stale' /\ tlb'[<<d, i>>] # None =>
            <<d, i>> \notin stale /\ tlb'[<<d, i>>] = tlb[<<d, i>>]
    BY <1>1, <1>2 DEF Pages
  <2> QED
    BY <1>2, <2>1 DEF Remembers
<1> QED
  BY <1>1, <1>3, <1>4 DEF IInv, Copying
-----------------------------------------------------------------------------
(* The invariant *)

LEMMA InitKeeps ==
    ASSUME Init
    PROVE  IInv
<1>1. /\ mode = "run" /\ copy = NoCopy /\ marked = 0..(KernelPages - 1)
      /\ entry = [t \in Tables |-> [i \in Slots |->
                      IF t = BootTable /\ i < KernelPages THEN i ELSE None]]
      /\ live = {BootTable}
      /\ tables = [s \in Spaces |-> [d \in Dirs |->
                      IF s = Kernel /\ d = 0 THEN BootTable ELSE None]]
      /\ paddrs = tables /\ spaces = {Kernel} /\ current_pd = Kernel
      /\ tlb = EmptyTlb /\ stale = {} /\ lost = {}
  BY DEF Init
<1>2. /\ Kernel \in Spaces /\ BootTable \in Tables /\ None \notin Tables /\ None \notin Int
      /\ KernelPages \in Nat \ {0} /\ TableLen \in Nat \ {0} /\ NDirs \in Nat \ {0}
      /\ KernelPages <= TableLen /\ KernelPages <= Words * WordBits
  BY SizeAssumption, NameAssumption
<1>3. ASSUME NEW i \in Int, 0 <= i, i < KernelPages
      PROVE  i \in Frames /\ i \in Slots
  <2>2. WordBits \in Nat \ {0} /\ NFrames \in Nat
    BY SizeAssumption
  <2>3. Words \in Int
    BY <2>2 DEF Words
  <2>4. Words * WordBits \in Int
    BY <2>2, <2>3
  <2> QED
    BY <1>2, <1>3, <2>4 DEF Frames, Slots
<1>4. Slots \subseteq Int /\ \A i \in Slots : 0 <= i
  BY DEF Slots
<1>5. entry \in Entries
  <2>1. \A t \in Tables : \A i \in Slots :
            (IF t = BootTable /\ i < KernelPages THEN i ELSE None) \in Frames \cup {None}
    BY <1>3, <1>4
  <2> QED
    BY <1>1, <2>1 DEF Entries
<1>6. tables \in Views /\ paddrs \in Views
  BY <1>1, <1>2 DEF Views
<1>7. marked \subseteq Frames
  BY <1>1, <1>2, <1>3
<1>8. TypeOK
  <2>1. copy \in [from : spaces, to : spaces, dir : 0..NDirs, slot : Slots]
    BY <1>1, <1>2 DEF NoCopy, Slots
  <2> QED
    BY <1>1, <1>2, <1>5, <1>6, <1>7, <2>1 DEF TypeOK, Entries, Views, EmptyTlb
<1>9. \A t \in Tables : \A i \in Slots :
          entry[t][i] = IF t = BootTable /\ i < KernelPages THEN i ELSE None
  BY <1>1
<1>10. \A f : Holds(entry, f) /\ f # None <=> f \in marked
  <2>1. \A f : f \in marked <=> f \in Int /\ 0 <= f /\ f < KernelPages
    BY <1>1, <1>2
  <2>2. \A f \in Int : 0 <= f /\ f < KernelPages => f \in Slots /\ f # None
    BY <1>2, <1>3
  <2> QED
    BY <1>2, <1>4, <1>9, <2>1, <2>2 DEF Holds
<1>11. Tidy(entry, marked, lost)
  <2>1. \A t, u \in Tables : \A i, j \in Slots :
            entry[t][i] = entry[u][j] /\ entry[t][i] # None => t = u /\ i = j
    BY <1>9
  <2>2. \A f \in Frames : f \in marked <=> Holds(entry, f)
    BY <1>10, FrameFacts
  <2> QED
    BY <1>1, <2>1, <2>2 DEF Tidy
<1>12. FreeBlank(entry, live)
  BY <1>1, <1>9 DEF FreeBlank
<1>13. Walked(tables, paddrs)
  BY <1>1 DEF Walked
<1>14. \A s \in Spaces : \A d \in Dirs :
           tables[s][d] = IF s = Kernel /\ d = 0 THEN BootTable ELSE None
  BY <1>1
<1>15. Apart(tables, live)
  BY <1>1, <1>2, <1>14 DEF Apart
<1>16. ~Copying
  BY <1>1, <1>2 DEF Copying, NoCopy
<1>17. Ready(entry, tables, copy)
  BY <1>16 DEF Ready, Copying
<1>18. Remembers(tlb, stale, entry, tables, current_pd)
  BY <1>1 DEF Remembers, EmptyTlb, Pages
<1> QED
  BY <1>1, <1>8, <1>11, <1>12, <1>13, <1>15, <1>16, <1>17, <1>18 DEF IInv

LEMMA NextKeeps ==
    ASSUME IInv, [Next]_vars
    PROVE  IInv'
<1>1. CASE UNCHANGED vars
  <2>1. /\ mode' = mode /\ marked' = marked /\ entry' = entry /\ live' = live
        /\ tables' = tables /\ paddrs' = paddrs /\ spaces' = spaces /\ current_pd' = current_pd
        /\ tlb' = tlb /\ copy' = copy /\ stale' = stale /\ lost' = lost
    BY <1>1 DEF vars, tableVars, spaceVars, historyVars
  <2>2. TypeOK'
    BY <2>1 DEF IInv, TypeOK
  <2> QED
    BY <2>1, <2>2 DEF IInv, Copying
<1>2. ASSUME NEW p \in Pages, Map(p) PROVE IInv'
  <2>1. PICK t \in Tables, f \in Frames : GetPage(p, t) /\ FreeFrame(f) /\ Claim(t, Found(p, t), p, f)
    BY <1>2 DEF Map
  <2>2. f \notin marked
    BY <2>1 DEF FreeFrame
  <2>3. Running /\ UNCHANGED <<mode, spaceVars, tlb, copy>>
    BY <1>2 DEF Map
  <2> QED
    BY <2>1, <2>2, <2>3, MapKeeps
<1>3. ASSUME NEW p \in Pages, NEW f \in Requested, MapTo(p, f) PROVE IInv'
  <2>1. PICK t \in Tables : GetPage(p, t) /\ Claim(t, Found(p, t), p, f)
    BY <1>3 DEF MapTo
  <2>2. f \in Frames /\ f \notin marked
    BY <1>3, SizeAssumption DEF MapTo
  <2>3. Running /\ UNCHANGED <<mode, spaceVars, tlb, copy>>
    BY <1>3 DEF MapTo
  <2> QED
    BY <2>1, <2>2, <2>3, MapKeeps
<1>4. ASSUME NEW p \in Pages, NEW f \in Requested, MapRefused(p, f) PROVE IInv'
  BY <1>4, MapRefusedKeeps, SizeAssumption
<1>5. CASE MapNoFrame
  BY <1>5, PanicKeeps DEF MapNoFrame, Running
<1>6. ASSUME NEW p \in Pages, UnmapNothing(p) PROVE IInv'
  BY <1>6, PanicKeeps DEF UnmapNothing, Running
<1>7. CASE CloneNoFrame
  BY <1>7, PanicKeeps DEF CloneNoFrame, Here
<1>8. ASSUME NEW p \in Pages, Unmap(p) \/ UnmapLast(p) PROVE IInv'
  BY <1>8, UnmapKeeps, UnmapLastKeeps
<1>9. ASSUME NEW s \in Spaces, NEW new \in Spaces, Clone(s, new) PROVE IInv'
  BY <1>9, CloneKeeps
<1>10. ASSUME NEW s \in Spaces, Switch(s) PROVE IInv'
  BY <1>10, SwitchKeeps
<1>11. CASE Call
  BY <1>2, <1>3, <1>4, <1>5, <1>6, <1>8, <1>9, <1>10, <1>11 DEF Call
<1>12. CASE CloneStep
  BY <1>7, <1>12, CloneSkipKeeps, CloneSharedKeeps, CloneTableKeeps, ClonePageKeeps DEF CloneStep
<1>13. ASSUME NEW p \in Pages, Access(p) \/ Evict(p) PROVE IInv'
  BY <1>13, AccessKeeps, EvictKeeps
<1> QED
  BY <1>1, <1>11, <1>12, <1>13 DEF Next

LEMMA Invariant == Spec => []IInv
<1>1. Init => IInv
  BY InitKeeps
<1>2. IInv /\ [Next]_vars => IInv'
  BY NextKeeps
<1> QED
  BY <1>1, <1>2, PTL DEF Spec
-----------------------------------------------------------------------------
(* Theorems *)

(* Every reachable state is well typed: no index, frame or table outside the
   memory ever gets into a directory, a table or the bitmap. *)
THEOREM TypeCorrect == Spec => []TypeOK
<1>1. IInv => TypeOK
  BY DEF IInv
<1> QED
  BY <1>1, Invariant, PTL

(* Two pages are on one frame only if they are one page of a table that both
   directories share with the kernel: map, unmap and page_directory::clone. *)
THEOREM SpacesIsolated == Spec => []Isolated
<1>1. ASSUME IInv PROVE Isolated
  <2> SUFFICES ASSUME mode = "run", NEW s \in spaces, NEW u \in spaces, NEW p \in Pages, NEW q \in Pages,
                      Maps(s, p) = Maps(u, q), Maps(s, p) # None, <<s, p>> # <<u, q>>
               PROVE  p = q /\ tables[s][Dir(p)] = tables[Kernel][Dir(p)]
    BY DEF Isolated
  <2>1. Apart(tables, live) /\ Tidy(entry, marked, lost) /\ TypeOK
    BY <1>1 DEF IInv
  <2>2. s \in Spaces /\ u \in Spaces /\ tables \in Views
    BY <2>1, Typing
  <2>3. /\ Dir(p) \in Dirs /\ Slot(p) \in Slots /\ p = <<Dir(p), Slot(p)>>
        /\ Dir(q) \in Dirs /\ Slot(q) \in Slots /\ q = <<Dir(q), Slot(q)>>
    BY PageFacts
  <2> DEFINE t == tables[s][Dir(p)]
             w == tables[u][Dir(q)]
  <2>4. t # None /\ w # None /\ entry[t][Slot(p)] = entry[w][Slot(q)] /\ entry[t][Slot(p)] # None
    BY DEF Maps
  <2>5. t \in Tables /\ w \in Tables
    BY <2>2, <2>3, <2>4 DEF Views
  <2>6. t = w /\ Slot(p) = Slot(q)
    BY <2>1, <2>3, <2>4, <2>5 DEF Tidy
  <2>7. \A x, y \in Spaces : \A d, e \in Dirs : tables[x][d] = tables[y][e] /\ tables[x][d] # None =>
            d = e /\ (x # y => tables[x][d] = tables[Kernel][d])
    BY <2>1 DEF Apart
  <2>8. Dir(p) = Dir(q) /\ (s # u => t = tables[Kernel][Dir(p)])
    BY <2>2, <2>3, <2>4, <2>6, <2>7
  <2>9. p = q
    BY <2>3, <2>6, <2>8
  <2>10. s # u
    BY <2>9
  <2> QED
    BY <2>8, <2>9, <2>10
<1> QED
  BY <1>1, Invariant, PTL

(* A frame is marked exactly while a table holds it, but for the ones that a
   second map of a page dropped: alloc_frame and free_frame lose no other. *)
THEOREM FramesAccounted == Spec => []Accounted
<1>1. ASSUME IInv PROVE Accounted
  <2>1. Tidy(entry, marked, lost) /\ TypeOK
    BY <1>1 DEF IInv
  <2>2. entry \in Entries /\ marked \subseteq Frames /\ lost \subseteq Frames
    BY <2>1, Typing
  <2>3. \A f : f \in Owned <=> f \in Frames /\ Holds(entry, f)
    BY <2>2, FrameFacts DEF Owned, Holds, Entries
  <2>4. marked = Owned \cup lost
    BY <2>1, <2>2, <2>3 DEF Tidy
  <2>5. Owned \cap lost = {}
    BY <2>1, <2>3 DEF Tidy
  <2> QED
    BY <2>4, <2>5 DEF Accounted
<1> QED
  BY <1>1, Invariant, PTL

(* What the processor remembers and walks is what the kernel's tables say,
   until a page is unmapped or mapped anew without a reload of cr3. *)
THEOREM ProcessorFollows == Spec => []ProcessorAgrees
<1>1. ASSUME IInv PROVE ProcessorAgrees
  <2> SUFFICES ASSUME mode = "run"
               PROVE  /\ \A p \in Pages \ stale : tlb[p] \in {None, Maps(current_pd, p)}
                      /\ \A s \in spaces : \A d \in Dirs :
                             tables[s][d] # None => paddrs[s][d] = tables[s][d]
    BY DEF ProcessorAgrees
  <2>1. /\ TypeOK /\ Walked(tables, paddrs) /\ Remembers(tlb, stale, entry, tables, current_pd)
    BY <1>1 DEF IInv
  <2>2. spaces \subseteq Spaces
    BY <2>1, Typing
  <2>3. ASSUME NEW p \in Pages \ stale, tlb[p] # None
        PROVE  tlb[p] = Maps(current_pd, p)
    <3>1. Dir(p) \in Dirs /\ Slot(p) \in Slots /\ p = <<Dir(p), Slot(p)>>
      BY PageFacts
    <3>2. tables[current_pd][Dir(p)] # None /\ tlb[p] = entry[tables[current_pd][Dir(p)]][Slot(p)]
      BY <2>1, <2>3, <3>1 DEF Remembers
    <3> QED
      BY <3>2 DEF Maps
  <2> QED
    BY <2>1, <2>2, <2>3 DEF Walked
<1> QED
  BY <1>1, Invariant, PTL

LEMMA LeastNatural ==
    ASSUME NEW S \in SUBSET Nat, S # {}
    PROVE  \E f \in S : \A g \in S : f <= g
<1> DEFINE Less == OpToRel(<, Nat)
<1>1. IsWellFoundedOn(Less, Nat)
  BY NatLessThanWellFounded
<1>2. \A x, y \in Nat : <<y, x>> \in Less <=> y < x
  BY DEF OpToRel
<1> HIDE DEF Less
<1>3. PICK f \in S : \A g \in S : ~(<<g, f>> \in Less)
  BY <1>1, WFMin
<1>4. ASSUME NEW g \in S PROVE f <= g
  <2>1. f \in Nat /\ g \in Nat /\ ~(g < f)
    BY <1>2, <1>3
  <2> QED
    BY <2>1
<1> QED
  BY <1>4

(* The search for a frame fails only in a full bitmap, or behind frame 0. *)
LEMMA NoneFree ==
    ASSUME marked \subseteq Frames, NoFreeFrame
    PROVE  marked = Frames \/ 0 \notin marked
<1> SUFFICES ASSUME Frames \ marked # {}, 0 \in marked PROVE FALSE
  OBVIOUS
<1>1. Frames \ marked \in SUBSET Nat
  BY FrameFacts
<1>2. PICK f \in Frames \ marked : \A g \in Frames \ marked : f <= g
  BY <1>1, LeastNatural
<1>3. f # 0
  BY <1>2
<1>4. FreeFrame(f) /\ f \in Frames
  BY <1>2, <1>3 DEF FreeFrame
<1> QED
  BY <1>4 DEF NoFreeFrame

(* alloc_frame's panic "no available frame found" comes only when every frame
   is marked or frame 0 has been freed. *)
THEOREM PanicIsFull == Spec => []PanicMeansFull
<1>1. Init => PanicMeansFull
  BY DEF Init, PanicMeansFull
<1>2. TypeOK /\ PanicMeansFull /\ [Next]_vars => PanicMeansFull'
  <2> SUFFICES ASSUME TypeOK, PanicMeansFull, [Next]_vars
               PROVE  PanicMeansFull'
    OBVIOUS
  <2>1. CASE mode # "run"
    <3>1. ~Next
      BY <2>1 DEF Next, Call, CloneStep, Map, MapTo, MapRefused, MapNoFrame, Unmap, UnmapLast,
                  UnmapNothing, Clone, Switch, CloneSkip, CloneShared, CloneTable, CloneHole,
                  ClonePage, CloneNoFrame, Filled, Here, Running, Access, Evict
    <3> QED
      BY <3>1 DEF vars, PanicMeansFull
  <2>2. CASE mode = "run"
    <3> SUFFICES ASSUME mode' = "no frame" PROVE marked' = Frames \/ 0 \notin marked'
      BY DEF PanicMeansFull
    <3>1. ASSUME NoFreeFrame, marked' = marked PROVE marked' = Frames \/ 0 \notin marked'
      BY <3>1, NoneFree DEF TypeOK
    <3>2. CASE MapNoFrame
      BY <3>1, <3>2 DEF MapNoFrame, Panic
    <3>3. CASE CloneNoFrame
      BY <3>1, <3>3 DEF CloneNoFrame, Panic
    <3>4. CASE Call /\ ~MapNoFrame
      BY <2>2, <3>4 DEF Call, Map, MapTo, MapRefused, Unmap, UnmapLast, UnmapNothing, Panic, Clone, Switch
    <3>5. CASE CloneStep /\ ~CloneNoFrame
      BY <2>2, <3>5 DEF CloneStep, CloneSkip, CloneShared, CloneTable, CloneHole, ClonePage
    <3>6. ASSUME NEW p \in Pages, Access(p) \/ Evict(p) PROVE FALSE
      BY <2>2, <3>6 DEF Access, Evict
    <3> QED
      BY <2>2, <3>2, <3>3, <3>4, <3>5, <3>6 DEF Next, vars
  <2> QED
    BY <2>1, <2>2
<1> QED
  BY <1>1, <1>2, TypeCorrect, PTL DEF Spec
-----------------------------------------------------------------------------
(* What a clone has copied *)

(* The frame of page i of directory entry d of s, and the pages that the
   clone under way has been at. *)
Page(E, T, s, d, i)  == IF T[s][d] = None THEN None ELSE E[T[s][d]][i]
Passed(c, d, i)      == d < c.dir \/ (d = c.dir /\ i < c.slot)
Alike(E, T, c, d, i) == Page(E, T, c.to, d, i) = None <=> Page(E, T, c.from, d, i) = None

CopyInv ==
    Here => /\ copy.from # copy.to
            /\ copy.slot # 0 => Target # None
            /\ Target # None => Private
            /\ \A d \in Dirs, i \in Slots : Passed(copy, d, i) => Alike(entry, tables, copy, d, i)

LEMMA CopyType ==
    ASSUME TypeOK
    PROVE  copy \in [from : spaces, to : spaces, dir : 0..NDirs, slot : Slots]
BY DEF TypeOK

LEMMA CloneIsHere == ASSUME CloneStep PROVE Here
<1>1. CASE CloneSkip \/ CloneShared \/ CloneTable
  BY <1>1 DEF CloneSkip, CloneShared, CloneTable
<1>2. CASE CloneHole \/ ClonePage
  BY <1>2 DEF CloneHole, ClonePage
<1>3. CASE CloneNoFrame
  BY <1>3 DEF CloneNoFrame
<1> QED
  BY <1>1, <1>2, <1>3 DEF CloneStep

LEMMA PanicIsEnd ==
    ASSUME NEW msg \in {"no frame", "not mapped"}, Panic(msg)
    PROVE  mode' # "run" /\ entry' = entry /\ tables' = tables /\ copy' = copy
BY DEF Panic, tableVars

LEMMA TurnPasses ==
    ASSUME TypeOK, copy.dir < NDirs, NEW d \in Dirs, NEW i \in Slots, Passed(copy', d, i)
    PROVE  /\ NextDir => Passed(copy, d, i) \/ d = copy.dir
           /\ NextPage => Passed(copy, d, i) \/ (d = copy.dir /\ i = copy.slot)
<1>1. /\ copy \in [from : spaces, to : spaces, dir : 0..NDirs, slot : Slots]
      /\ copy.dir \in Int /\ copy.slot \in Int /\ copy.slot \in 0..(TableLen - 1)
  BY CopyType, SizeAssumption DEF Slots
<1>2. d \in Int /\ i \in Int /\ 0 <= i /\ i <= TableLen - 1 /\ TableLen \in Int
  BY SizeAssumption DEF Dirs, Slots
<1>3. ASSUME NextDir PROVE Passed(copy, d, i) \/ d = copy.dir
  <2>1. copy'.dir = copy.dir + 1 /\ copy'.slot = 0
    BY <1>1, <1>3 DEF NextDir
  <2> QED
    BY <1>1, <1>2, <2>1 DEF Passed
<1>4. ASSUME NextPage PROVE Passed(copy, d, i) \/ (d = copy.dir /\ i = copy.slot)
  <2>1. CASE copy.slot = TableLen - 1
    BY <1>1, <1>2, <1>3, <1>4, <2>1 DEF NextPage, Passed
  <2>2. CASE copy.slot # TableLen - 1
    <3>1. copy'.dir = copy.dir /\ copy'.slot = copy.slot + 1
      BY <1>1, <1>4, <2>2 DEF NextPage
    <3> QED
      BY <1>1, <1>2, <3>1 DEF Passed
  <2> QED
    BY <2>1, <2>2
<1> QED
  BY <1>3, <1>4

(* After a turn that went on to the next table there is none for it yet;
   after one that went on to the next page all is as it was. *)
LEMMA TurnStays ==
    ASSUME IInv, CopyInv, Here, NextDir \/ (NextPage /\ Target # None),
           \A d \in Dirs : d > copy.dir => tables'[copy.to][d] = tables[copy.to][d],
           NextPage => tables' = tables, Here'
    PROVE  (copy.slot # 0 => Target # None)' /\ (Target # None => Private)'
<1>1. /\ TypeOK /\ Ready(entry, tables, copy) /\ copy.dir \in Dirs /\ copy.dir < NDirs
      /\ copy \in [from : spaces, to : spaces, dir : 0..NDirs, slot : Slots]
  BY CloneFacts, CopyType
<1>2. CASE NextDir
  <2>1. copy'.dir = copy.dir + 1 /\ copy'.slot = 0 /\ copy'.to = copy.to
    BY <1>1, <1>2 DEF NextDir
  <2>2. copy.dir + 1 \in Dirs /\ copy.dir + 1 > copy.dir
    BY <1>1, <2>1, SizeAssumption DEF Here, Copying, Dirs
  <2>3. tables[copy.to][copy.dir + 1] = None
    BY <1>1, <2>2 DEF Ready
  <2> QED
    BY <2>1, <2>2, <2>3 DEF Target
<1>3. CASE NextPage /\ ~NextDir
  <2>1. copy'.dir = copy.dir /\ copy'.to = copy.to /\ copy'.from = copy.from
    BY <1>1, <1>3 DEF NextPage
  <2> QED
    BY <1>3, <2>1 DEF CopyInv, Target, Source, Private, Shared
<1> QED
  BY <1>2, <1>3 DEF NextPage

(* A step of the clone leaves the pages of its original as they are, and those
   that it has been at are alike. *)
LEMMA CloneStepCopies ==
    ASSUME IInv, CopyInv, CloneStep
    PROVE  /\ copy'.from = copy.from /\ copy'.to = copy.to
           /\ \A d \in Dirs, i \in Slots :
                 /\ Page(entry', tables', copy.from, d, i) = Page(entry, tables, copy.from, d, i)
                 /\ Passed(copy', d, i) => Alike(entry', tables', copy, d, i)
           /\ Here' => (copy.slot # 0 => Target # None)' /\ (Target # None => Private)'
<1> DEFINE from == copy.from
           to   == copy.to
           dir  == copy.dir
<1>1. Here
  BY CloneIsHere
<1>2. /\ TypeOK /\ Apart(tables, live) /\ Ready(entry, tables, copy)
      /\ dir \in Dirs /\ dir < NDirs /\ to # Kernel /\ to \in Spaces /\ from \in Spaces
  BY <1>1, CloneFacts
<1>3. /\ entry \in Entries /\ tables \in Views /\ copy.slot \in Slots
      /\ copy \in [from : spaces, to : spaces, dir : 0..NDirs, slot : Slots]
  BY <1>2, Typing, CopyType
<1>4. /\ from # to /\ (copy.slot # 0 => Target # None) /\ (Target # None => Private)
      /\ \A d \in Dirs, i \in Slots : Passed(copy, d, i) => Alike(entry, tables, copy, d, i)
  BY <1>1 DEF CopyInv
<1>5. NextDir \/ NextPage => copy'.from = from /\ copy'.to = to
  BY <1>3 DEF NextDir, NextPage
<1>6. \A d \in Dirs, i \in Slots :
         Passed(copy', d, i) => /\ NextDir => Passed(copy, d, i) \/ d = dir
                                /\ NextPage => Passed(copy, d, i) \/ (d = dir /\ i = copy.slot)
  BY <1>2, TurnPasses
<1>7. CASE CloneSkip
  <2>1. Source = None /\ NextDir /\ tables' = tables /\ entry' = entry
    BY <1>7 DEF CloneSkip, tableVars
  <2>2. Target = None
    BY <1>4, <2>1 DEF Private
  <2>3. \A i \in Slots : Alike(entry, tables, copy, dir, i)
    BY <2>1, <2>2 DEF Alike, Page, Source, Target
  <2>4. \A d \in Dirs, i \in Slots : Passed(copy', d, i) => Alike(entry', tables', copy, d, i)
    BY <1>4, <1>6, <2>1, <2>3
  <2>5. Here' => (copy.slot # 0 => Target # None)' /\ (Target # None => Private)'
    BY <1>1, <2>1, TurnStays
  <2> QED
    BY <1>5, <2>1, <2>4, <2>5
<1>8. CASE CloneShared
  <2>1. /\ Source # None /\ NextDir /\ entry' = entry
        /\ tables' = [tables EXCEPT ![to][dir] = Source]
    BY <1>8 DEF CloneShared, Shared, Point
  <2>2. /\ tables'[to][dir] = Source
        /\ \A s \in Spaces, d \in Dirs : <<s, d>> # <<to, dir>> => tables'[s][d] = tables[s][d]
    BY <1>2, <1>3, <2>1 DEF Views
  <2>3. \A d \in Dirs, i \in Slots :
           Page(entry', tables', from, d, i) = Page(entry, tables, from, d, i)
    BY <1>2, <1>4, <2>1, <2>2 DEF Page
  <2>4. \A i \in Slots : Alike(entry', tables', copy, dir, i)
    BY <1>2, <1>4, <2>1, <2>2 DEF Alike, Page, Source
  <2>5. \A d \in Dirs, i \in Slots : d # dir =>
           (Alike(entry', tables', copy, d, i) <=> Alike(entry, tables, copy, d, i))
    BY <1>2, <2>1, <2>2 DEF Alike, Page
  <2>6. \A d \in Dirs, i \in Slots : Passed(copy', d, i) => Alike(entry', tables', copy, d, i)
    BY <1>4, <1>6, <2>1, <2>4, <2>5
  <2>7. \A d \in Dirs : d > dir => tables'[to][d] = tables[to][d]
    BY <1>2, <2>2 DEF Dirs
  <2>8. ~NextPage \/ NextDir
    BY <2>1
  <2>9. Here' => (copy.slot # 0 => Target # None)' /\ (Target # None => Private)'
    <3> SUFFICES ASSUME Here' PROVE Target' = None /\ copy'.slot = 0
      OBVIOUS
    <3>1. copy'.dir = dir + 1 /\ copy'.slot = 0 /\ copy'.to = to
      BY <1>3, <2>1 DEF NextDir
    <3>2. dir + 1 \in Dirs /\ dir + 1 > dir
      BY <1>2, <3>1, SizeAssumption DEF Here, Copying, Dirs
    <3>3. tables'[to][dir + 1] = None
      BY <1>2, <2>7, <3>2 DEF Ready
    <3> QED
      BY <3>1, <3>3 DEF Target
  <2> QED
    BY <1>5, <2>1, <2>3, <2>6, <2>9
<1>9. CASE CloneTable
  <2>1. /\ Private /\ Target = None /\ copy' = copy
        /\ \E t \in Tables \ live : /\ entry' = [entry EXCEPT ![t] = Blank]
                                    /\ tables' = [tables EXCEPT ![to][dir] = t]
    BY <1>9 DEF CloneTable, Point
  <2>2. PICK t \in Tables \ live : /\ entry' = [entry EXCEPT ![t] = Blank]
                                   /\ tables' = [tables EXCEPT ![to][dir] = t]
    BY <2>1
  <2>3. /\ tables'[to][dir] = t /\ t # None
        /\ \A s \in Spaces, d \in Dirs : <<s, d>> # <<to, dir>> => tables'[s][d] = tables[s][d]
    BY <1>2, <1>3, <2>2, NameAssumption DEF Views
  <2>4. \A s \in Spaces, d \in Dirs :
           tables[s][d] # None => tables[s][d] # t /\ entry'[tables[s][d]] = entry[tables[s][d]]
    <3>1. \A s \in Spaces, d \in Dirs : tables[s][d] # None => tables[s][d] \in live
      BY <1>2 DEF Apart
    <3>2. \A u \in Tables : u # t => entry'[u] = entry[u]
      BY <1>3, <2>2 DEF Entries
    <3>3. \A s \in Spaces, d \in Dirs : tables[s][d] \in Tables \cup {None}
      BY <1>3 DEF Views
    <3> QED
      BY <3>1, <3>2, <3>3
  <2>5. \A s \in Spaces, d \in Dirs, i \in Slots : <<s, d>> # <<to, dir>> =>
           Page(entry', tables', s, d, i) = Page(entry, tables, s, d, i)
    BY <2>3, <2>4 DEF Page
  <2>6. copy.slot = 0
    BY <1>4, <2>1
  <2>7. ASSUME NEW d \in Dirs, NEW i \in Slots, Passed(copy', d, i)
        PROVE  Alike(entry', tables', copy, d, i)
    <3>1. Passed(copy, d, i) /\ d # dir
      BY <1>2, <2>1, <2>6, <2>7 DEF Passed, Slots, Dirs
    <3> QED
      BY <1>2, <1>4, <2>5, <3>1 DEF Alike
  <2>8. Here' => (copy.slot # 0 => Target # None)' /\ (Target # None => Private)'
    BY <1>2, <1>4, <2>1, <2>3, NameAssumption DEF Target, Source, Private, Shared
  <2> QED
    BY <1>2, <1>4, <2>1, <2>5, <2>7, <2>8
<1>10. CASE CloneHole
  <2>1. /\ Private /\ Target # None /\ entry[Source][copy.slot] = None
        /\ NextPage /\ tables' = tables /\ entry' = entry
    BY <1>10 DEF CloneHole, Filled, tableVars
  <2>2. entry[Target][copy.slot] = None
    <3>1. copy.slot >= copy.slot
      BY <1>3 DEF Slots
    <3> QED
      BY <1>2, <1>3, <2>1, <3>1 DEF Ready, Target
  <2>3. Alike(entry, tables, copy, dir, copy.slot)
    BY <2>1, <2>2 DEF Alike, Page, Source, Target
  <2>4. \A d \in Dirs, i \in Slots : Passed(copy', d, i) => Alike(entry', tables', copy, d, i)
    BY <1>4, <1>6, <2>1, <2>3
  <2>5. Here' => (copy.slot # 0 => Target # None)' /\ (Target # None => Private)'
    BY <1>1, <2>1, TurnStays
  <2> QED
    BY <1>5, <2>1, <2>4, <2>5
<1>11. CASE ClonePage
  <2>1. /\ Private /\ Target # None /\ entry[Source][copy.slot] # None
        /\ NextPage /\ tables' = tables
        /\ \E f \in Frames : entry' = [entry EXCEPT ![Target][copy.slot] = f]
    BY <1>11 DEF ClonePage, Filled
  <2>2. PICK f \in Frames : entry' = [entry EXCEPT ![Target][copy.slot] = f]
    BY <2>1
  <2>3. Target \in Tables /\ f # None
    BY <1>2, <1>3, <2>1, FrameFacts DEF Views, Target
  <2>4. /\ entry'[Target][copy.slot] = f
        /\ \A t \in Tables, i \in Slots : t # Target \/ i # copy.slot => entry'[t][i] = entry[t][i]
    BY <1>3, <2>2, <2>3 DEF Entries
  <2>5. ASSUME NEW s \in {from, to}, NEW d \in Dirs, tables[s][d] = Target
        PROVE  s = to /\ d = dir
    <3> SUFFICES ASSUME <<s, d>> # <<to, dir>> PROVE FALSE
      OBVIOUS
    <3>1. s \in Spaces /\ tables[s][d] = tables[to][dir] /\ tables[s][d] # None
      BY <1>2, <2>1, <2>5 DEF Target
    <3>2. d = dir /\ tables[s][d] = tables[Kernel][d]
      BY <1>2, <3>1 DEF Apart
    <3>3. s = from
      BY <3>2
    <3> QED
      BY <2>1, <3>2, <3>3 DEF Private, Shared, Source
  <2>6. ASSUME NEW s \in {from, to}, NEW d \in Dirs, NEW i \in Slots,
               <<s, d, i>> # <<to, dir, copy.slot>>
        PROVE  Page(entry', tables', s, d, i) = Page(entry, tables, s, d, i)
    <3>1. tables[s][d] \in Tables \cup {None}
      BY <1>2, <1>3 DEF Views
    <3>2. tables[s][d] # Target \/ i # copy.slot
      BY <2>5, <2>6
    <3> QED
      BY <2>1, <2>4, <3>1, <3>2 DEF Page
  <2>7. Alike(entry', tables', copy, dir, copy.slot)
    <3>1. Page(entry', tables', to, dir, copy.slot) = f
      BY <2>1, <2>4 DEF Page, Target
    <3>2. Page(entry', tables', from, dir, copy.slot) = entry[Source][copy.slot]
      BY <1>2, <1>3, <1>4, <2>1, <2>6 DEF Page, Source, Private
    <3> QED
      BY <2>1, <2>3, <3>1, <3>2 DEF Alike
  <2>8. \A d \in Dirs, i \in Slots : Passed(copy', d, i) => Alike(entry', tables', copy, d, i)
    <3> SUFFICES ASSUME NEW d \in Dirs, NEW i \in Slots, Passed(copy', d, i),
                        <<d, i>> # <<dir, copy.slot>>
                 PROVE  Alike(entry', tables', copy, d, i)
      BY <2>7
    <3>1. Alike(entry, tables, copy, d, i)
      BY <1>4, <1>6, <2>1
    <3> QED
      BY <2>6, <3>1 DEF Alike
  <2>9. Here' => (copy.slot # 0 => Target # None)' /\ (Target # None => Private)'
    BY <1>1, <2>1, TurnStays
  <2>10. \A d \in Dirs, i \in Slots :
            Page(entry', tables', from, d, i) = Page(entry, tables, from, d, i)
    BY <1>4, <2>6
  <2> QED
    BY <1>5, <2>1, <2>8, <2>9, <2>10
<1>12. CASE CloneNoFrame
  <2>1. mode' # "run" /\ tables' = tables /\ entry' = entry /\ copy' = copy
    BY <1>12, PanicIsEnd DEF CloneNoFrame
  <2>2. ~Here'
    BY <2>1 DEF Here
  <2> QED
    BY <1>4, <2>1, <2>2
<1> QED
  BY <1>7, <1>8, <1>9, <1>10, <1>11, <1>12 DEF CloneStep

LEMMA OthersCopyNothing ==
    ASSUME IInv, CopyInv, [Next]_vars, ~CloneStep
    PROVE  CopyInv' /\ ~(Copying /\ ~Copying')
<1>1. ASSUME UNCHANGED <<entry, tables, copy>>, mode' = "run" => mode = "run"
      PROVE  CopyInv' /\ ~(Copying /\ ~Copying')
  BY <1>1 DEF CopyInv, Here, Copying, Target, Source, Private, Shared
<1>2. CASE UNCHANGED vars
  BY <1>1, <1>2 DEF vars, tableVars
<1>3. ASSUME NEW p \in Pages, Access(p) \/ Evict(p) PROVE CopyInv' /\ ~(Copying /\ ~Copying')
  BY <1>1, <1>3 DEF Access, Evict, tableVars
<1>4. ASSUME NEW s \in Spaces, NEW new \in Spaces, Clone(s, new)
      PROVE  CopyInv' /\ ~(Copying /\ ~Copying')
  <2>1. /\ ~Copying /\ s # new /\ copy' = [from |-> s, to |-> new, dir |-> 0, slot |-> 0]
        /\ tables' = [tables EXCEPT ![new] = [d \in Dirs |-> None]]
    BY <1>4 DEF Clone, Running
  <2>2. 0 \in Dirs /\ tables \in Views
    BY SizeAssumption, Typing DEF IInv, Dirs
  <2>3. tables'[new] = [d \in Dirs |-> None]
    BY <2>1, <2>2 DEF Views
  <2>4. copy'.from # copy'.to /\ copy'.slot = 0 /\ Target' = None
    BY <2>1, <2>2, <2>3 DEF Target
  <2>5. \A d \in Dirs, i \in Slots : ~Passed(copy', d, i)
    BY <2>1, SizeAssumption DEF Passed, Dirs, Slots
  <2> QED
    BY <2>1, <2>4, <2>5 DEF CopyInv
<1>5. CASE Call /\ ~\E s, new \in Spaces : Clone(s, new)
  <2>1. ~Copying /\ copy' = copy
    <3>1. CASE MapNoFrame \/ \E p \in Pages : UnmapNothing(p)
      BY <3>1, PanicIsEnd DEF MapNoFrame, UnmapNothing, Running
    <3>2. ASSUME NEW p \in Pages, NEW f \in Requested,
                 Map(p) \/ Unmap(p) \/ UnmapLast(p) \/ MapTo(p, f) \/ MapRefused(p, f)
          PROVE  ~Copying /\ copy' = copy
      BY <3>2 DEF Map, Unmap, UnmapLast, MapTo, MapRefused, Running
    <3>3. ASSUME NEW p \in Pages, Map(p) \/ Unmap(p) \/ UnmapLast(p)
          PROVE  ~Copying /\ copy' = copy
      BY <3>3 DEF Map, Unmap, UnmapLast, Running
    <3>4. ASSUME NEW s \in Spaces, Switch(s) PROVE ~Copying /\ copy' = copy
      BY <3>4 DEF Switch, Running
    <3> QED
      BY <1>5, <3>1, <3>2, <3>3, <3>4 DEF Call
  <2> QED
    BY <2>1 DEF CopyInv, Here, Copying
<1> QED
  BY <1>2, <1>3, <1>4, <1>5 DEF Next

LEMMA CopyStep ==
    ASSUME IInv, CopyInv, [Next]_vars
    PROVE  /\ CopyInv'
           /\ Copying /\ ~Copying' =>
                 \A p \in Pages : Maps(copy.to, p)' = None <=> Maps(copy.from, p) = None
<1>1. CASE CloneStep
  <2>1. /\ copy'.from = copy.from /\ copy'.to = copy.to
        /\ \A d \in Dirs, i \in Slots :
              /\ Page(entry', tables', copy.from, d, i) = Page(entry, tables, copy.from, d, i)
              /\ Passed(copy', d, i) => Alike(entry', tables', copy, d, i)
        /\ Here' => (copy.slot # 0 => Target # None)' /\ (Target # None => Private)'
    BY <1>1, CloneStepCopies
  <2>2. Here /\ copy.from # copy.to
    BY <1>1, CloneIsHere DEF CopyInv
  <2>3. CopyInv'
    BY <2>1, <2>2 DEF CopyInv, Alike
  <2>4. ASSUME ~Copying', NEW p \in Pages
        PROVE  Maps(copy.to, p)' = None <=> Maps(copy.from, p) = None
    <3>1. Dir(p) \in Dirs /\ Slot(p) \in Slots
      BY PageFacts
    <3>2. copy'.dir \in 0..NDirs
      <4>1. TypeOK'
        BY NextKeeps DEF IInv
      <4> QED
        BY <4>1 DEF TypeOK
    <3>3. Passed(copy', Dir(p), Slot(p))
      BY <2>4, <3>1, <3>2, SizeAssumption DEF Passed, Copying, Dirs
    <3>4. Page(entry', tables', copy.to, Dir(p), Slot(p)) = None
             <=> Page(entry, tables, copy.from, Dir(p), Slot(p)) = None
      BY <2>1, <3>1, <3>3 DEF Alike
    <3> QED
      BY <2>1, <3>4 DEF Maps, Page
  <2> QED
    BY <2>3, <2>4
<1> QED
  BY <1>1, OthersCopyNothing

(* page_directory::clone leaves out no page of its original, and adds none,
   whatever the directories share with the kernel. *)
THEOREM CloneComplete == Spec => CloneCovers
<1>1. Init => CopyInv
  BY SizeAssumption DEF Init, NoCopy, CopyInv, Here, Copying
<1>2. IInv /\ CopyInv /\ [Next]_vars => CopyInv'
  BY CopyStep
<1>3. IInv /\ CopyInv /\ [Next]_vars =>
         [Copying /\ ~Copying' =>
            \A p \in Pages : Maps(copy.to, p)' = None <=> Maps(copy.from, p) = None]_vars
  BY CopyStep
<1> QED
  BY <1>1, <1>2, <1>3, Invariant, PTL DEF Spec, CloneCovers
=============================================================================
