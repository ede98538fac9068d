------------------------------- MODULE Paging -------------------------------
(***************************************************************************)
(* Frames and address spaces, mem.cpp, once mem::init has returned: the     *)
(* bitmap of frames; page directories with their two views of a page table  *)
(* (tables, which the kernel follows, and paddrs, which the processor       *)
(* walks); map, unmap and clone; and the processor's translation buffer,    *)
(* which only a reload of cr3 empties.                                      *)
(*                                                                          *)
(* A page is named by its two indices, in the directory and in the table.   *)
(* Calls follow one another, since the callers that there are hold the      *)
(* heap's lock.  clone is a loop, one action per turn.                      *)
(***************************************************************************)
EXTENDS Integers, FiniteSets

CONSTANTS
    NFrames,        \* frames of the memory, mem.total / PAGESIZE
    WordBits,       \* frames that one word of the bitmap stands for
    NDirs,          \* tables of a directory
    TableLen,       \* pages of a table
    KernelPages,    \* pages that mem::init has identity mapped
    Spaces,         \* page directories
    Kernel,         \* kernel_pd
    Tables,         \* where page tables may lie
    BootTable,      \* the first one, from unpaged_alloc
    None,           \* a null table, an empty entry
    Requested,      \* frames that callers of map ask for by address
    TlbSize         \* bound of the model: translations remembered at once

Words == NFrames \div WordBits      \* index(nframes): a partial word is dropped
Frames == 0..(Words * WordBits - 1)
Dirs == 0..(NDirs - 1)
Slots == 0..(TableLen - 1)
Pages == Dirs \X Slots

Dir(p) == p[1]
Slot(p) == p[2]

ASSUME SizeAssumption ==
    /\ {NFrames, WordBits, NDirs, TableLen, KernelPages} \subseteq Nat \ {0}
    /\ KernelPages <= TableLen /\ KernelPages <= Words * WordBits
    /\ Requested \subseteq Frames /\ TlbSize \in Nat
ASSUME NameAssumption ==
    /\ Kernel \in Spaces /\ BootTable \in Tables
    /\ None \notin Tables /\ None \notin Int

VARIABLES
    mode,           \* "run", the PANIC that ended it, or "wild"
    marked,         \* frames whose bit is set
    entry,          \* entry[t][i]: the frame of page i of table t
    live,           \* tables in use; the others are the heap's to give
    tables, paddrs, \* per directory: what the kernel and the processor follow
    spaces,         \* directories that exist
    current_pd,     \* the one in cr3, on which map and unmap work
    tlb,            \* translations it remembers
    copy,           \* the clone under way
    stale,          \* history: pages unmapped or mapped anew since they entered tlb
    lost            \* history: frames that map dropped from a page

tableVars == <<entry, live, tables, paddrs>>
spaceVars == <<spaces, current_pd>>
historyVars == <<stale, lost>>
vars == <<mode, marked, tableVars, spaceVars, tlb, copy, historyVars>>

Cached == {p \in Pages : tlb[p] # None}
Blank == [i \in Slots |-> None]
EmptyTlb == [p \in Pages |-> None]
NoCopy == [from |-> Kernel, to |-> Kernel, dir |-> NDirs, slot |-> 0]

Init ==
    /\ mode = "run" /\ copy = NoCopy
    /\ marked = 0..(KernelPages - 1)
    /\ entry = [t \in Tables |-> [i \in Slots |->
                    IF t = BootTable /\ i < KernelPages THEN i ELSE None]]
    /\ live = {BootTable}
    /\ tables = [s \in Spaces |-> [d \in Dirs |->
                    IF s = Kernel /\ d = 0 THEN BootTable ELSE None]]
    /\ paddrs = tables
    /\ spaces = {Kernel} /\ current_pd = Kernel
    /\ tlb = EmptyTlb
    /\ stale = {} /\ lost = {}

Copying == copy.dir < NDirs
Running == mode = "run" /\ ~Copying

Panic(msg) == mode' = msg /\ UNCHANGED <<marked, tableVars, spaceVars, tlb, copy, historyVars>>
-----------------------------------------------------------------------------
(* Frames *)

(* Mutant of FreeFrame: the last bit of a word is not looked at. *)
FreeButLast(f) ==
    /\ f \in Frames \ marked /\ f # 0
    /\ f % WordBits # WordBits - 1

(* get_free_frame finds the first clear bit; it answers 0 for "none", so a
   frame 0 that is free hides all the others. *)
FreeFrame(f) ==
    /\ f \in Frames \ marked
    /\ \A g \in Frames \ marked : f <= g
    /\ f # 0

NoFreeFrame == ~\E f \in Frames : FreeFrame(f)

(* page::claim of frame f for page p, in table t whose entries are old.  What
   the page had before is overwritten, and its mark stays. *)
Claim(t, old, p, f) ==
    LET was == old[Slot(p)] IN
    /\ marked' = marked \cup {f}
    /\ entry' = [entry EXCEPT ![t] = [old EXCEPT ![Slot(p)] = f]]
    /\ lost' = IF was = None THEN lost ELSE lost \cup {was}
    /\ stale' = IF was = None THEN stale ELSE stale \cup ({p} \cap Cached)
-----------------------------------------------------------------------------
(* map *)

Missing(p) == tables[current_pd][Dir(p)] = None
Found(p, t) == IF Missing(p) THEN Blank ELSE entry[t]

(* get_page: t is the table of page p; a missing one comes from the heap. *)
GetPage(p, t) ==
    /\ t \in IF Missing(p) THEN Tables \ live ELSE {tables[current_pd][Dir(p)]}
    /\ live' = live \cup {t}
    /\ tables' = [tables EXCEPT ![current_pd][Dir(p)] = t]
    /\ paddrs' = IF Missing(p) THEN [paddrs EXCEPT ![current_pd][Dir(p)] = t] ELSE paddrs

(* map(vaddr, flags) *)
Map(p) ==
    /\ Running
    /\ \E t \in Tables, f \in Frames :
          GetPage(p, t) /\ FreeFrame(f) /\ Claim(t, Found(p, t), p, f)
    /\ UNCHANGED <<mode, spaceVars, tlb, copy>>

MapNoFrame == Running /\ NoFreeFrame /\ Panic("no frame")

(* map(vaddr, paddr, flags), with a frame of the bitmap *)
MapTo(p, f) ==
    /\ Running /\ f \notin marked
    /\ \E t \in Tables : GetPage(p, t) /\ Claim(t, Found(p, t), p, f)
    /\ UNCHANGED <<mode, spaceVars, tlb, copy>>

(* The frame is taken: map returns 0, and map_range panics.  The table that
   get_page made for it stays, empty. *)
MapRefused(p, f) ==
    /\ Running /\ f \in marked
    /\ mode' \in {"run", "cannot map"}
    /\ \E t \in Tables :
          GetPage(p, t) /\ entry' = [entry EXCEPT ![t] = Found(p, t)]
    /\ UNCHANGED <<marked, spaceVars, tlb, copy, historyVars>>
-----------------------------------------------------------------------------
(* unmap *)

Maps(s, p) == IF tables[s][Dir(p)] = None THEN None ELSE entry[tables[s][Dir(p)]][Slot(p)]

UnmapNothing(p) == Running /\ Maps(current_pd, p) = None /\ Panic("not mapped")

(* free_frame *)
Release(t, p) ==
    /\ marked' = marked \ {entry[t][Slot(p)]}
    /\ entry' = [entry EXCEPT ![t][Slot(p)] = None]
    /\ stale' = stale \cup ({p} \cap Cached)

LastOf(t, p) == \A i \in Slots : i # Slot(p) => entry[t][i] = None

(* Mutant of Unmap: the frame keeps its mark. *)
UnmapOnly(p) ==
    /\ Running /\ Maps(current_pd, p) # None
    /\ LET t == tables[current_pd][Dir(p)] IN
          /\ ~LastOf(t, p)
          /\ entry' = [entry EXCEPT ![t][Slot(p)] = None]
          /\ stale' = stale \cup ({p} \cap Cached)
    /\ UNCHANGED <<mode, marked, live, tables, paddrs, spaceVars, tlb, copy, lost>>

Unmap(p) ==
    /\ Running /\ Maps(current_pd, p) # None
    /\ LET t == tables[current_pd][Dir(p)] IN ~LastOf(t, p) /\ Release(t, p)
    /\ UNCHANGED <<mode, live, tables, paddrs, spaceVars, tlb, copy, lost>>

(* May t go back to the heap: did it come from there, and does no other
   directory point to it? *)
OwnTable(t) ==
    /\ t # BootTable
    /\ \A s \in Spaces \ {current_pd} : \A d \in Dirs : tables[s][d] # t

(* The table has become empty: it is freed and its address leaves tables, but
   not paddrs.  If it was not this directory's to give, nothing more is said. *)
UnmapLast(p) ==
    /\ Running /\ Maps(current_pd, p) # None
    /\ LET t == tables[current_pd][Dir(p)] IN
          /\ LastOf(t, p) /\ Release(t, p)
          /\ live' = live \ {t}
          /\ mode' = IF OwnTable(t) THEN "run" ELSE "wild"
    /\ tables' = [tables EXCEPT ![current_pd][Dir(p)] = None]
    /\ UNCHANGED <<paddrs, spaceVars, tlb, copy, lost>>
-----------------------------------------------------------------------------
(* clone *)

Clone(s, new) ==
    /\ Running
    /\ s \in spaces /\ new \notin spaces
    /\ spaces' = spaces \cup {new}
    /\ tables' = [tables EXCEPT ![new] = [d \in Dirs |-> None]]
    /\ paddrs' = [paddrs EXCEPT ![new] = [d \in Dirs |-> None]]
    /\ copy' = [from |-> s, to |-> new, dir |-> 0, slot |-> 0]
    /\ UNCHANGED <<mode, marked, entry, live, current_pd, tlb, historyVars>>

Source == tables[copy.from][copy.dir]
Target == tables[copy.to][copy.dir]

Here == mode = "run" /\ Copying

(* The next turn of the loop over tables, and of the one over pages.  Mutants:
   the first stops at once; the second has <= for < in its condition. *)
Stop == copy' = [copy EXCEPT !.dir = NDirs, !.slot = 0]
NextDir == copy' = [copy EXCEPT !.dir = @ + 1, !.slot = 0]

OneMore == IF copy.slot = TableLen THEN NextDir ELSE copy' = [copy EXCEPT !.slot = @ + 1]
NextPage == IF copy.slot = TableLen - 1 THEN NextDir ELSE copy' = [copy EXCEPT !.slot = @ + 1]

CloneSkip ==
    /\ Here /\ Source = None
    /\ NextDir
    /\ UNCHANGED <<mode, marked, tableVars, spaceVars, tlb, historyVars>>

(* Mutant of Shared: private tables are shared too. *)
AllShared == Source # None

(* The kernel's own tables are shared. *)
Shared == Source # None /\ Source = tables[Kernel][copy.dir]

Point(s, d, t, address) ==
    /\ tables' = [tables EXCEPT ![s][d] = t]
    /\ paddrs' = [paddrs EXCEPT ![s][d] = address]

CloneShared ==
    /\ Here /\ Shared
    /\ Point(copy.to, copy.dir, Source, paddrs[copy.from][copy.dir])
    /\ NextDir
    /\ UNCHANGED <<mode, marked, entry, live, spaceVars, tlb, historyVars>>

Private == Source # None /\ ~Shared

(* page_table::clone *)
CloneTable ==
    /\ Here /\ Private /\ Target = None
    /\ \E t \in Tables \ live :
          /\ live' = live \cup {t}
          /\ entry' = [entry EXCEPT ![t] = Blank]
          /\ Point(copy.to, copy.dir, t, t)
    /\ UNCHANGED <<mode, marked, spaceVars, tlb, copy, historyVars>>

Filled == Private /\ Target # None /\ entry[Source][copy.slot] # None

CloneHole ==
    /\ Here /\ Private /\ Target # None /\ ~Filled
    /\ NextPage
    /\ UNCHANGED <<mode, marked, tableVars, spaceVars, tlb, historyVars>>

(* copy_page switches paging off and on, which empties the buffer. *)
ClonePage ==
    /\ Here /\ Filled
    /\ \E f \in Frames :
          /\ FreeFrame(f)
          /\ marked' = marked \cup {f}
          /\ entry' = [entry EXCEPT ![Target][copy.slot] = f]
    /\ NextPage
    /\ tlb' = EmptyTlb /\ stale' = {}
    /\ UNCHANGED <<mode, live, tables, paddrs, spaceVars, lost>>

CloneNoFrame == Here /\ Filled /\ NoFreeFrame /\ Panic("no frame")

CloneStep == \/ CloneSkip \/ CloneShared \/ CloneTable
             \/ CloneHole \/ ClonePage \/ CloneNoFrame
-----------------------------------------------------------------------------
(* perform_context_switch: load_page_directory(next->pd), then
   switch_page_directory, which reloads cr3. *)

(* Mutant of Switch: no reload when the directory is loaded already. *)
SwitchLazy(s) ==
    /\ Running /\ s \in spaces
    /\ current_pd' = s /\ stale' = {}
    /\ tlb' = IF s = current_pd THEN tlb ELSE EmptyTlb
    /\ UNCHANGED <<mode, marked, tableVars, spaces, copy, lost>>

Switch(s) ==
    /\ Running /\ s \in spaces
    /\ current_pd' = s
    /\ tlb' = EmptyTlb /\ stale' = {}
    /\ UNCHANGED <<mode, marked, tableVars, spaces, copy, lost>>

(* The processor *)

(* An access that the buffer does not answer walks the tables.  Where unmap
   has left the address of a table it freed, what it finds is anything. *)
Access(p) ==
    /\ mode = "run" /\ tlb[p] = None /\ Cardinality(Cached) < TlbSize
    /\ paddrs[current_pd][Dir(p)] # None
    /\ IF paddrs[current_pd][Dir(p)] # tables[current_pd][Dir(p)]
       THEN mode' = "wild" /\ UNCHANGED tlb
       ELSE /\ entry[paddrs[current_pd][Dir(p)]][Slot(p)] # None
            /\ tlb' = [tlb EXCEPT ![p] = entry[paddrs[current_pd][Dir(p)]][Slot(p)]]
            /\ UNCHANGED mode
    /\ UNCHANGED <<marked, tableVars, spaceVars, copy, historyVars>>

Evict(p) ==
    /\ mode = "run" /\ tlb[p] # None
    /\ tlb' = [tlb EXCEPT ![p] = None]
    /\ stale' = stale \ {p}
    /\ UNCHANGED <<mode, marked, tableVars, spaceVars, copy, lost>>

Call ==
    \/ \E p \in Pages : Map(p) \/ Unmap(p) \/ UnmapLast(p) \/ UnmapNothing(p)
    \/ \E p \in Pages, f \in Requested : MapTo(p, f) \/ MapRefused(p, f)
    \/ MapNoFrame
    \/ \E s, new \in Spaces : Clone(s, new)
    \/ \E s \in Spaces : Switch(s)

Next == Call \/ CloneStep \/ \E p \in Pages : Access(p) \/ Evict(p)

Spec == Init /\ [][Next]_vars
-----------------------------------------------------------------------------
(* Properties *)

TypeOK ==
    /\ mode \in {"run", "no frame", "cannot map", "not mapped", "wild"}
    /\ marked \subseteq Frames /\ lost \subseteq Frames
    /\ entry \in [Tables -> [Slots -> Frames \cup {None}]]
    /\ live \subseteq Tables
    /\ tables \in [Spaces -> [Dirs -> Tables \cup {None}]]
    /\ paddrs \in [Spaces -> [Dirs -> Tables \cup {None}]]
    /\ spaces \subseteq Spaces /\ current_pd \in spaces
    /\ tlb \in [Pages -> Frames \cup {None}] /\ stale \subseteq Pages
    /\ copy \in [from : spaces, to : spaces, dir : 0..NDirs, slot : Slots]

(* Two pages are on one frame only if they are the same page of a table of the
   kernel's that both directories share: clone and map give every other page
   a frame of its own, however often frames and tables are freed and reused. *)
Isolated ==
    mode = "run" =>
        \A s, u \in spaces : \A p, q \in Pages :
            Maps(s, p) = Maps(u, q) /\ Maps(s, p) # None /\ <<s, p>> # <<u, q>> =>
                p = q /\ tables[s][Dir(p)] = tables[Kernel][Dir(p)]

Owned == {entry[t][i] : t \in Tables, i \in Slots} \ {None}

(* A frame is marked exactly while a table holds it, but for those that map
   took from a page that had one: these stay marked for ever. *)
Accounted == marked = Owned \cup lost /\ Owned \cap lost = {}

(* alloc_frame panics with "no available frame found" only when every frame
   of the bitmap is marked, or frame 0 has been given back. *)
PanicMeansFull == mode = "no frame" => marked = Frames \/ 0 \notin marked

(* A translation that the processor remembers is the one in its directory,
   unless that page was unmapped or mapped anew since it was remembered;
   and where the kernel sees a table, the processor walks the same one. *)
ProcessorAgrees ==
    mode = "run" =>
        /\ \A p \in Pages \ stale : tlb[p] \in {None, Maps(current_pd, p)}
        /\ \A s \in spaces : \A d \in Dirs :
               tables[s][d] # None => paddrs[s][d] = tables[s][d]

(* When a clone is complete it maps the pages that its original maps. *)
CloneCovers ==
    [][Copying /\ ~Copying' =>
           \A p \in Pages : Maps(copy.to, p)' = None <=> Maps(copy.from, p) = None]_vars
=============================================================================
