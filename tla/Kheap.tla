------------------------------- MODULE Kheap --------------------------------
(***************************************************************************)
(* The buddy allocator of the kernel heap, mem.cpp, once scheduler::init   *)
(* has made the kernel's own task, the first block.  Pages are counted     *)
(* from free_zone, and orders from min_order: a block of order k is 2^k    *)
(* pages, and free_zone is aligned to the largest one.                     *)
(*                                                                          *)
(* A call holds the heap's lock from its beginning to its end.  "at" is the *)
(* place it has reached; level is the order buddy_alloc and buddy_free have *)
(* recursed to, up and, while blocks are split, down again.                 *)
(***************************************************************************)
EXTENDS Integers, Sequences, FiniteSetsExt, SequencesExt, Spinlock

CONSTANTS
    Memories,       \* what mem.total may be, in pages
    BootReserve,    \* the reserve that mem::init asks for, in pages
    TablePages,     \* pages that one page table maps
    Sizes           \* what callers ask for, in pages

WordOrder == 20     \* the order of 4 GB, counted from that of a page

Span == [k \in 0..WordOrder |-> 2^k]    \* the pages of a block

(* The least order whose block has so many pages. *)
OrderOf(pages) == Min({k \in 0..WordOrder : pages <= Span[k]})

(* kheap::init: an eighth of the memory, rounded up. *)
MaxOrderOf(total) == OrderOf(total) - 3

ASSUME MemoryAssumption ==
    /\ Memories \cup {BootReserve, TablePages} \subseteq 1..Span[WordOrder]
    /\ \A total \in Memories : MaxOrderOf(total) \in 0..(WordOrder - 3)
ASSUME SizesAssumption == Sizes \subseteq Nat
ASSUME SpanAssumption ==    \* what the proofs need of powers of two
    /\ Span \in [0..WordOrder -> Nat \ {0}] /\ Span[0] = 1
    /\ \A k \in 0..(WordOrder - 1) : Span[k + 1] = 2 * Span[k]
    /\ \A j, k \in 0..WordOrder : j <= k => Span[j] <= Span[k]

VARIABLES
    max_order,      \* set once, from mem.total
    lock,           \* mem.kheap.lock
    free,           \* free[k]: the free list of order k, head first
    reserve_order,
    at, order, level, block,    \* the call in hand
    size,           \* the size it was asked for
    held            \* the blocks that callers have, as <<page, order>>

callVars == <<at, order, level, block, size>>
vars == <<max_order, lock, free, reserve_order, callVars, held>>

Orders == 0..max_order
TooBig == max_order + 1     \* any order above max_order

Boot == <<0, 0>>    \* the kernel's own task, the first allocation

(* Mutant of GetOrder: a size between two orders is rounded down. *)
OrderBelow(pages) == IF pages = 0 THEN 0 ELSE Max({k \in 0..TooBig : Span[k] <= pages})

(* get_order: at least min_order, and large enough. *)
GetOrder(pages) == IF pages <= Span[max_order] THEN OrderOf(pages) ELSE TooBig

(* Mutant of Flip: the buddy is taken to be the next block. *)
NextBlock(page, k) == page + Span[k]

Bit(page, k) == (page \div Span[k]) % 2 = 1
Flip(page, k) == IF Bit(page, k) THEN page - Span[k] ELSE page + Span[k]
Clear(page, k) == IF Bit(page, k) THEN page - Span[k] ELSE page

Push(k, page) == free' = [free EXCEPT ![k] = <<page>> \o @]

(* The reserve is scaled down to max_order.  enable_paging puts it in its
   list as one block; scheduler::init takes the first page of that, which
   leaves a block of each smaller order. *)
Init ==
    /\ \E total \in Memories : max_order = MaxOrderOf(total)
    /\ reserve_order = Min({OrderOf(BootReserve), max_order})
    /\ lock = Unlocked
    /\ free = [k \in Orders |-> IF k < reserve_order THEN <<Span[k]>> ELSE << >>]
    /\ at = "idle" /\ order = 0 /\ level = 0 /\ block = 0 /\ size = 0
    /\ held = {Boot}
-----------------------------------------------------------------------------
(* alloc *)

Alloc ==
    /\ at = "idle" /\ Lock(lock)
    /\ \E pages \in Sizes :
          /\ size' = pages
          /\ order' = GetOrder(pages) /\ level' = GetOrder(pages)
    /\ at' = "take"
    /\ UNCHANGED <<max_order, free, reserve_order, block, held>>

(* free_blocks is read beyond its end before the order is compared: what lies
   there is either 0, and the comparison panics, or is taken for a block. *)
AllocTooBig ==
    /\ at = "take" /\ level > max_order
    /\ at' \in {"panic", "wild"}
    /\ UNCHANGED <<max_order, lock, free, reserve_order, order, level, block, size, held>>

Empty == at = "take" /\ level <= max_order /\ free[level] = << >>

(* The list of this order is empty, and the reserve has larger blocks. *)
Climb ==
    /\ Empty /\ level < reserve_order
    /\ level' = level + 1
    /\ UNCHANGED <<max_order, lock, free, reserve_order, at, order, block, size, held>>

(* Does doubling the reserve reach into a page table that is not there yet?
   free_zone is aligned, so the tables start at multiples of TablePages. *)
NeedsTable ==
    (Span[reserve_order + 1] - 1) \div TablePages > (Span[reserve_order] - 1) \div TablePages

(* Mutants of Doubled: the new half is not linked; it is looked for too far. *)
HalfForgotten == free[reserve_order]
HalfAtEnd     == <<Span[reserve_order + 1]>>

(* The list of the reserve's order once the new half is in it.  Its first
   link is what the old head, if there was one, points to. *)
Doubled == <<Span[reserve_order]>> \o
               (IF free[reserve_order] = << >> THEN << >> ELSE Tail(free[reserve_order]))

(* Mutant of DoubleReserve: reserve_order is not raised. *)
DoubleNotCounted ==
    /\ Empty /\ level >= reserve_order
    /\ reserve_order < max_order /\ ~NeedsTable
    /\ free' = [free EXCEPT ![reserve_order] = Doubled]
    /\ UNCHANGED <<max_order, lock, reserve_order, callVars, held>>

(* double_reserve *)
DoubleReserve ==
    /\ Empty /\ level >= reserve_order
    /\ reserve_order < max_order /\ ~NeedsTable
    /\ free' = [free EXCEPT ![reserve_order] = Doubled]
    /\ reserve_order' = reserve_order + 1
    /\ UNCHANGED <<max_order, lock, callVars, held>>

(* get_page asks this same heap for a page table: alloc's lock.lock() waits
   for the lock this call holds, and there is no step from here. *)
WaitForItself ==
    /\ Empty /\ level >= reserve_order
    /\ reserve_order < max_order /\ NeedsTable
    /\ at' = "table"
    /\ UNCHANGED <<max_order, lock, free, reserve_order, order, level, block, size, held>>

(* double_reserve cannot expand and returns; the loop calls it again. *)
Full == Empty /\ level >= reserve_order /\ reserve_order >= max_order
Spin == Full /\ UNCHANGED vars

Take ==
    /\ at = "take" /\ level <= max_order /\ free[level] # << >>
    /\ block' = Head(free[level])
    /\ free' = [free EXCEPT ![level] = Tail(@)]
    /\ at' = "split"
    /\ UNCHANGED <<max_order, lock, reserve_order, order, level, size, held>>

(* Back from the recursion: the other half goes to the front of its list. *)
Split ==
    /\ at = "split" /\ level > order
    /\ level' = level - 1
    /\ Push(level - 1, Flip(block, level - 1))
    /\ UNCHANGED <<max_order, lock, reserve_order, at, order, block, size, held>>

Return ==
    /\ at = "split" /\ level = order
    /\ Release(lock)
    /\ held' = held \cup {<<block, order>>}
    /\ at' = "idle"
    /\ UNCHANGED <<max_order, free, reserve_order, order, level, block, size>>
-----------------------------------------------------------------------------
(* free, of a block that alloc returned and with the size it was asked for *)

Free ==
    /\ at = "idle" /\ Lock(lock)
    /\ \E b \in held \ {Boot} :
          /\ held' = held \ {b}
          /\ block' = b[1] /\ order' = b[2] /\ level' = b[2]
    /\ at' = "merge"
    /\ UNCHANGED <<max_order, free, reserve_order, size>>

BuddyFree == Flip(block, level) \in Range(free[level])

Unlinked(list, page) == RemoveAt(list, CHOOSE i \in DOMAIN list : list[i] = page)

Merge ==
    /\ at = "merge" /\ BuddyFree
    /\ free' = [free EXCEPT ![level] = Unlinked(@, Flip(block, level))]
    /\ block' = Clear(block, level)
    /\ level' = level + 1
    /\ UNCHANGED <<max_order, lock, reserve_order, at, order, size, held>>

(* Mutant of PutBack: the block is put back whether its buddy is free or not. *)
PutBackUnmerged ==
    /\ at = "merge"
    /\ Push(level, block)
    /\ Release(lock)
    /\ at' = "idle"
    /\ UNCHANGED <<max_order, reserve_order, order, level, block, size, held>>

PutBack ==
    /\ at = "merge" /\ ~BuddyFree
    /\ Push(level, block)
    /\ Release(lock)
    /\ at' = "idle"
    /\ UNCHANGED <<max_order, reserve_order, order, level, block, size, held>>

Call == Alloc \/ Free

Step == \/ AllocTooBig \/ Climb \/ DoubleReserve \/ WaitForItself \/ Spin
        \/ Take \/ Split \/ Return \/ Merge \/ PutBack

Next == Call \/ Step

Spec == Init /\ [][Next]_vars

(* The processor keeps executing the call in hand. *)
FairSpec == Spec /\ WF_vars(Step)
-----------------------------------------------------------------------------
(* Properties *)

Addresses == 0..(Span[max_order] - 1)

TypeOK ==
    /\ lock \in {Unlocked, Locked}
    /\ free \in [Orders -> Seq(Addresses)]
    /\ reserve_order \in Orders
    /\ at \in {"idle", "take", "split", "merge", "table", "panic", "wild"}
    /\ order \in 0..TooBig /\ level \in 0..TooBig
    /\ block \in Addresses /\ size \in Nat
    /\ held \subseteq Addresses \X Orders

PagesOf(b) == b[1]..(b[1] + Span[b[2]] - 1)
Reserve    == 0..(Span[reserve_order] - 1)

FreeBlocks == UNION {Range(free[k]) \X {k} : k \in Orders}
InHand     == IF at \in {"split", "merge"} THEN {<<block, level>>} ELSE {}
Blocks     == FreeBlocks \cup held \cup InHand

(* Every page of the reserve is in exactly one block: in one free list, once,
   or with one caller, or in hand.  So no page is given out twice, and none is
   lost when a block is split, merged or added by double_reserve, although
   the latter drops the head of the list it extends (mem.cpp:447). *)
Partition ==
    /\ UNION {PagesOf(b) : b \in Blocks} = Reserve
    /\ \A b, c \in Blocks : b # c => PagesOf(b) \cap PagesOf(c) = {}
    /\ \A k \in Orders : IsInjective(free[k])
    /\ FreeBlocks \cap held = {} /\ InHand \cap (FreeBlocks \cup held) = {}

(* Between two calls no two buddies are both free: all that was split has
   been merged again, and the halves that double_reserve adds need not be. *)
Merged ==
    at = "idle" => \A b \in FreeBlocks : <<Flip(b[1], b[2]), b[2]>> \notin FreeBlocks

(* alloc goes round for ever only when no run of pages of the order asked for,
   aligned to it, is free of blocks that callers have. *)
FullMeansFull ==
    Full => \A run \in 0..(Span[max_order - order] - 1) :
                \E b \in held : PagesOf(b) \cap PagesOf(<<run * Span[order], order>>) # {}

(* A reserve smaller than max_order can be expanded (mem.cpp:376, 438). *)
CanExpand == at # "table"

Stuck == at \in {"panic", "wild", "table"} \/ Full

(* A call ends, but for the three ways in which alloc does not: a request
   above max_order, a heap that is full, and a missing page table. *)
CallsEnd == at # "idle" ~> at = "idle" \/ Stuck

Promise == INSTANCE KheapSpec WITH
    regions <- {PagesOf(b) : b \in held},
    request <- IF at \in {"take", "split", "table", "panic", "wild"} THEN {size} ELSE {}

(* The heap gives every caller pages of its own, as many as it asked for. *)
KeepsPromise == Promise!Spec
=============================================================================
