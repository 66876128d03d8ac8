----------------------------- MODULE MemmgrHeap -----------------------------
(***************************************************************************)
(* The heap of src/lib/furi/core/memmgr_heap.c: first fit over a list of   *)
(* free blocks in order of address, a block split when enough is left of   *)
(* it, and neighbours joined when a block is freed.  Every operation runs  *)
(* with the scheduler suspended, so that an operation is a step.           *)
(* realloc, calloc, strdup and aligned_malloc of memmgr.c are sequences of *)
(* these steps.  The thread traces are left out.                           *)
(***************************************************************************)
EXTENDS Integers, Sequences, FiniteSetsExt

CONSTANTS
  RegionStart, RegionSize,   \* the memory the linker script leaves for the heap
  Alignment,                 \* portBYTE_ALIGNMENT
  LinkSize,                  \* sizeof(BlockLink_t)
  WantedSizes                \* bound: the sizes that callers ask for

ASSUME HeapAssumption ==
  /\ RegionStart \in Nat /\ RegionSize \in Nat /\ Alignment \in Nat \ {0}
  /\ LinkSize \in Nat \ {0} /\ WantedSizes \subseteq Nat \ {0}

VARIABLES
  free,       \* the list of free blocks, from xStart to pxEnd
  used,       \* size of the allocated block at each address that has one
  freeBytes,  \* xFreeBytesRemaining
  minEver,    \* xMinimumEverFreeBytesRemaining
  refused     \* the request on which furi_check ended the program, 0: none

heapVars == <<free, used, freeBytes, minEver, refused>>

Up(n) == n + ((Alignment - (n % Alignment)) % Alignment)
Down(n) == n - (n % Alignment)

HeaderSize == Up(LinkSize)
MinimumBlock == 2 * HeaderSize

(* First and last address of the heap: pxEnd takes a header at the end. *)
HeapStart == Up(RegionStart)
HeapEnd == Down(RegionStart + RegionSize - HeaderSize)

(* The linker script leaves room for one block at least. *)
ASSUME RegionAssumption == HeapStart + HeaderSize <= HeapEnd

End(b) == b.at + b.size

NoBlock == [a \in {} |-> 0]

HeapInit ==
  /\ free = <<[at |-> HeapStart, size |-> HeapEnd - HeapStart]>>
  /\ used = NoBlock
  /\ freeBytes = HeapEnd - HeapStart
  /\ minEver = HeapEnd - HeapStart
  /\ refused = 0

(* The place of block b: behind the blocks of lower addresses.  It grows   *)
(* the block before it, and takes in the one behind it, where they touch.  *)
Before(list, b) ==
  Min({i \in 0..Len(list) : i = Len(list) \/ list[i + 1].at >= b.at})

(* A list with the blocks new instead of those from place i to place j. *)
Spliced(list, i, new, j) == SubSeq(list, 1, i - 1) \o new \o SubSeq(list, j + 1, Len(list))

(* Mutant: a block joins the one behind it, never the one before. *)
InsertBlockForward(list, b) ==
  LET k    == Before(list, b)
      high == k < Len(list) /\ End(b) = list[k + 1].at
  IN  Spliced(list, k + 1, <<[b EXCEPT !.size = IF high THEN @ + list[k + 1].size ELSE @]>>,
              IF high THEN k + 1 ELSE k)

InsertBlock(list, b) ==
  LET k      == Before(list, b)
      low    == k > 0 /\ End(list[k]) = b.at
      high   == k < Len(list) /\ End(b) = list[k + 1].at
      first  == IF low THEN list[k].at ELSE b.at
      last   == IF high THEN End(list[k + 1]) ELSE End(b)
  IN  Spliced(list, IF low THEN k ELSE k + 1, <<[at |-> first, size |-> last - first]>>,
              IF high THEN k + 1 ELSE k)

(* The size of a block with room for n bytes. *)
Wanted(n) == Up(n + HeaderSize)

Fits(n) == {i \in DOMAIN free : free[i].size >= Wanted(n)}

(* pvPortMalloc: the first block that is large enough, split when more     *)
(* than the smallest block is left of it.                                  *)
Malloc(n) ==
  /\ refused = 0
  /\ Wanted(n) <= freeBytes /\ Fits(n) # {}
  /\ LET i     == Min(Fits(n))
         b     == free[i]
         rest  == Spliced(free, i, << >>, i)
         taken == IF b.size - Wanted(n) > MinimumBlock THEN Wanted(n) ELSE b.size
     IN  /\ free' = IF taken = b.size THEN rest
                    ELSE InsertBlock(rest, [at |-> b.at + taken, size |-> b.size - taken])
         /\ used' = [a \in DOMAIN used \cup {b.at} |-> IF a = b.at THEN taken ELSE used[a]]
         /\ freeBytes' = freeBytes - taken
         /\ minEver' = Min({minEver, freeBytes - taken})
  /\ UNCHANGED refused

(* No block is large enough: furi_check ends the program, which starts     *)
(* again with an empty heap.                                               *)
OutOfMemory(n) ==
  /\ refused = 0
  /\ Wanted(n) > freeBytes \/ Fits(n) = {}
  /\ refused' = n
  /\ UNCHANGED <<free, used, freeBytes, minEver>>

Restart ==
  /\ refused # 0
  /\ free' = <<[at |-> HeapStart, size |-> HeapEnd - HeapStart]>>
  /\ used' = NoBlock
  /\ freeBytes' = HeapEnd - HeapStart
  /\ minEver' = HeapEnd - HeapStart
  /\ refused' = 0

(* vPortFree: called by the owner of the block, once. *)
Free(a) ==
  /\ refused = 0
  /\ a \in DOMAIN used
  /\ free' = InsertBlock(free, [at |-> a, size |-> used[a]])
  /\ used' = [x \in DOMAIN used \ {a} |-> used[x]]
  /\ freeBytes' = freeBytes + used[a]
  /\ UNCHANGED <<minEver, refused>>

HeapNext ==
  \/ \E n \in WantedSizes : Malloc(n) \/ OutOfMemory(n)
  \/ \E a \in DOMAIN used : Free(a)
  \/ Restart

HeapSpec == HeapInit /\ [][HeapNext]_heapVars

-----------------------------------------------------------------------------
HeapTypeOK ==
  /\ free \in Seq([at : Nat, size : Nat])
  /\ DOMAIN used \subseteq Nat /\ \A a \in DOMAIN used : used[a] \in Nat
  /\ freeBytes \in Nat /\ minEver \in Nat
  /\ refused \in WantedSizes \cup {0}

(* The bytes that belong to no allocated block, computed from the blocks   *)
(* that callers own and not from the list.                                 *)
Unowned == (HeapStart..HeapEnd - 1) \ UNION {a..a + used[a] - 1 : a \in DOMAIN used}

(* The blocks callers own are aligned, inside the heap, and no two share a *)
(* byte.                                                                   *)
BlocksDisjoint ==
  \A a \in DOMAIN used :
    /\ a >= HeapStart /\ a + used[a] <= HeapEnd
    /\ (a + HeaderSize) % Alignment = 0
    /\ \A c \in DOMAIN used : a < c => a + used[a] <= c

(* The free list is what is left, in order of address and in pieces as     *)
(* large as can be: two free blocks never touch.                           *)
ListComplete ==
  /\ Unowned = UNION {free[i].at..End(free[i]) - 1 : i \in DOMAIN free}
  /\ \A i \in 1..Len(free) - 1 : End(free[i]) < free[i + 1].at
  /\ \A i \in DOMAIN free : free[i].size >= HeaderSize

(* A program ends for want of memory only when no stretch of free bytes    *)
(* would have held the block, however the list is cut.                     *)
RefusedRightly ==
  refused # 0 =>
    ~ \E a \in HeapStart..HeapEnd : a % Alignment = 0 /\ a..a + Wanted(refused) - 1 \subseteq Unowned

(* Whatever is allocated and freed, in whatever order: blocks are disjoint *)
(* and aligned, no free byte is lost or counted twice, neighbours are      *)
(* joined, and a request is refused only when there is no room             *)
(* (pvPortMalloc, vPortFree, prvInsertBlockIntoFreeList).                  *)
HeapSound ==
  /\ BlocksDisjoint
  /\ ListComplete
  /\ freeBytes = Cardinality(Unowned) /\ minEver <= freeBytes
  /\ RefusedRightly
=============================================================================
