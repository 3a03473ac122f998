------------------------------ MODULE Kmalloc ------------------------------
(***************************************************************************)
(* The kernel heap, mm/kmalloc.c: a first-fit allocator over a list of     *)
(* blocks, one per page at boot.  Nothing in it disables interrupts.  The  *)
(* shell is the only allocator; the timer frees the PCBs of dead processes *)
(* (process_free), possibly between the moment kmalloc has found a block   *)
(* and the moment it claims it.                                            *)
(***************************************************************************)
EXTENDS Integers, Sequences, FiniteSets, FiniteSetsExt

CONSTANTS
  PageBases,          \* addresses of the frames kmalloc_init got from the PMM
  PAGE_SIZE,
  BLOCK_HEADER_SIZE,  \* sizeof(block_t): 16
  MIN_SPLIT_SIZE,     \* 8
  Requests,           \* the sizes asked for
  MaxAllocs           \* bound on the allocations in use at a time

ASSUME HeapAssumption ==
  /\ PageBases \in Seq(Nat) /\ PageBases # <<>>
  /\ \A i, j \in DOMAIN PageBases : i < j => PageBases[i] + PAGE_SIZE <= PageBases[j]
  /\ BLOCK_HEADER_SIZE \in Nat \ {0} /\ MIN_SPLIT_SIZE \in Nat
  /\ PAGE_SIZE \in Nat /\ PAGE_SIZE > BLOCK_HEADER_SIZE
  /\ Requests \subseteq Nat \ {0}

VARIABLES
  heap,    \* the block list from heap_start: address, size and free of each
  allocs,  \* the allocations in use: pointer and number of bytes asked for
  found,   \* the block kmalloc has chosen and not yet claimed, or NoBlock
  asked,   \* the size it was asked for
  panic,   \* kfree has called kpanic
  absorbed \* history: a kfree by the timer has absorbed the block chosen

vars == <<heap, allocs, found, asked, panic, absorbed>>

NoBlock == -1

\* The address just behind a block.
End(b) == b.addr + BLOCK_HEADER_SIZE + b.size

\* kmalloc_init: every frame becomes one free block.
InitialHeap ==
  [i \in 1..Len(PageBases) |->
     [addr |-> PageBases[i], size |-> PAGE_SIZE - BLOCK_HEADER_SIZE, free |-> TRUE]]

Init ==
  /\ heap = InitialHeap
  /\ allocs = {}
  /\ found = NoBlock
  /\ asked = 0
  /\ panic = FALSE
  /\ absorbed = FALSE

\* Fault: rounded down.
Align_Down(n) == (n \div 4) * 4

\* The request rounded up to 4 bytes.
Align(n) == ((n + 3) \div 4) * 4

\* split: the block at position i keeps size bytes if what is left can hold a
\* header and more than MIN_SPLIT_SIZE bytes.
Split(h, i, size) ==
  LET b == h[i]
      rest == [addr |-> b.addr + BLOCK_HEADER_SIZE + size,
               size |-> b.size - size - BLOCK_HEADER_SIZE, free |-> TRUE]
      kept == [h EXCEPT ![i].size = size]
  IN  IF b.size <= size + BLOCK_HEADER_SIZE + MIN_SPLIT_SIZE
      THEN h
      ELSE SubSeq(kept, 1, i) \o <<rest>> \o SubSeq(kept, i + 1, Len(kept))

\* Fault: blocks with a gap between them are merged.
Mergeable_AnyGap(b, c) == b.free /\ c.free

\* Two neighbours coalesce merges.
Mergeable(b, c) == b.free /\ c.free /\ End(b) = c.addr

\* Where a walk along the list stops: the first of the positions I, or 0 (NULL).
First(I) == IF I # {} THEN Min(I) ELSE 0

\* Fault: only the first pair is merged.
Coalesce_Once(h) ==
  LET i == First({k \in 1..(Len(h) - 1) : Mergeable(h[k], h[k + 1])})
      merged == [h EXCEPT ![i].size = @ + BLOCK_HEADER_SIZE + h[i + 1].size]
  IN  IF i = 0 THEN h ELSE SubSeq(merged, 1, i) \o SubSeq(h, i + 2, Len(h))

\* coalesce: a block is absorbed into the last one kept if both are free and
\* adjacent.
Absorb(acc, b) ==
  IF acc # <<>> /\ Mergeable(acc[Len(acc)], b)
  THEN [acc EXCEPT ![Len(acc)].size = @ + BLOCK_HEADER_SIZE + b.size]
  ELSE Append(acc, b)

\* coalesce: one pass over the list.
Coalesce(h) ==
  LET pass[n \in 0..Len(h)] == IF n = 0 THEN <<>> ELSE Absorb(pass[n - 1], h[n])
  IN  pass[Len(h)]

\* Position on the list h of the block with this address, 0 if it is not on it.
Position(h, a) == First({i \in DOMAIN h : h[i].addr = a})

----------------------------------------------------------------------------

Fits(b, n) == b.free /\ b.size >= Align(n)

\* kmalloc: the first free block that is large enough.
Search(n) ==
  LET i == First({k \in DOMAIN heap : Fits(heap[k], n)})
  IN  /\ found = NoBlock
      /\ ~panic
      /\ Cardinality(allocs) < MaxAllocs
      /\ IF i = 0 THEN UNCHANGED <<found, asked>>
         ELSE found' = heap[i].addr /\ asked' = n
      /\ UNCHANGED <<heap, allocs, panic, absorbed>>

\* kmalloc: split the block, clear its free flag and return its data.  A block
\* that has been absorbed meanwhile is no longer on the list: then the stores
\* go to a header nothing refers to.
Claim ==
  LET i == Position(heap, found)
  IN  /\ found # NoBlock
      /\ ~panic
      /\ heap' = IF i = 0 THEN heap
                 ELSE [Split(heap, i, Align(asked)) EXCEPT ![i].free = FALSE]
      /\ allocs' = allocs \cup {[ptr |-> found + BLOCK_HEADER_SIZE, size |-> asked]}
      /\ found' = NoBlock
      /\ asked' = 0
      /\ UNCHANGED <<panic, absorbed>>

\* kfree: by the shell, or by the timer interrupt, even inside kmalloc.
Kfree(a) ==
  LET i == Position(heap, a.ptr - BLOCK_HEADER_SIZE)
  IN  /\ ~panic
      /\ allocs' = allocs \ {a}
      /\ IF i # 0 /\ heap[i].free
         THEN panic' = TRUE /\ UNCHANGED heap
         ELSE /\ heap' = Coalesce(IF i = 0 THEN heap ELSE [heap EXCEPT ![i].free = TRUE])
              /\ UNCHANGED panic
      /\ absorbed' = (absorbed \/ (found # NoBlock /\ Position(heap', found) = 0))
      /\ UNCHANGED <<found, asked>>

Next ==
  \/ \E n \in Requests : Search(n)
  \/ Claim
  \/ \E a \in allocs : Kfree(a)

Spec == Init /\ [][Next]_vars

----------------------------------------------------------------------------
(* Properties. *)

\* The blocks tile the pages: each begins where its predecessor ends or, after
\* the end of a page, at the next page, and none straddles a gap.
BlocksTilePages ==
  /\ heap[1].addr = PageBases[1]
  /\ End(heap[Len(heap)]) = PageBases[Len(PageBases)] + PAGE_SIZE
  /\ \A i \in 1..(Len(heap) - 1) :
       \/ heap[i + 1].addr = End(heap[i])
       \/ \E k \in 1..(Len(PageBases) - 1) :
            End(heap[i]) = PageBases[k] + PAGE_SIZE /\ heap[i + 1].addr = PageBases[k + 1]

\* Every allocation in use is the data of a used block of its own that is
\* large enough for it, and every used block belongs to an allocation, so no two
\* share a byte and kfree never panics: also when the timer frees blocks inside
\* kmalloc, unless one absorbs the block kmalloc has chosen.
AllocationsOwnBlocks ==
  absorbed \/
  /\ \A a \in allocs : \E i \in DOMAIN heap :
       /\ ~heap[i].free
       /\ heap[i].addr + BLOCK_HEADER_SIZE = a.ptr
       /\ heap[i].size >= a.size
  /\ \A i \in DOMAIN heap : ~heap[i].free =>
       \E a \in allocs : a.ptr = heap[i].addr + BLOCK_HEADER_SIZE
  /\ \A a, b \in allocs : a.ptr = b.ptr => a = b
  /\ ~panic

\* The single forward pass of coalesce is enough: after a kfree no two
\* neighbours can be merged any more.
KfreeCoalescesAll ==
  [][(\E a \in allocs : Kfree(a)) =>
       \A i \in 1..(Len(heap') - 1) : ~Mergeable(heap'[i], heap'[i + 1])]_vars
=============================================================================
