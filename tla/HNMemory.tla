------------------------------ MODULE HNMemory ------------------------------
(***************************************************************************)
(* The memory of one tile of HNemu (gn/hnemu/hnemu.cpp) as GNManager uses  *)
(* it: an allocation asks find_memory for an address and hands the address *)
(* to allocate_memory; a release gives back a block that was allocated,    *)
(* once.                                                                   *)
(***************************************************************************)
EXTENDS HNFreeList, FiniteSets

CONSTANTS Base,     \* start_address of the memory of the tile
          MemSize,  \* memory_size of the tile
          Sizes     \* the sizes the callers request

ASSUME MemoryAssumption ==
    /\ MemoryFits(Base, MemSize)
    /\ Sizes \subseteq Nat \ {0}

VARIABLES slots,        \* first_memory_slot and what follows it
          free_memory,  \* the counter of free bytes of the tile
          granted,      \* the blocks callers hold (what the callers know)
          status        \* how the last call ended

vars == <<slots, free_memory, granted, status>>

Statuses == {"HN_SUCCEEDED", "HN_NOT_ENOUGH_MEMORY_AVAILABLE", "ALLOCATE_FAILED"}

A == INSTANCE HNArena

-----------------------------------------------------------------------------
Init ==
    /\ slots = <<Slot(Base, MemSize)>>
    /\ free_memory = MemSize
    /\ granted = {}
    /\ status = "HN_SUCCEEDED"

\* find_memory found the address of slot i and allocate_memory takes the
\* block from the first slot with that address.
Allocate(n) ==
    \E i \in FirstFit(slots, n) :
      \E k \in FirstAt(slots, slots[i].start) :
        /\ slots[k].size >= n
        /\ slots' = Take(slots, k, n)
        /\ free_memory' = free_memory - n
        /\ granted' = granted \cup {[addr |-> slots[i].start, size |-> n]}
        /\ status' = "HN_SUCCEEDED"

\* find_memory finds no slot.
NotFound(n) ==
    /\ FirstFit(slots, n) = {}
    /\ status' = "HN_NOT_ENOUGH_MEMORY_AVAILABLE"
    /\ UNCHANGED <<slots, free_memory, granted>>

\* find_memory finds an address, but the first slot with that address is not
\* the one it found and is too small: allocate_memory changes nothing.
FoundNotAllocated(n) ==
    \E i \in FirstFit(slots, n) :
      \E k \in FirstAt(slots, slots[i].start) :
        /\ slots[k].size < n
        /\ status' = "ALLOCATE_FAILED"
        /\ UNCHANGED <<slots, free_memory, granted>>

\* A faulty variant: the counter is not incremented.
ReleaseKeepsCounter(b) ==
    /\ b \in granted
    /\ slots' \in Puts(slots, b.addr, b.size)
    /\ granted' = granted \ {b}
    /\ status' = "HN_SUCCEEDED"
    /\ UNCHANGED free_memory

Release(b) ==
    /\ b \in granted
    /\ slots' \in Puts(slots, b.addr, b.size)
    /\ free_memory' = free_memory + b.size
    /\ granted' = granted \ {b}
    /\ status' = "HN_SUCCEEDED"

Next ==
    \/ \E n \in Sizes : Allocate(n) \/ NotFound(n) \/ FoundNotAllocated(n)
    \/ \E b \in granted : Release(b)

Spec == Init /\ [][Next]_vars

-----------------------------------------------------------------------------
\* Types.  The list is never empty (allocate_memory and release_memory
\* dereference first_memory_slot without a test): the first slot is never freed.
TypeOK ==
    /\ slots \in Seq(SlotType(MemSize)) /\ slots # <<>>
    /\ free_memory \in Int
    /\ granted \in SUBSET A!Blocks
    /\ status \in Statuses

\* Every address of the tile is offered by exactly one slot or belongs to
\* exactly one block: nothing is handed out twice and nothing is lost, through
\* every case of splitting, growing, merging and inserting slots.
Partition ==
    \A x \in A!Arena :
      /\ \/ \E i \in DOMAIN slots : x \in Free(slots[i])
         \/ \E b \in granted : x \in A!Extent(b)
      /\ \A i, j \in DOMAIN slots :
           x \in Free(slots[i]) /\ x \in Free(slots[j]) => i = j
      /\ \A b, c \in granted :
           x \in A!Extent(b) /\ x \in A!Extent(c) => b = c
      /\ \A i \in DOMAIN slots, b \in granted :
           ~(x \in Free(slots[i]) /\ x \in A!Extent(b))

\* Partition strengthened to be inductive: the cases of release_memory test
\* end addresses, so these have to agree with the extents of the slots.
IndInv ==
    /\ TypeOK
    /\ \A i \in DOMAIN slots : SlotIn(Base, MemSize, slots[i])
    /\ \A b \in granted : A!Extent(b) \subseteq A!Arena
    /\ Partition

\* The counter get_memory reports is the number of addresses the slots offer,
\* through every split, merge and insertion: the counter is updated in the
\* calls, the slots in the helpers they call.
FreeMemoryExact == free_memory = Cardinality(Offered(slots))

\* The tile implements the abstract arena: a successful allocate_memory grants
\* a block disjoint from every block its callers hold.
ImplementsArena == A!Spec

\* get_free_memory and find_memory "provide a free memory slot of the
\* requested size" (hnemu.h:103, hnemu.h:289): the address they provide can be
\* allocated.
FoundIsAllocatable == status # "ALLOCATE_FAILED"
=============================================================================
