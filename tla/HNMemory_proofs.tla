-------------------------- MODULE HNMemory_proofs ---------------------------
(***************************************************************************)
(* The free list partitions the memory of the tile and implements the      *)
(* abstract arena, for every tile, every set of request sizes and every    *)
(* length of the list.                                                     *)
(***************************************************************************)
EXTENDS HNMemory, HNFreeList_proofs

LEMMA ArenaIsMemory == A!Arena = Memory(Base, MemSize) /\ MemoryFits(Base, MemSize)
  BY MemoryAssumption DEF A!Arena, Memory

-----------------------------------------------------------------------------
(* The inductive invariant.                                                *)

\* The facts about a state that the steps below use.
LEMMA IndInvFacts ==
    ASSUME IndInv
    PROVE  /\ GoodList(Base, MemSize, slots)
           /\ \A b \in granted : b.addr \in A!Arena /\ b.size \in Sizes
           /\ \A x \in A!Arena :
                /\ Single(slots, x)
                /\ Covers(slots, x) \/ \E b \in granted : x \in A!Extent(b)
                /\ \A b \in granted : ~(Covers(slots, x) /\ x \in A!Extent(b))
                /\ \A b, c \in granted : x \in A!Extent(b) /\ x \in A!Extent(c) => b = c
  BY DEF IndInv, TypeOK, Partition, GoodList, Covers, Single, A!Blocks

\* The same facts are enough for the invariant to hold after the step.
LEMMA IndInvFromFacts ==
    ASSUME TypeOK', GoodList(Base, MemSize, slots'),
           \A b \in granted' : A!Extent(b) \subseteq A!Arena,
           \A x \in A!Arena :
                /\ Single(slots', x)
                /\ Covers(slots', x) \/ \E b \in granted' : x \in A!Extent(b)
                /\ \A b \in granted' : ~(Covers(slots', x) /\ x \in A!Extent(b))
                /\ \A b, c \in granted' : x \in A!Extent(b) /\ x \in A!Extent(c) => b = c
    PROVE  IndInv'
  BY DEF IndInv, Partition, GoodList, Covers, Single

LEMMA InitIndInv == Init => IndInv
<1> SUFFICES ASSUME Init PROVE IndInv
  OBVIOUS
<1> USE MemoryAssumption, AddrSpaceAssumption
<1> DEFINE s == Slot(Base, MemSize)
<1>1. GoodSlot(Base, MemSize, s) /\ Free(s) = A!Arena
  BY DEF GoodSlot, SlotType, SlotIn, Slot, Free, A!Arena, Memory, MemoryFits
<1>2. slots = <<s>> /\ granted = {}
  BY DEF Init
<1> HIDE DEF s
<1>3. DOMAIN slots = {1} /\ slots[1] = s /\ slots # <<>> /\ slots \in Seq(SlotType(MemSize))
  BY <1>1, <1>2 DEF GoodSlot
<1>4. TypeOK
  BY <1>2, <1>3 DEF Init, TypeOK, Statuses, MemoryFits
<1> QED BY <1>1, <1>2, <1>3, <1>4 DEF IndInv, Partition, GoodSlot

\* Allocate: the block leaves the list and joins the granted blocks.
LEMMA AllocateStep ==
    ASSUME IndInv, NEW n \in Sizes, Allocate(n)
    PROVE  IndInv'
<1> USE MemoryAssumption, AddrSpaceAssumption
<1>1. PICK k, a :
        /\ k \in DOMAIN slots
        /\ a = slots[k].start /\ slots[k].size >= n
        /\ slots' = Take(slots, k, n)
        /\ free_memory' = free_memory - n
        /\ granted' = granted \cup {[addr |-> a, size |-> n]}
        /\ status' = "HN_SUCCEEDED"
  BY DEF Allocate, FirstAt
<1> DEFINE b == [addr |-> a, size |-> n]
<1>2. /\ GoodList(Base, MemSize, slots')
      /\ \A x \in a .. (a + n - 1) : x \in A!Arena /\ x \in Free(slots[k])
      /\ \A x \in A!Arena : Single(slots, x) =>
           /\ Single(slots', x)
           /\ Covers(slots', x) <=> Covers(slots, x) /\ x \notin a .. (a + n - 1)
  BY <1>1, IndInvFacts, TakeRemovesBlock, ArenaIsMemory
<1>3. A!Extent(b) = a .. (a + n - 1) /\ A!Extent(b) \subseteq A!Arena
  BY <1>2 DEF A!Extent
<1>4. \A x \in A!Extent(b) : Covers(slots, x)
  BY <1>1, <1>2, <1>3 DEF Covers
<1>5. b \in A!Blocks
  <2>1. GoodSlot(Base, MemSize, slots[k]) /\ n \in Nat \ {0}
    BY <1>1, IndInvFacts, GoodSlots
  <2>2. a \in A!Arena
    BY <1>1, <1>2, <2>1 DEF GoodSlot, SlotType
  <2> QED BY <2>2 DEF A!Blocks
<1> HIDE DEF b
<1>6. granted' = granted \cup {b}
  BY <1>1 DEF b
<1>7. TypeOK'
  BY <1>1, <1>2, <1>5, <1>6 DEF IndInv, TypeOK, GoodList, Statuses
<1>8. \A c \in granted' : A!Extent(c) \subseteq A!Arena
  BY <1>3, <1>6 DEF IndInv
<1>9. ASSUME NEW x \in A!Arena
      PROVE  /\ Single(slots', x)
             /\ Covers(slots', x) \/ \E c \in granted' : x \in A!Extent(c)
             /\ \A c \in granted' : ~(Covers(slots', x) /\ x \in A!Extent(c))
             /\ \A c, d \in granted' : x \in A!Extent(c) /\ x \in A!Extent(d) => c = d
  BY <1>2, <1>3, <1>4, <1>6, IndInvFacts
<1> QED BY <1>2, <1>7, <1>8, <1>9, IndInvFromFacts

\* Release: the block leaves the granted blocks and the list offers it again.
LEMMA ReleaseStep ==
    ASSUME IndInv, NEW b \in granted, Release(b)
    PROVE  IndInv'
<1> USE MemoryAssumption, AddrSpaceAssumption
<1> DEFINE a == b.addr
           n == b.size
<1>1. /\ slots' \in Puts(slots, a, n) /\ granted' = granted \ {b}
      /\ free_memory' = free_memory + n /\ status' = "HN_SUCCEEDED"
  BY DEF Release
<1>2. A!Extent(b) = a .. (a + n - 1) /\ A!Extent(b) \subseteq A!Arena
  BY DEF A!Extent, IndInv
<1>3. a \in A!Arena /\ n \in Sizes /\ n \in Nat \ {0}
  BY IndInvFacts
<1>4. GoodBlock(Base, MemSize, a, n)
  <2>1. a + n - 1 \in a .. (a + n - 1)
    BY <1>3 DEF A!Arena, Memory, MemoryFits
  <2> QED BY <1>2, <1>3, <2>1 DEF GoodBlock, A!Arena, Memory, MemoryFits
<1>5. Restores(Base, MemSize, slots, slots', a, n)
  BY <1>1, <1>4, IndInvFacts, PutsRestore
<1>6. TypeOK'
  BY <1>1, <1>3, <1>5 DEF Restores, IndInv, TypeOK, GoodList, Statuses
<1>7. \A c \in granted' : A!Extent(c) \subseteq A!Arena
  BY <1>1 DEF IndInv
<1>8. ASSUME NEW x \in A!Arena
      PROVE  /\ Single(slots', x)
             /\ Covers(slots', x) \/ \E c \in granted' : x \in A!Extent(c)
             /\ \A c \in granted' : ~(Covers(slots', x) /\ x \in A!Extent(c))
             /\ \A c, d \in granted' : x \in A!Extent(c) /\ x \in A!Extent(d) => c = d
  BY <1>1, <1>2, <1>5, IndInvFacts, ArenaIsMemory DEF Restores
<1> QED BY <1>5, <1>6, <1>7, <1>8, IndInvFromFacts DEF Restores

LEMMA NextIndInv == IndInv /\ [Next]_vars => IndInv'
<1> SUFFICES ASSUME IndInv, [Next]_vars PROVE IndInv'
  OBVIOUS
<1>1. ASSUME NEW n \in Sizes, Allocate(n) PROVE IndInv'
  BY <1>1, AllocateStep
<1>2. ASSUME NEW n \in Sizes, NotFound(n) PROVE IndInv'
  BY <1>2 DEF NotFound, IndInv, TypeOK, Partition, Statuses
<1>3. ASSUME NEW n \in Sizes, FoundNotAllocated(n) PROVE IndInv'
  BY <1>3 DEF FoundNotAllocated, IndInv, TypeOK, Partition, Statuses
<1>4. ASSUME NEW b \in granted, Release(b) PROVE IndInv'
  BY <1>4, ReleaseStep
<1>5. CASE UNCHANGED vars
  BY <1>5 DEF vars, IndInv, TypeOK, Partition
<1> QED BY <1>1, <1>2, <1>3, <1>4, <1>5 DEF Next

\* The strengthened invariant holds in every reachable state.
THEOREM Invariance == Spec => []IndInv
<1>1. Init => IndInv
  BY InitIndInv
<1>2. IndInv /\ [Next]_vars => IndInv'
  BY NextIndInv
<1> QED BY <1>1, <1>2, PTL DEF Spec

\* allocate_memory and release_memory keep the list well typed, and never
\* empty.
THEOREM TypeCorrect == Spec => []TypeOK
<1>1. IndInv => TypeOK
  BY DEF IndInv
<1> QED BY <1>1, Invariance, PTL

\* The slots and the blocks handed out partition the memory of the tile in
\* every reachable state: allocate_memory hands no address out twice and
\* release_memory loses none.
THEOREM PartitionHolds == Spec => []Partition
<1>1. IndInv => Partition
  BY DEF IndInv
<1> QED BY <1>1, Invariance, PTL

-----------------------------------------------------------------------------
(* The counter of free bytes.                                              *)

\* Allocate: the slots offer the addresses of the block no more.
LEMMA AllocateCounts ==
    ASSUME IndInv, FreeMemoryExact, NEW n \in Sizes, Allocate(n)
    PROVE  FreeMemoryExact'
<1>1. PICK k :
        /\ k \in DOMAIN slots /\ slots[k].size >= n
        /\ slots' = Take(slots, k, n)
        /\ free_memory' = free_memory - n
  BY DEF Allocate, FirstAt
<1>2. PICK a : a = slots[k].start
  OBVIOUS
<1>3. n \in Nat \ {0} /\ MemoryFits(Base, MemSize) /\ A!Arena = Memory(Base, MemSize)
  BY MemoryAssumption, ArenaIsMemory
<1>4. /\ GoodList(Base, MemSize, slots')
      /\ \A x \in a .. (a + n - 1) : x \in Memory(Base, MemSize) /\ x \in Free(slots[k])
      /\ \A x \in Memory(Base, MemSize) : Single(slots, x) =>
           /\ Single(slots', x)
           /\ Covers(slots', x) <=> Covers(slots, x) /\ x \notin a .. (a + n - 1)
  BY <1>1, <1>2, <1>3, IndInvFacts, TakeRemovesBlock
<1>5. GoodBlock(Base, MemSize, a, n)
  <2>1. GoodSlot(Base, MemSize, slots[k])
    BY <1>1, <1>3, IndInvFacts, GoodSlots
  <2>2. a \in Nat
    BY <1>2, <2>1 DEF GoodSlot, SlotType
  <2>3. a \in a .. (a + n - 1) /\ a + n - 1 \in a .. (a + n - 1)
    BY <1>3, <2>2
  <2>4. a \in Memory(Base, MemSize) /\ a + n - 1 \in Memory(Base, MemSize)
    BY <1>4, <2>3
  <2> QED BY <1>3, <2>2, <2>4 DEF GoodBlock, Memory, MemoryFits
<1>6. \A x \in a .. (a + n - 1) : x \in Memory(Base, MemSize) /\ Covers(slots, x)
  BY <1>1, <1>4 DEF Covers
<1>7. \A x \in Memory(Base, MemSize) :
        Covers(slots', x) <=> Covers(slots, x) /\ x \notin a .. (a + n - 1)
  BY <1>3, <1>4, IndInvFacts
<1>8. Cardinality(Offered(slots')) = Cardinality(Offered(slots)) - n
  BY <1>3, <1>4, <1>5, <1>6, <1>7, IndInvFacts, BlockCounts
<1> QED BY <1>1, <1>8 DEF FreeMemoryExact

\* Release: the slots offer the addresses of the block again.
LEMMA ReleaseCounts ==
    ASSUME IndInv, FreeMemoryExact, NEW b \in granted, Release(b)
    PROVE  FreeMemoryExact'
<1>1. PICK a, n : a = b.addr /\ n = b.size
  OBVIOUS
<1>2. /\ slots' \in Puts(slots, a, n)
      /\ free_memory' = free_memory + n
  BY <1>1 DEF Release
<1>3. MemoryFits(Base, MemSize) /\ A!Arena = Memory(Base, MemSize)
  BY ArenaIsMemory
<1>4. A!Extent(b) = a .. (a + n - 1) /\ A!Extent(b) \subseteq Memory(Base, MemSize)
  BY <1>1, <1>3 DEF A!Extent, IndInv
<1>5. a \in Memory(Base, MemSize) /\ n \in Nat \ {0}
  BY <1>1, <1>3, IndInvFacts, MemoryAssumption
<1>6. GoodBlock(Base, MemSize, a, n)
  <2>1. a + n - 1 \in a .. (a + n - 1)
    BY <1>3, <1>5 DEF Memory, MemoryFits
  <2> QED BY <1>3, <1>4, <1>5, <2>1 DEF GoodBlock, Memory, MemoryFits
<1>7. Restores(Base, MemSize, slots, slots', a, n)
  BY <1>2, <1>3, <1>6, IndInvFacts, PutsRestore
<1>8. \A x \in Memory(Base, MemSize) :
        Single(slots, x) /\ ~(Covers(slots, x) /\ x \in a .. (a + n - 1))
  BY <1>3, <1>4, IndInvFacts
<1>9. /\ GoodList(Base, MemSize, slots')
      /\ \A x \in Memory(Base, MemSize) :
           Covers(slots', x) <=> Covers(slots, x) \/ x \in a .. (a + n - 1)
  BY <1>7, <1>8 DEF Restores
<1>10. /\ \A x \in a .. (a + n - 1) : x \in Memory(Base, MemSize) /\ Covers(slots', x)
       /\ \A x \in Memory(Base, MemSize) :
            Covers(slots, x) <=> Covers(slots', x) /\ x \notin a .. (a + n - 1)
  BY <1>4, <1>8, <1>9
<1>11. Cardinality(Offered(slots)) = Cardinality(Offered(slots')) - n
  BY <1>3, <1>6, <1>9, <1>10, IndInvFacts, BlockCounts
<1>12. Cardinality(Offered(slots')) \in Int
  BY <1>3, <1>9, OfferedFinite, FS_CardinalityType
<1> QED BY <1>2, <1>5, <1>11, <1>12 DEF FreeMemoryExact

\* At first one slot offers the whole memory.
LEMMA InitCounts == Init => FreeMemoryExact
<1> SUFFICES ASSUME Init PROVE FreeMemoryExact
  OBVIOUS
<1>1. slots = <<Slot(Base, MemSize)>> /\ free_memory = MemSize
  BY DEF Init
<1>2. Offered(slots) = Base .. (Base + MemSize - 1)
  <2>1. DOMAIN slots = {1} /\ slots[1] = Slot(Base, MemSize)
    BY <1>1
  <2>2. Offered(slots) = Free(Slot(Base, MemSize))
    BY <2>1 DEF Offered
  <2> QED BY <2>2 DEF Free, Slot
<1>3. GoodBlock(Base, MemSize, Base, MemSize) /\ MemoryFits(Base, MemSize)
  BY MemoryAssumption, AddrSpaceAssumption DEF GoodBlock, Memory, MemoryFits
<1> QED BY <1>1, <1>2, <1>3, BlockSize DEF FreeMemoryExact

\* The counter that get_memory reports is exact in every reachable state: a
\* call changes it by the size of its block, and the slots by its addresses.
THEOREM CounterExact == Spec => []FreeMemoryExact
<1>1. Init => FreeMemoryExact
  BY InitCounts
<1>2. IndInv /\ FreeMemoryExact /\ [Next]_vars => FreeMemoryExact'
  <2> SUFFICES ASSUME IndInv, FreeMemoryExact, [Next]_vars PROVE FreeMemoryExact'
    OBVIOUS
  <2>1. ASSUME NEW n \in Sizes, Allocate(n) PROVE FreeMemoryExact'
    BY <2>1, AllocateCounts
  <2>2. ASSUME NEW n \in Sizes, NotFound(n) \/ FoundNotAllocated(n) PROVE FreeMemoryExact'
    BY <2>2 DEF NotFound, FoundNotAllocated, FreeMemoryExact
  <2>3. ASSUME NEW b \in granted, Release(b) PROVE FreeMemoryExact'
    BY <2>3, ReleaseCounts
  <2>4. CASE UNCHANGED vars
    BY <2>4 DEF vars, FreeMemoryExact
  <2> QED BY <2>1, <2>2, <2>3, <2>4 DEF Next
<1> QED BY <1>1, <1>2, Invariance, PTL DEF Spec

-----------------------------------------------------------------------------
(* The abstract arena.                                                     *)

\* Each call of the tile is a step of the abstract arena, or a stuttering one.
THEOREM TileImplementsArena == Spec => ImplementsArena
<1>1. Init => A!Init
  BY DEF Init, A!Init
<1>2. IndInv /\ IndInv' /\ [Next]_vars => [A!Next]_granted
  <2> SUFFICES ASSUME IndInv, IndInv', [Next]_vars PROVE [A!Next]_granted
    OBVIOUS
  <2>1. ASSUME NEW n \in Sizes, Allocate(n) PROVE A!Next \/ granted' = granted
    <3>1. PICK b : granted' = granted \cup {b}
      BY <2>1 DEF Allocate
    <3>2. CASE b \in granted
      BY <3>1, <3>2
    <3>3. CASE b \notin granted
      <4>1. b \in A!Blocks /\ A!Extent(b) \subseteq A!Arena
        BY <3>1 DEF IndInv, TypeOK
      <4>2. \A g \in granted : A!Extent(b) \cap A!Extent(g) = {}
        BY <3>1, <3>3, <4>1 DEF IndInv, Partition
      <4> QED BY <3>1, <4>1, <4>2 DEF A!Next, A!Grant
    <3> QED BY <3>2, <3>3
  <2>2. ASSUME NEW n \in Sizes, NotFound(n) \/ FoundNotAllocated(n)
        PROVE  granted' = granted
    BY <2>2 DEF NotFound, FoundNotAllocated
  <2>3. ASSUME NEW b \in granted, Release(b) PROVE A!Next
    <3>1. b \in A!Blocks /\ A!Return(b)
      BY <2>3 DEF Release, A!Return, IndInv, TypeOK
    <3> QED BY <3>1 DEF A!Next
  <2>4. CASE UNCHANGED vars
    BY <2>4 DEF vars
  <2> QED BY <2>1, <2>2, <2>3, <2>4 DEF Next
<1> QED BY <1>1, <1>2, Invariance, PTL DEF Spec, ImplementsArena, A!Spec
=============================================================================
