-------------------------- MODULE GNManager_proofs --------------------------
(***************************************************************************)
(* Proofs about GNManager, for clients that look at exit codes: kernels    *)
(* use tiles as HNUnits says, events have registers of their own, and      *)
(* device memory is shared out between registers, buffers and free lists.  *)
(***************************************************************************)
EXTENDS GNManager, HNFreeList_proofs, FiniteSetTheorems, TLAPS

-----------------------------------------------------------------------------
(* Tiles.                                                                  *)

LEMMA TilesFinite == IsFiniteSet(U!Tiles)
<1>1. IsFiniteSet(0 .. Cols - 1) /\ IsFiniteSet(0 .. Rows - 1)
  BY FS_Interval, GridAssumption
<1> QED BY <1>1, FS_Product DEF U!Tiles

\* What find_units_set finds for one kernel is one tile that is not reserved.
LEMMA FoundOneTile ==
    ASSUME NEW S \in U!Found(1)
    PROVE  \E t \in U!Tiles \ assigned : S = {t}
<1>0. \A T : U!Cardinality(T) = Cardinality(T)
  BY DEF U!Cardinality, Cardinality, U!IsFiniteSet, IsFiniteSet
<1>1. PICK m \in MemTiles \ assigned : S = U!Near(m, 1) /\ Cardinality(S) = 1
  BY <1>0 DEF U!Found, U!Candidates
<1>2. S \subseteq U!Tiles \ assigned
  BY <1>1 DEF U!Near, U!FirstVisited, U!Searched
<1>3. IsFiniteSet(S)
  BY <1>2, TilesFinite, FS_Subset
<1>4. \E t : S = {t}
  BY <1>1, <1>3, FS_Singleton
<1> QED BY <1>2, <1>4

TilesTyped == DOMAIN kernel_tile = Kernels

LEMMA AllocateKernelUnits ==
    ASSUME ChecksExitCodes, TilesTyped, NEW k \in Kernels, AllocateKernel(k)
    PROVE  TilesTyped' /\ (U!Allocate(k, 1) \/ UNCHANGED <<assigned, cut, Held>>)
<1>1. CASE U!Found(1) = {} /\ TakesForAllocated(k, FALSE)
           /\ UNCHANGED <<assigned, cut, kernel_tile>>
  BY <1>1 DEF TakesForAllocated, Held, TilesTyped
<1>2. ASSUME NEW S \in U!Found(1), NEW t \in S,
             U!ReserveSet(S), kernel_tile' = [kernel_tile EXCEPT ![k] = t],
             TakesForAllocated(k, TRUE)
      PROVE  TilesTyped' /\ U!Allocate(k, 1)
  <2>1. S = {t}
    BY FoundOneTile
  <2>2. k \notin mine /\ mine' = mine \cup {k}
    BY <1>2 DEF TakesForAllocated, AllocateKernel
  <2>3. Held[k] = {}
    BY <2>2 DEF Held
  <2>4. Held' = [Held EXCEPT ![k] = S]
    BY <1>2, <2>1, <2>2 DEF Held, TilesTyped
  <2> QED BY <1>2, <2>3, <2>4 DEF U!Allocate, TilesTyped
<1> QED BY <1>1, <1>2 DEF AllocateKernel

LEMMA ReleaseKernelUnits ==
    ASSUME TilesTyped, NEW k \in Kernels, ReleaseKernel(k)
    PROVE  TilesTyped' /\ U!Release(k)
<1>1. k \in mine /\ mine' = mine \ {k} /\ U!ReleaseSet({kernel_tile[k]})
      /\ kernel_tile' = [kernel_tile EXCEPT ![k] = Tile0]
  BY DEF ReleaseKernel
<1>2. Held[k] = {kernel_tile[k]}
  BY <1>1 DEF Held
<1>3. Held' = [Held EXCEPT ![k] = {}]
  BY <1>1 DEF Held, TilesTyped
<1> QED BY <1>1, <1>2, <1>3 DEF U!Release, TilesTyped

\* The other calls leave the tiles alone.
LEMMA OtherCallsUnits ==
    ASSUME ChecksExitCodes, TilesTyped,
           \/ \E e \in Events :
                \/ AllocateEvent(e) \/ ReleaseEvent(e) \/ ReadSyncRegister(e)
                \/ \E v \in Values : WriteSyncRegister(e, v)
           \/ \E b \in Buffers : AllocateMemory(b) \/ ReleaseMemory(b)
    PROVE  TilesTyped' /\ UNCHANGED <<assigned, cut, Held>>
<1>1. UNCHANGED <<assigned, cut, kernel_tile>>
  BY DEF AllocateEvent, ReleaseEvent, ReadSyncRegister, WriteSyncRegister,
         AllocateMemory, ReleaseMemory
<1>2. \A k \in Kernels : k \in mine' <=> k \in mine
  BY KindsAssumption
     DEF AllocateEvent, ReleaseEvent, ReadSyncRegister, WriteSyncRegister,
         AllocateMemory, ReleaseMemory, TakesForAllocated
<1> QED BY <1>1, <1>2 DEF Held, TilesTyped

LEMMA StepUnits ==
    ASSUME ChecksExitCodes, TilesTyped, [Next]_vars
    PROVE  TilesTyped' /\ [U!Next]_(U!unitVars)
<1>1. ASSUME NEW k \in Kernels, AllocateKernel(k)
      PROVE  TilesTyped' /\ [U!Next]_(U!unitVars)
  BY <1>1, AllocateKernelUnits DEF U!Next, U!unitVars
<1>2. ASSUME NEW k \in Kernels, ReleaseKernel(k)
      PROVE  TilesTyped' /\ [U!Next]_(U!unitVars)
  BY <1>2, ReleaseKernelUnits DEF U!Next
<1>3. CASE UNCHANGED vars
  BY <1>3 DEF vars, TilesTyped, Held, U!unitVars
<1> QED BY <1>1, <1>2, <1>3, OtherCallsUnits DEF Next, U!unitVars

\* Kernels take tiles and give them back as the users of HNUnits do, who ask for
\* one tile at a time: its theorems hold of the tiles of GNManager.
THEOREM KernelsUseUnits == ChecksExitCodes => (Spec => ImplementsUnits)
<1> SUFFICES ASSUME ChecksExitCodes PROVE Spec => ImplementsUnits
  OBVIOUS
<1>1. Init => TilesTyped /\ U!Init
  BY DEF Init, TilesTyped, U!Init, Held
<1>2. TilesTyped /\ [Next]_vars => TilesTyped' /\ [U!Next]_(U!unitVars)
  BY StepUnits
<1> QED BY <1>1, <1>2, PTL DEF Spec, ImplementsUnits, U!Spec

\* What is inductive about the tiles of kernels.
TilesInv == kernel_tile \in [Kernels -> U!Tiles] /\ KernelTilesApart

\* The rectangle around one tile is that tile.
LEMMA BoxOfTile ==
    ASSUME NEW t \in U!Tiles
    PROVE  U!Box({t}) = {t}
<1>1. \A u \in U!Tiles : u = <<u[1], u[2]>> /\ u[1] \in Int /\ u[2] \in Int
  BY GridAssumption DEF U!Tiles
<1>2. ASSUME NEW u \in U!Box({t}) PROVE u = t
  <2>1. u \in U!Tiles /\ t[1] <= u[1] /\ u[1] <= t[1] /\ t[2] <= u[2] /\ u[2] <= t[2]
    BY DEF U!Box
  <2> QED BY <2>1, <1>1
<1>3. t \in U!Box({t})
  BY <1>1 DEF U!Box
<1> QED BY <1>2, <1>3

LEMMA AllocateKernelApart ==
    ASSUME ChecksExitCodes, TilesInv, NEW k \in Kernels, AllocateKernel(k)
    PROVE  TilesInv'
<1>1. CASE TakesForAllocated(k, FALSE) /\ UNCHANGED <<assigned, cut, kernel_tile>>
  BY <1>1 DEF TakesForAllocated, TilesInv, KernelTilesApart
<1>2. ASSUME NEW S \in U!Found(1), NEW t \in S,
             U!ReserveSet(S), kernel_tile' = [kernel_tile EXCEPT ![k] = t],
             TakesForAllocated(k, TRUE)
      PROVE  TilesInv'
  <2>1. S = {t}
    BY FoundOneTile
  <2>2. t \in U!Tiles /\ t \notin assigned
    BY FoundOneTile
  <2>3. assigned' = assigned \cup {t}
    BY <1>2, <2>1, <2>2, BoxOfTile DEF U!ReserveSet
  <2>4. k \notin mine /\ mine' = mine \cup {k}
    BY <1>2 DEF TakesForAllocated, AllocateKernel
  <2>5. \A j \in Kernels : kernel_tile'[j] = IF j = k THEN t ELSE kernel_tile[j]
    BY <1>2 DEF TilesInv
  <2>6. kernel_tile' \in [Kernels -> U!Tiles]
    BY <1>2, <2>2 DEF TilesInv
  <2> QED BY <2>2, <2>3, <2>4, <2>5, <2>6 DEF TilesInv, KernelTilesApart
<1> QED BY <1>1, <1>2 DEF AllocateKernel

LEMMA ReleaseKernelApart ==
    ASSUME TilesInv, NEW k \in Kernels, ReleaseKernel(k)
    PROVE  TilesInv'
<1>1. k \in mine /\ mine' = mine \ {k} /\ U!ReleaseSet({kernel_tile[k]})
      /\ kernel_tile' = [kernel_tile EXCEPT ![k] = Tile0]
  BY DEF ReleaseKernel
<1>2. assigned' = assigned \ {kernel_tile[k]}
  BY <1>1, BoxOfTile DEF U!ReleaseSet, TilesInv
<1>3. \A j \in Kernels : kernel_tile'[j] = IF j = k THEN Tile0 ELSE kernel_tile[j]
  BY <1>1 DEF TilesInv
<1>4. kernel_tile' \in [Kernels -> U!Tiles]
  BY <1>1, ManagerAssumption DEF TilesInv
<1> QED BY <1>1, <1>2, <1>3, <1>4 DEF TilesInv, KernelTilesApart

LEMMA OtherCallsApart ==
    ASSUME ChecksExitCodes, TilesInv,
           \/ \E e \in Events :
                \/ AllocateEvent(e) \/ ReleaseEvent(e) \/ ReadSyncRegister(e)
                \/ \E v \in Values : WriteSyncRegister(e, v)
           \/ \E b \in Buffers : AllocateMemory(b) \/ ReleaseMemory(b)
    PROVE  TilesInv'
<1>1. UNCHANGED <<assigned, cut, kernel_tile>>
  BY DEF AllocateEvent, ReleaseEvent, ReadSyncRegister, WriteSyncRegister,
         AllocateMemory, ReleaseMemory
<1>2. \A k \in Kernels : k \in mine' <=> k \in mine
  BY KindsAssumption
     DEF AllocateEvent, ReleaseEvent, ReadSyncRegister, WriteSyncRegister,
         AllocateMemory, ReleaseMemory, TakesForAllocated
<1>3. (Kernels \cap mine)' = Kernels \cap mine
  BY <1>2
<1> QED BY <1>1, <1>3 DEF TilesInv, KernelTilesApart

LEMMA StepTiles == ASSUME ChecksExitCodes, TilesInv, [Next]_vars PROVE TilesInv'
<1>1. CASE UNCHANGED vars
  BY <1>1 DEF vars, TilesInv, KernelTilesApart
<1> QED BY <1>1, AllocateKernelApart, ReleaseKernelApart, OtherCallsApart DEF Next

\* KernelTilesApart: no tile is given to two kernels, and exactly the tiles of the
\* kernels held are reserved, however many kernels and tiles there are.
THEOREM KernelTilesStayApart == ChecksExitCodes => (Spec => []KernelTilesApart)
<1> SUFFICES ASSUME ChecksExitCodes PROVE Spec => []KernelTilesApart
  OBVIOUS
<1>1. Init => TilesInv
  BY ManagerAssumption DEF Init, TilesInv, KernelTilesApart
<1>2. TilesInv /\ [Next]_vars => TilesInv'
  BY StepTiles
<1>3. TilesInv => KernelTilesApart
  BY DEF TilesInv
<1> QED BY <1>1, <1>2, <1>3, PTL DEF Spec

-----------------------------------------------------------------------------
(* Events.                                                                 *)

LEMMA AllocateEventInv ==
    ASSUME ChecksExitCodes, EventInv, NEW e \in Events, AllocateEvent(e)
    PROVE  EventInv'
<1>1. e \notin mine
  BY DEF AllocateEvent
<1>2. CASE UNCHANGED <<reg_in_use, event_reg, reg, clean, mine>>
  BY <1>2 DEF EventInv, EventRegisters, EventsApart, CleanIsEmpty
<1>3. ASSUME NEW r \in Registers \ reg_in_use,
             reg_in_use' = reg_in_use \cup {r},
             event_reg' = [event_reg EXCEPT ![e] = r],
             reg' = [reg EXCEPT ![r] = 0],
             mine' = mine \cup {e}, clean' = clean \cup {e}
      PROVE  EventInv'
  <2>1. \A f \in Events : event_reg'[f] = IF f = e THEN r ELSE event_reg[f]
    BY <1>3 DEF EventInv, EventRegisters
  <2>2. \A f \in Events \cap mine : event_reg[f] \in reg_in_use
    BY DEF EventInv, EventsApart
  <2>3. EventRegisters'
    BY <1>3, <2>1 DEF EventInv, EventRegisters
  <2>4. EventsApart'
    BY <1>1, <1>3, <2>1, <2>2 DEF EventInv, EventsApart
  <2>5. CleanIsEmpty'
    BY <1>1, <1>3, <2>1, <2>2 DEF EventInv, EventRegisters, CleanIsEmpty
  <2> QED BY <2>3, <2>4, <2>5 DEF EventInv
<1> QED BY <1>2, <1>3 DEF AllocateEvent, TakesForAllocated

LEMMA ReleaseEventInv ==
    ASSUME EventInv, NEW e \in Events, ReleaseEvent(e)
    PROVE  EventInv'
<1>1. /\ e \in mine /\ reg_in_use' = reg_in_use \ {event_reg[e]}
      /\ event_reg' = [event_reg EXCEPT ![e] = 0] /\ reg' = reg
      /\ mine' = mine \ {e} /\ clean' = clean \ {e}
  BY DEF ReleaseEvent
<1>2. \A f \in Events : event_reg'[f] = IF f = e THEN 0 ELSE event_reg[f]
  BY <1>1 DEF EventInv, EventRegisters
<1>3. EventRegisters'
  BY <1>1, <1>2 DEF EventInv, EventRegisters
<1>4. EventsApart'
  BY <1>1, <1>2 DEF EventInv, EventsApart
<1>5. CleanIsEmpty'
  BY <1>1, <1>2 DEF EventInv, CleanIsEmpty
<1> QED BY <1>3, <1>4, <1>5 DEF EventInv

\* A register whose event is not known to be empty may take any value.
LEMMA RegisterChanged ==
    ASSUME EventInv, NEW e \in Events \cap mine, NEW v,
           reg' = [reg EXCEPT ![event_reg[e]] = v],
           clean' \subseteq clean \cup {e}, e \in clean' => v = 0,
           UNCHANGED <<event_reg, reg_in_use>>,
           Events \cap mine' = Events \cap mine
    PROVE  EventInv'
<1>1. \A f \in Events \cap mine : f # e => event_reg[f] # event_reg[e]
  BY DEF EventInv, EventsApart
<1>2. EventRegisters'
  BY DEF EventInv, EventRegisters
<1>3. EventsApart'
  BY DEF EventInv, EventsApart
<1>4. CleanIsEmpty'
  BY <1>1 DEF EventInv, EventRegisters, CleanIsEmpty
<1> QED BY <1>2, <1>3, <1>4 DEF EventInv

LEMMA SyncRegisterInv ==
    ASSUME EventInv, NEW e \in Events,
           ReadSyncRegister(e) \/ \E v \in Values : WriteSyncRegister(e, v)
    PROVE  EventInv'
<1>1. CASE ReadSyncRegister(e)
  BY <1>1, RegisterChanged DEF ReadSyncRegister
<1>2. ASSUME NEW v \in Values, WriteSyncRegister(e, v) PROVE EventInv'
  BY <1>2, RegisterChanged DEF WriteSyncRegister
<1> QED BY <1>1, <1>2

\* A call about a kernel, and one about a buffer that fails, leave events alone.
LEMMA EventsUnchanged ==
    ASSUME EventInv, UNCHANGED <<event_reg, reg_in_use, reg, clean>>,
           Events \cap mine' = Events \cap mine
    PROVE  EventInv'
  BY DEF EventInv, EventRegisters, EventsApart, CleanIsEmpty

LEMMA KernelCallInv ==
    ASSUME ChecksExitCodes, EventInv, NEW k \in Kernels,
           AllocateKernel(k) \/ ReleaseKernel(k)
    PROVE  EventInv'
<1>1. UNCHANGED <<event_reg, reg_in_use, reg, clean>>
  BY DEF AllocateKernel, ReleaseKernel
<1>2. Events \cap mine' = Events \cap mine
  BY KindsAssumption DEF AllocateKernel, ReleaseKernel, TakesForAllocated
<1> QED BY <1>1, <1>2, EventsUnchanged

LEMMA AllocateMemoryInv ==
    ASSUME ChecksExitCodes, EventInv, NEW b \in Buffers, AllocateMemory(b)
    PROVE  EventInv'
<1> DEFINE e == BufferEvent[b]
<1>1. e \in Events /\ e \in mine
  BY ManagerAssumption DEF AllocateMemory
<1>2. Events \cap mine' = Events \cap mine
  BY KindsAssumption DEF AllocateMemory, TakesForAllocated
<1>3. UNCHANGED <<event_reg, reg_in_use>>
  BY DEF AllocateMemory
<1>4. CASE UNCHANGED <<reg, clean>>
  BY <1>2, <1>3, <1>4, EventsUnchanged
<1>5. CASE PrepareEvent(b) /\ clean' = clean \ {e}
  <2>1. PICK v : reg' = [reg EXCEPT ![event_reg[e]] = v]
    BY <1>5 DEF PrepareEvent
  <2> QED BY <1>1, <1>2, <1>3, <1>5, <2>1, RegisterChanged
<1> QED BY <1>4, <1>5 DEF AllocateMemory

LEMMA ReleaseMemoryInv ==
    ASSUME EventInv, NEW b \in Buffers, ReleaseMemory(b)
    PROVE  EventInv'
<1>1. Events \cap mine' = Events \cap mine
  BY KindsAssumption DEF ReleaseMemory
<1> QED BY <1>1, EventsUnchanged DEF ReleaseMemory

LEMMA StepEvents == ASSUME ChecksExitCodes, EventInv, [Next]_vars PROVE EventInv'
<1>1. CASE UNCHANGED vars
  BY <1>1, EventsUnchanged DEF vars
<1> QED
  BY <1>1, KernelCallInv, AllocateEventInv, ReleaseEventInv, SyncRegisterInv,
     AllocateMemoryInv, ReleaseMemoryInv DEF Next

LEMMA InitEvents == Init => EventInv
  BY DEF Init, EventInv, EventRegisters, EventsApart, CleanIsEmpty

\* EventsApart: an event has a register of its own, and a register is in use only
\* for one, however events come and go and however few registers there are.
THEOREM EventsStayApart == ChecksExitCodes => (Spec => []EventsApart)
<1> SUFFICES ASSUME ChecksExitCodes PROVE Spec => []EventsApart
  OBVIOUS
<1>1. EventInv /\ [Next]_vars => EventInv'
  BY StepEvents
<1>2. EventInv => EventsApart
  BY DEF EventInv
<1> QED BY InitEvents, <1>1, <1>2, PTL DEF Spec

\* The assertion fails only on a register that is not 0.
LEMMA AssertionHolds ==
    ASSUME ChecksExitCodes, DrainsEvents, EventInv, NeverAborts, [Next]_vars
    PROVE  NeverAborts'
<1>1. ASSUME NEW b \in Buffers, AllocateMemory(b) PROVE NeverAborts'
  <2>1. BufferEvent[b] \in clean
    BY <1>1 DEF AllocateMemory
  <2>2. reg[event_reg[BufferEvent[b]]] = 0
    BY <2>1 DEF EventInv, CleanIsEmpty
  <2>3. (aborted' = aborted) \/ PrepareEvent(b)
    BY <1>1 DEF AllocateMemory
  <2> QED BY <2>2, <2>3 DEF NeverAborts, PrepareEvent
<1>2. ASSUME NEW b \in Buffers, ReleaseMemory(b) PROVE NeverAborts'
  BY <1>2 DEF ReleaseMemory, NeverAborts
<1>3. ASSUME NEW k \in Kernels, AllocateKernel(k) \/ ReleaseKernel(k)
      PROVE  NeverAborts'
  BY <1>3 DEF AllocateKernel, ReleaseKernel, NeverAborts
<1>4. ASSUME NEW e \in Events,
             \/ AllocateEvent(e) \/ ReleaseEvent(e) \/ ReadSyncRegister(e)
             \/ \E v \in Values : WriteSyncRegister(e, v)
      PROVE  NeverAborts'
  BY <1>4 DEF AllocateEvent, ReleaseEvent, ReadSyncRegister, WriteSyncRegister,
             NeverAborts
<1>5. CASE UNCHANGED vars
  BY <1>5 DEF vars, NeverAborts
<1> QED BY <1>1, <1>2, <1>3, <1>4, <1>5 DEF Next

\* NeverAborts: a client that reads the event of a buffer before it allocates the
\* buffer never meets assert(0 == value) of allocate_memory.
THEOREM DrainedEventsNeverAbort ==
    ChecksExitCodes /\ DrainsEvents => (Spec => []NeverAborts)
<1> SUFFICES ASSUME ChecksExitCodes, DrainsEvents PROVE Spec => []NeverAborts
  OBVIOUS
<1>1. EventInv /\ [Next]_vars => EventInv'
  BY StepEvents
<1>2. EventInv /\ NeverAborts /\ [Next]_vars => NeverAborts'
  BY AssertionHolds
<1>3. Init => NeverAborts
  BY DEF Init, NeverAborts
<1> QED BY InitEvents, <1>1, <1>2, <1>3, PTL DEF Spec

-----------------------------------------------------------------------------
(* Device memory.                                                          *)

MemoryOf(m) == Memory(MemBase[m], MemSize)

\* An address nobody has been given.
Unowned(x) ==
    x \notin RegisterMemory /\ \A b \in Buffers \cap mine : x \notin BufferMemory(b)

ListsTyped == lists \in [MemTiles -> Seq(SlotType(MemSize)) \ {<<>>}]

BuffersTyped == buffer_at \in [Buffers -> [tile : MemTiles, addr : 0 .. AddrSpace - 1]]

\* Each list offers, once, the addresses of its memory that nobody owns.
ListsExact ==
    \A m \in MemTiles :
      /\ GoodList(MemBase[m], MemSize, lists[m])
      /\ \A x \in MemoryOf(m) :
           Single(lists[m], x) /\ (Covers(lists[m], x) <=> Unowned(x))

\* A buffer lies in the memory of its tile, and shares no address.
BuffersApart ==
    \A b \in Buffers \cap mine :
      /\ BufferMemory(b) \subseteq MemoryOf(buffer_at[b].tile)
      /\ \A x \in BufferMemory(b) :
           /\ x \notin RegisterMemory
           /\ \A c \in Buffers \cap mine : c # b => x \notin BufferMemory(c)

\* What is inductive about memory.
MemInv == ListsTyped /\ BuffersTyped /\ ListsExact /\ BuffersApart

LEMMA MemoryFacts ==
    /\ \A m \in MemTiles : MemoryFits(MemBase[m], MemSize) /\ MemBase[m] \in Nat
    /\ MemSize \in Nat \ {0} /\ RegBlock \in Nat \ {0} /\ RegBlock <= MemSize
    /\ \A b \in Buffers : BufferSize[b] \in Nat \ {0}
    /\ Tile0 \in MemTiles
  BY ManagerAssumption DEF MemoryFits

\* The registers lie in the memory of tile 0.
LEMMA RegistersInMemory == RegisterMemory \subseteq MemoryOf(Tile0)
  BY MemoryFacts DEF RegisterMemory, MemoryOf, Memory

\* A list of one slot, all of the memory.
LEMMA WholeMemory ==
    ASSUME NEW m \in MemTiles, NEW list, list = <<Slot(MemBase[m], MemSize)>>
    PROVE  /\ GoodList(MemBase[m], MemSize, list)
           /\ \A x \in MemoryOf(m) : Single(list, x) /\ Covers(list, x)
           /\ 1 \in DOMAIN list /\ list[1].start = MemBase[m] /\ list[1].size = MemSize
<1> DEFINE s == Slot(MemBase[m], MemSize)
<1>1. GoodSlot(MemBase[m], MemSize, s) /\ Free(s) = MemoryOf(m)
  BY MemoryFacts, AddrSpaceAssumption
     DEF MemoryFits, GoodSlot, SlotType, SlotIn, Slot, Free, Memory, MemoryOf
<1>2. s.start = MemBase[m] /\ s.size = MemSize
  BY DEF Slot
<1> HIDE DEF s
<1>3. list = <<s>> /\ DOMAIN list = {1} /\ list[1] = s /\ list # <<>>
      /\ list \in Seq(SlotType(MemSize))
  BY <1>1 DEF s, GoodSlot
<1> QED BY <1>1, <1>2, <1>3 DEF GoodList, GoodSlot, Single, Covers

LEMMA InitMemory == Init => MemInv
<1> SUFFICES ASSUME Init PROVE MemInv
  OBVIOUS
<1>1. mine = {} /\ buffer_at = [b \in Buffers |-> [tile |-> Tile0, addr |-> 0]]
  BY DEF Init
<1>2. BuffersTyped
  BY <1>1, MemoryFacts, AddrSpaceAssumption DEF BuffersTyped
<1>3. BuffersApart
  BY <1>1 DEF BuffersApart
<1>4. ASSUME NEW m \in MemTiles
      PROVE  /\ GoodList(MemBase[m], MemSize, lists[m])
             /\ \A x \in MemoryOf(m) :
                  Single(lists[m], x) /\ (Covers(lists[m], x) <=> x \notin RegisterMemory)
  <2>1. PICK list : list = <<Slot(MemBase[m], MemSize)>>
    OBVIOUS
  <2>2. /\ GoodList(MemBase[m], MemSize, list)
        /\ \A x \in MemoryOf(m) : Single(list, x) /\ Covers(list, x)
        /\ 1 \in DOMAIN list /\ list[1].start = MemBase[m] /\ list[1].size = MemSize
    BY <2>1, WholeMemory
  <2>3. CASE m = Tile0
    <3>1. lists[m] = Take(list, 1, RegBlock)
      BY <2>1, <2>3 DEF Init
    <3>2. /\ GoodList(MemBase[m], MemSize, lists[m])
          /\ \A x \in Memory(MemBase[m], MemSize) : Single(list, x) =>
               /\ Single(lists[m], x)
               /\ Covers(lists[m], x) <=> Covers(list, x)
                    /\ x \notin MemBase[m] .. (MemBase[m] + RegBlock - 1)
      BY <2>2, <3>1, MemoryFacts, TakeRemovesBlock
    <3> QED BY <2>2, <2>3, <3>2 DEF MemoryOf, RegisterMemory
  <2>4. CASE m # Tile0
    <3>1. lists[m] = list
      BY <2>1, <2>4 DEF Init
    <3>2. \A x \in MemoryOf(m) : x \notin RegisterMemory
      BY <2>4, MemoryFacts, MemoriesApart, RegistersInMemory DEF MemoryOf
    <3> QED BY <2>2, <3>1, <3>2
  <2> QED BY <2>3, <2>4
<1>5. ListsExact
  BY <1>1, <1>4 DEF ListsExact, Unowned
<1>6. ListsTyped
  <2>1. \A m \in MemTiles : lists[m] \in Seq(SlotType(MemSize)) \ {<<>>}
    BY <1>4 DEF GoodList
  <2>2. lists = [m \in MemTiles |-> lists[m]]
    BY DEF Init
  <2> QED BY <2>1, <2>2 DEF ListsTyped
<1> QED BY <1>2, <1>3, <1>5, <1>6 DEF MemInv

\* A call that leaves lists and the live buffers alone keeps the invariant.
LEMMA MemoryUnchanged ==
    ASSUME MemInv, UNCHANGED lists, Buffers \cap mine' = Buffers \cap mine,
           BuffersTyped', \A b \in Buffers \cap mine : buffer_at'[b] = buffer_at[b]
    PROVE  MemInv'
<1>1. \A b \in Buffers \cap mine : BufferMemory(b)' = BufferMemory(b)
  BY DEF BufferMemory
<1>2. \A x : Unowned(x)' <=> Unowned(x)
  BY <1>1 DEF Unowned, RegisterMemory
<1>3. ListsExact'
  BY <1>2 DEF MemInv, ListsExact
<1>4. BuffersApart'
  BY <1>1 DEF MemInv, BuffersApart, RegisterMemory
<1> QED BY <1>3, <1>4 DEF MemInv, ListsTyped

LEMMA OtherCallsMemory ==
    ASSUME ChecksExitCodes, MemInv,
           \/ \E k \in Kernels : AllocateKernel(k) \/ ReleaseKernel(k)
           \/ \E e \in Events :
                \/ AllocateEvent(e) \/ ReleaseEvent(e) \/ ReadSyncRegister(e)
                \/ \E v \in Values : WriteSyncRegister(e, v)
           \/ UNCHANGED vars
    PROVE  MemInv'
<1>1. UNCHANGED <<lists, buffer_at>>
  BY DEF AllocateEvent, ReleaseEvent, ReadSyncRegister, WriteSyncRegister,
         AllocateKernel, ReleaseKernel, vars
<1>2. Buffers \cap mine' = Buffers \cap mine
  BY KindsAssumption
     DEF AllocateEvent, ReleaseEvent, ReadSyncRegister, WriteSyncRegister,
         AllocateKernel, ReleaseKernel, TakesForAllocated, vars
<1> QED BY <1>1, <1>2, MemoryUnchanged DEF MemInv, BuffersTyped

\* A list changed at one tile.
LEMMA ListChanged ==
    ASSUME MemInv, NEW m \in MemTiles, NEW new, GoodList(MemBase[m], MemSize, new),
           lists' = [lists EXCEPT ![m] = new]
    PROVE  /\ ListsTyped' /\ lists'[m] = new
           /\ \A o \in MemTiles : o # m => lists'[o] = lists[o]
  BY DEF MemInv, ListsTyped, GoodList

LEMMA AllocateMemoryShares ==
    ASSUME ChecksExitCodes, MemInv, NEW b \in Buffers, AllocateMemory(b)
    PROVE  MemInv'
<1> DEFINE n == BufferSize[b]
           t == kernel_tile[BufferKernel[b]]
<1>1. b \notin mine /\ n \in Nat \ {0}
  BY MemoryFacts DEF AllocateMemory
<1>2. CASE UNCHANGED <<lists, mine>> /\ buffer_at' = buffer_at
  BY <1>2, MemoryUnchanged DEF MemInv, BuffersTyped
<1>3. ASSUME NEW m \in MemTiles, NEW i \in FirstFit(lists[m], n),
             NEW k \in FirstAt(lists[m], lists[m][i].start),
             buffer_at' = [buffer_at EXCEPT ![b] =
                             [tile |-> m, addr |-> lists[m][i].start]]
      PROVE  /\ i \in DOMAIN lists[m] /\ k \in DOMAIN lists[m]
             /\ lists[m][k].start = lists[m][i].start
             /\ lists[m][i].start \in 0 .. AddrSpace - 1
             /\ BuffersTyped'
             /\ \A c \in Buffers : c # b => buffer_at'[c] = buffer_at[c]
             /\ buffer_at'[b] = [tile |-> m, addr |-> lists[m][i].start]
  <2>1. i \in DOMAIN lists[m] /\ k \in DOMAIN lists[m] /\ lists[m][k].start = lists[m][i].start
    BY DEF FirstFit, FirstAt
  <2>2. GoodList(MemBase[m], MemSize, lists[m])
    BY DEF MemInv, ListsExact
  <2>3. GoodSlot(MemBase[m], MemSize, lists[m][i])
    BY <2>1, <2>2, MemoryFacts, GoodSlots
  <2>4. lists[m][i].start \in 0 .. AddrSpace - 1
    BY <2>3 DEF GoodSlot, SlotType
  <2> QED BY <1>3, <2>1, <2>4 DEF MemInv, BuffersTyped
<1>4. ASSUME NEW m \in MemTiles, NEW i \in FirstFit(lists[m], n),
             NEW k \in FirstAt(lists[m], lists[m][i].start),
             buffer_at' = [buffer_at EXCEPT ![b] =
                             [tile |-> m, addr |-> lists[m][i].start]],
             UNCHANGED <<lists, mine>>
      PROVE  MemInv'
  BY <1>1, <1>3, <1>4, MemoryUnchanged
<1>5. ASSUME NEW m \in MemTiles, NEW i \in FirstFit(lists[m], n),
             NEW k \in FirstAt(lists[m], lists[m][i].start),
             buffer_at' = [buffer_at EXCEPT ![b] =
                             [tile |-> m, addr |-> lists[m][i].start]],
             lists[m][k].size >= n,
             lists' = [lists EXCEPT ![m] = Take(lists[m], k, n)],
             mine' = mine \cup {b}
      PROVE  MemInv'
  <2>1. PICK a, new : a = lists[m][k].start /\ new = Take(lists[m], k, n)
    OBVIOUS
  <2>2. /\ k \in DOMAIN lists[m] /\ a \in 0 .. AddrSpace - 1
        /\ BuffersTyped'
        /\ \A c \in Buffers : c # b => buffer_at'[c] = buffer_at[c]
        /\ buffer_at'[b] = [tile |-> m, addr |-> a]
    BY <1>3, <1>5, <2>1
  <2>3. /\ GoodList(MemBase[m], MemSize, lists[m])
        /\ \A x \in MemoryOf(m) :
             Single(lists[m], x) /\ (Covers(lists[m], x) <=> Unowned(x))
    BY DEF MemInv, ListsExact
  <2>4. /\ GoodList(MemBase[m], MemSize, new)
        /\ \A x \in a .. (a + n - 1) : x \in MemoryOf(m) /\ x \in Free(lists[m][k])
        /\ \A x \in MemoryOf(m) : Single(lists[m], x) =>
             /\ Single(new, x)
             /\ Covers(new, x) <=> Covers(lists[m], x) /\ x \notin a .. (a + n - 1)
    BY <1>1, <1>5, <2>1, <2>2, <2>3, MemoryFacts, TakeRemovesBlock DEF MemoryOf
  <2>5. /\ ListsTyped' /\ lists'[m] = new
        /\ \A o \in MemTiles : o # m => lists'[o] = lists[o]
    BY <1>5, <2>1, <2>4, ListChanged
  <2>6. /\ BufferMemory(b)' = a .. (a + n - 1)
        /\ \A c \in Buffers : c # b => BufferMemory(c)' = BufferMemory(c)
    BY <2>2 DEF BufferMemory
  <2>7. \A x \in a .. (a + n - 1) : Unowned(x)
    BY <2>2, <2>3, <2>4 DEF Covers
  <2>8. \A x : Unowned(x)' <=> Unowned(x) /\ x \notin a .. (a + n - 1)
    BY <1>1, <1>5, <2>6 DEF Unowned, RegisterMemory
  <2>9. ASSUME NEW o \in MemTiles
        PROVE  /\ GoodList(MemBase[o], MemSize, lists'[o])
               /\ \A x \in MemoryOf(o) :
                    Single(lists'[o], x) /\ (Covers(lists'[o], x) <=> Unowned(x)')
    <3>1. CASE o = m
      BY <2>3, <2>4, <2>5, <2>8, <3>1
    <3>2. CASE o # m
      <4>1. lists'[o] = lists[o]
        BY <2>5, <3>2
      <4>2. \A x \in MemoryOf(o) : x \notin a .. (a + n - 1)
        BY <2>4, <3>2, MemoriesApart DEF MemoryOf
      <4> QED BY <2>8, <4>1, <4>2 DEF MemInv, ListsExact
    <3> QED BY <3>1, <3>2
  <2>10. ListsExact'
    BY <2>9 DEF ListsExact, MemoryOf
  <2>11. ASSUME NEW c \in Buffers \cap mine'
         PROVE  /\ BufferMemory(c)' \subseteq MemoryOf(buffer_at'[c].tile)
                /\ \A x \in BufferMemory(c)' :
                     /\ x \notin RegisterMemory
                     /\ \A d \in Buffers \cap mine' : d # c => x \notin BufferMemory(d)'
    <3>1. CASE c = b
      <4>1. BufferMemory(c)' \subseteq MemoryOf(buffer_at'[c].tile)
        BY <2>2, <2>4, <2>6, <3>1
      <4>2. \A d \in Buffers \cap mine' : d # b => d \in Buffers \cap mine
        BY <1>5
      <4> QED BY <2>6, <2>7, <3>1, <4>1, <4>2 DEF Unowned
    <3>2. CASE c # b
      <4>1. c \in Buffers \cap mine /\ BufferMemory(c)' = BufferMemory(c)
            /\ buffer_at'[c] = buffer_at[c]
        BY <1>5, <2>2, <2>6, <3>2
      <4>2. /\ BufferMemory(c) \subseteq MemoryOf(buffer_at[c].tile)
            /\ \A x \in BufferMemory(c) :
                 /\ x \notin RegisterMemory
                 /\ \A d \in Buffers \cap mine : d # c => x \notin BufferMemory(d)
        BY <4>1 DEF MemInv, BuffersApart
      <4>3. ASSUME NEW d \in Buffers \cap mine', d # c, NEW x \in BufferMemory(c)
            PROVE  x \notin BufferMemory(d)'
        <5>1. CASE d = b
          BY <2>6, <2>7, <4>1, <5>1 DEF Unowned
        <5>2. CASE d # b
          BY <1>5, <2>6, <4>2, <4>3, <5>2
        <5> QED BY <5>1, <5>2
      <4> QED BY <4>1, <4>2, <4>3
    <3> QED BY <3>1, <3>2
  <2>12. BuffersApart'
    BY <2>11 DEF BuffersApart, MemoryOf, RegisterMemory
  <2> QED BY <2>2, <2>5, <2>10, <2>12 DEF MemInv
<1>6. MemoryFor(t, n) \subseteq MemTiles
  BY DEF MemoryFor, U!FirstVisited
<1>7. CASE MemoryFor(t, n) = {} /\ UNCHANGED <<buffer_at, lists, mine>>
  BY <1>2, <1>7
<1> HIDE DEF n, t
<1>8. \/ \E m \in MemoryFor(t, n) :
           \E i \in FirstFit(lists[m], n) :
             \E k \in FirstAt(lists[m], lists[m][i].start) :
               /\ buffer_at' = [buffer_at EXCEPT ![b] =
                                  [tile |-> m, addr |-> lists[m][i].start]]
               /\ \/ /\ lists[m][k].size >= n
                     /\ lists' = [lists EXCEPT ![m] = Take(lists[m], k, n)]
                     /\ mine' = mine \cup {b}
                  \/ UNCHANGED <<lists, mine>>
      \/ MemoryFor(t, n) = {} /\ UNCHANGED <<buffer_at, lists, mine>>
  BY DEF AllocateMemory, TakesForAllocated, n, t
<1> QED BY <1>4, <1>5, <1>6, <1>7, <1>8

LEMMA ReleaseMemoryShares ==
    ASSUME MemInv, NEW b \in Buffers, ReleaseMemory(b)
    PROVE  MemInv'
<1>1. PICK m, a, n : m = buffer_at[b].tile /\ a = buffer_at[b].addr /\ n = BufferSize[b]
  OBVIOUS
<1>2. PICK new \in Puts(lists[m], a, n) : lists' = [lists EXCEPT ![m] = new]
  BY <1>1 DEF ReleaseMemory
<1>3. b \in mine /\ mine' = mine \ {b} /\ buffer_at' = buffer_at
  BY DEF ReleaseMemory
<1>4. m \in MemTiles /\ a \in Nat /\ n \in Nat \ {0}
  BY <1>1, MemoryFacts, AddrSpaceAssumption DEF MemInv, BuffersTyped
<1>5. BufferMemory(b) = a .. (a + n - 1) /\ BufferMemory(b) \subseteq MemoryOf(m)
  BY <1>1, <1>3 DEF MemInv, BuffersApart, BufferMemory
<1>6. GoodBlock(MemBase[m], MemSize, a, n)
  <2>1. a \in MemoryOf(m) /\ a + n - 1 \in MemoryOf(m)
    BY <1>4, <1>5
  <2> QED BY <1>4, <2>1, MemoryFacts DEF GoodBlock, MemoryOf, Memory
<1>7. /\ GoodList(MemBase[m], MemSize, lists[m])
      /\ \A x \in MemoryOf(m) :
           Single(lists[m], x) /\ (Covers(lists[m], x) <=> Unowned(x))
  BY <1>4 DEF MemInv, ListsExact
<1>8. Restores(MemBase[m], MemSize, lists[m], new, a, n)
  BY <1>2, <1>4, <1>6, <1>7, MemoryFacts, PutsRestore
<1>9. \A x \in a .. (a + n - 1) : ~Unowned(x)
  BY <1>3, <1>5 DEF Unowned
<1>10. /\ GoodList(MemBase[m], MemSize, new)
       /\ \A x \in MemoryOf(m) :
            /\ Single(new, x)
            /\ Covers(new, x) <=> Unowned(x) \/ x \in a .. (a + n - 1)
  BY <1>7, <1>8, <1>9 DEF Restores, MemoryOf
<1>11. /\ ListsTyped' /\ lists'[m] = new
       /\ \A o \in MemTiles : o # m => lists'[o] = lists[o]
  BY <1>2, <1>4, <1>10, ListChanged
<1>12. \A c \in Buffers : BufferMemory(c)' = BufferMemory(c)
  BY <1>3 DEF BufferMemory
<1>13. \A x : Unowned(x)' <=> Unowned(x) \/ x \in a .. (a + n - 1)
  <2> SUFFICES ASSUME NEW x
               PROVE  Unowned(x)' <=> Unowned(x) \/ x \in a .. (a + n - 1)
    OBVIOUS
  <2>1. Unowned(x)' <=> /\ x \notin RegisterMemory
                        /\ \A c \in Buffers \cap mine : c # b => x \notin BufferMemory(c)
    BY <1>3, <1>12 DEF Unowned, RegisterMemory
  <2>2. x \in BufferMemory(b) =>
          /\ x \notin RegisterMemory
          /\ \A c \in Buffers \cap mine : c # b => x \notin BufferMemory(c)
    BY <1>3 DEF MemInv, BuffersApart
  <2> QED BY <1>3, <1>5, <2>1, <2>2 DEF Unowned
<1>14. ASSUME NEW o \in MemTiles
       PROVE  /\ GoodList(MemBase[o], MemSize, lists'[o])
              /\ \A x \in MemoryOf(o) :
                   Single(lists'[o], x) /\ (Covers(lists'[o], x) <=> Unowned(x)')
  <2>1. CASE o = m
    BY <1>10, <1>11, <1>13, <2>1
  <2>2. CASE o # m
    <3>1. lists'[o] = lists[o]
      BY <1>11, <2>2
    <3>2. \A x \in MemoryOf(o) : x \notin a .. (a + n - 1)
      BY <1>4, <1>5, <2>2, MemoriesApart DEF MemoryOf
    <3> QED BY <1>13, <3>1, <3>2 DEF MemInv, ListsExact
  <2> QED BY <2>1, <2>2
<1>15. ListsExact'
  BY <1>14 DEF ListsExact, MemoryOf
<1>16. BuffersApart'
  BY <1>3, <1>12 DEF MemInv, BuffersApart, MemoryOf, RegisterMemory
<1> QED BY <1>3, <1>11, <1>15, <1>16 DEF MemInv, BuffersTyped

LEMMA StepMemory == ASSUME ChecksExitCodes, MemInv, [Next]_vars PROVE MemInv'
  BY OtherCallsMemory, AllocateMemoryShares, ReleaseMemoryShares DEF Next

\* A list offers no address outside its memory.
LEMMA FreeIsInMemory ==
    ASSUME MemInv, NEW m \in MemTiles
    PROVE  FreeMemory(m) = {x \in MemoryOf(m) : Covers(lists[m], x)}
<1>1. GoodList(MemBase[m], MemSize, lists[m])
  BY DEF MemInv, ListsExact
<1>2. \A x : x \in FreeMemory(m) <=> Covers(lists[m], x)
  BY DEF FreeMemory, Covers
<1>3. ASSUME NEW i \in DOMAIN lists[m], NEW x \in Free(lists[m][i])
      PROVE  x \in MemoryOf(m)
  <2>1. GoodSlot(MemBase[m], MemSize, lists[m][i])
    BY <1>1, MemoryFacts, GoodSlots
  <2> QED BY <2>1, MemoryFacts DEF GoodSlot, SlotType, SlotIn, Free, MemoryOf, Memory
<1> QED BY <1>2, <1>3 DEF Covers

\* MemorySharedOut: every address of device memory is free, or belongs to the
\* registers or to one buffer, whatever the sizes, the number of memories and
\* the order of the calls: no buffer overlaps another or the registers.
THEOREM MemoryStaysSharedOut == ChecksExitCodes => (Spec => []MemorySharedOut)
<1> SUFFICES ASSUME ChecksExitCodes PROVE Spec => []MemorySharedOut
  OBVIOUS
<1>1. MemInv /\ [Next]_vars => MemInv'
  BY StepMemory
<1>2. MemInv => MemorySharedOut
  <2> SUFFICES ASSUME MemInv PROVE MemorySharedOut
    OBVIOUS
  <2>1. ASSUME NEW m \in MemTiles
        PROVE  FreeMemory(m) = Memory(MemBase[m], MemSize)
                 \ (RegisterMemory \cup UNION {BufferMemory(b) : b \in Buffers \cap mine})
    <3>1. \A x \in MemoryOf(m) : Covers(lists[m], x) <=> Unowned(x)
      BY DEF MemInv, ListsExact
    <3>2. \A x : Unowned(x) <=>
            x \notin RegisterMemory \cup UNION {BufferMemory(b) : b \in Buffers \cap mine}
      BY DEF Unowned
    <3> QED BY <3>1, <3>2, FreeIsInMemory DEF MemoryOf
  <2> QED BY <2>1 DEF MemInv, BuffersApart, MemorySharedOut
<1> QED BY InitMemory, <1>1, <1>2, PTL DEF Spec

-----------------------------------------------------------------------------
(* Types.                                                                  *)

\* The types that TilesInv, EventInv and MemInv leave open.
RestTyped ==
    /\ cut \in SUBSET (U!Tiles \X U!Ports)
    /\ reg \in [{0} \cup Registers -> 0 .. Word - 1]
    /\ mine \in SUBSET (Kernels \cup Buffers \cup Events)
    /\ aborted \in BOOLEAN

LEMMA WordFacts == Word \in Nat /\ Word > 2 /\ Leftovers \subseteq 0 .. Word - 1 /\ Values \subseteq 0 .. Word - 1
  BY ManagerAssumption

\* A word stays a word when its register is written.
LEMMA RegTyped ==
    ASSUME NEW r \in {0} \cup Registers, NEW v \in 0 .. Word - 1,
           reg \in [{0} \cup Registers -> 0 .. Word - 1],
           reg' = [reg EXCEPT ![r] = v]
    PROVE  reg' \in [{0} \cup Registers -> 0 .. Word - 1]
  OBVIOUS

LEMMA KernelCallTyped ==
    ASSUME RestTyped, NEW k \in Kernels, AllocateKernel(k) \/ ReleaseKernel(k)
    PROVE  RestTyped'
<1>1. UNCHANGED <<reg, aborted>>
  BY DEF AllocateKernel, ReleaseKernel
<1>2. mine' \in SUBSET (Kernels \cup Buffers \cup Events)
  BY DEF RestTyped, AllocateKernel, ReleaseKernel, TakesForAllocated
<1>3. \A B : U!Walls(B) \subseteq U!Tiles \X U!Ports
  BY DEF U!Walls
<1>4. cut' \in SUBSET (U!Tiles \X U!Ports)
  <2>1. CASE cut' = cut
    BY <2>1 DEF RestTyped
  <2>2. ASSUME NEW S, U!ReserveSet(S) PROVE cut' \in SUBSET (U!Tiles \X U!Ports)
    BY <1>3, <2>2 DEF RestTyped, U!ReserveSet
  <2>3. ASSUME NEW S, U!ReleaseSet(S) PROVE cut' \in SUBSET (U!Tiles \X U!Ports)
    BY <2>3 DEF RestTyped, U!ReleaseSet
  <2> QED BY <2>1, <2>2, <2>3 DEF AllocateKernel, ReleaseKernel
<1> QED BY <1>1, <1>2, <1>4 DEF RestTyped

LEMMA EventCallTyped ==
    ASSUME RestTyped, EventInv, NEW e \in Events,
           \/ AllocateEvent(e) \/ ReleaseEvent(e) \/ ReadSyncRegister(e)
           \/ \E v \in Values : WriteSyncRegister(e, v)
    PROVE  RestTyped'
<1>1. UNCHANGED <<cut, aborted>>
  BY DEF AllocateEvent, ReleaseEvent, ReadSyncRegister, WriteSyncRegister
<1>2. mine' \in SUBSET (Kernels \cup Buffers \cup Events)
  BY DEF RestTyped, AllocateEvent, ReleaseEvent, ReadSyncRegister,
         WriteSyncRegister, TakesForAllocated
<1>3. reg \in [{0} \cup Registers -> 0 .. Word - 1] /\ event_reg[e] \in {0} \cup Registers
  BY DEF RestTyped, EventInv, EventRegisters
<1>4. 0 \in 0 .. Word - 1
  BY WordFacts
<1>5. reg' \in [{0} \cup Registers -> 0 .. Word - 1]
  <2>1. CASE AllocateEvent(e)
    BY <1>3, <1>4, <2>1, RegTyped DEF AllocateEvent
  <2>2. CASE ReleaseEvent(e)
    BY <1>3, <2>2 DEF ReleaseEvent
  <2>3. CASE ReadSyncRegister(e)
    BY <1>3, <1>4, <2>3, RegTyped DEF ReadSyncRegister
  <2>4. ASSUME NEW v \in Values, WriteSyncRegister(e, v)
        PROVE  reg' \in [{0} \cup Registers -> 0 .. Word - 1]
    <3>1. v \in 0 .. Word - 1 /\ reg[event_reg[e]] \in 0 .. Word - 1
      BY <1>3, WordFacts
    <3>2. (reg[event_reg[e]] + v) % Word \in 0 .. Word - 1
      BY <3>1, WordFacts
    <3>3. Written(event_reg[e], v) \in 0 .. Word - 1
      BY <3>1, <3>2 DEF Written
    <3> QED BY <1>3, <2>4, <3>3, RegTyped DEF WriteSyncRegister
  <2> QED BY <2>1, <2>2, <2>3, <2>4
<1> QED BY <1>1, <1>2, <1>5 DEF RestTyped

LEMMA BufferCallTyped ==
    ASSUME RestTyped, EventInv, NEW b \in Buffers, AllocateMemory(b) \/ ReleaseMemory(b)
    PROVE  RestTyped'
<1>1. cut' = cut
  BY DEF AllocateMemory, ReleaseMemory
<1>2. mine' \in SUBSET (Kernels \cup Buffers \cup Events)
  BY DEF RestTyped, AllocateMemory, ReleaseMemory, TakesForAllocated
<1>3. reg \in [{0} \cup Registers -> 0 .. Word - 1]
      /\ event_reg[BufferEvent[b]] \in {0} \cup Registers
  BY ManagerAssumption DEF RestTyped, EventInv, EventRegisters
<1>4. CASE UNCHANGED <<reg, aborted>>
  BY <1>1, <1>2, <1>4 DEF RestTyped
<1>5. CASE PrepareEvent(b)
  <2>1. aborted' \in BOOLEAN
    BY <1>5 DEF PrepareEvent
  <2>2. PICK v \in {0, 2} : reg' = [reg EXCEPT ![event_reg[BufferEvent[b]]] = v]
    BY <1>5 DEF PrepareEvent
  <2>3. v \in 0 .. Word - 1
    BY WordFacts
  <2>4. reg' \in [{0} \cup Registers -> 0 .. Word - 1]
    BY <1>3, <2>2, <2>3, RegTyped
  <2> QED BY <1>1, <1>2, <2>1, <2>4 DEF RestTyped
<1> QED BY <1>4, <1>5 DEF AllocateMemory, ReleaseMemory

LEMMA StepTyped == ASSUME RestTyped, EventInv, [Next]_vars PROVE RestTyped'
<1>1. CASE UNCHANGED vars
  BY <1>1 DEF vars, RestTyped
<1> QED BY <1>1, KernelCallTyped, EventCallTyped, BufferCallTyped DEF Next

LEMMA InitTyped == Init => RestTyped
<1> SUFFICES ASSUME Init PROVE RestTyped
  OBVIOUS
<1>1. reg \in [{0} \cup Registers -> Leftovers]
  BY DEF Init
<1>2. reg \in [{0} \cup Registers -> 0 .. Word - 1]
  BY <1>1, WordFacts
<1> QED BY <1>2 DEF Init, RestTyped

\* The four invariants give every type.
LEMMA TypesFromParts ==
    ASSUME TilesInv, EventInv, MemInv, RestTyped
    PROVE  TypeOK
<1>1. assigned \in SUBSET U!Tiles
  BY DEF TilesInv, KernelTilesApart
<1>2. reg_in_use \in SUBSET Registers
  BY DEF EventInv, EventRegisters, EventsApart
<1>3. clean \in SUBSET Events
  BY DEF EventInv, CleanIsEmpty
<1> QED
  BY <1>1, <1>2, <1>3
     DEF TypeOK, TilesInv, EventInv, EventRegisters, MemInv, ListsTyped,
         BuffersTyped, RestTyped

\* Types: every register in use exists, every list is a list of slots and never
\* empty, every buffer is at an address, every word fits.
THEOREM TypeCorrect == ChecksExitCodes => (Spec => []TypeOK)
<1> SUFFICES ASSUME ChecksExitCodes PROVE Spec => []TypeOK
  OBVIOUS
<1> DEFINE Inv == TilesInv /\ EventInv /\ MemInv /\ RestTyped
<1>1. Init => Inv
  <2>1. Init => TilesInv
    BY ManagerAssumption DEF Init, TilesInv, KernelTilesApart
  <2> QED BY <2>1, InitEvents, InitMemory, InitTyped
<1>2. Inv /\ [Next]_vars => Inv'
  <2> SUFFICES ASSUME Inv, [Next]_vars PROVE Inv'
    OBVIOUS
  <2>1. TilesInv'
    BY StepTiles
  <2> QED BY <2>1, StepEvents, StepMemory, StepTyped
<1>3. Inv => TypeOK
  BY TypesFromParts
<1> QED BY <1>1, <1>2, <1>3, PTL DEF Spec

-----------------------------------------------------------------------------
(* Isolation, and where buffers are placed.                                *)

\* Every port of a reserved tile, on either side of its border, is cut: what is
\* inductive about the bandwidth.
TilesIsolated ==
    \A w \in U!Tiles \X U!Ports :
      /\ U!Neighbour(w[1], w[2]) \in U!Tiles
      /\ w[1] \in assigned \/ U!Neighbour(w[1], w[2]) \in assigned
      => w \in cut

IsolationInv == TilesInv /\ DOMAIN buffer_at = Buffers /\ TilesIsolated

\* A port is on the border of a tile when it joins that tile and another.
LEMMA WallsOfTile ==
    ASSUME NEW t \in U!Tiles, NEW w \in U!Tiles \X U!Ports,
           U!Neighbour(w[1], w[2]) \in U!Tiles,
           w[1] = t \/ U!Neighbour(w[1], w[2]) = t
    PROVE  w \in U!Walls({t})
<1>1. \A u \in U!Tiles : u = <<u[1], u[2]>> /\ u[1] \in Int /\ u[2] \in Int
  BY GridAssumption DEF U!Tiles
<1>2. w[1] # U!Neighbour(w[1], w[2])
  BY <1>1 DEF U!Neighbour, U!Ports
<1> QED BY <1>2 DEF U!Walls

LEMMA AllocateKernelIsolates ==
    ASSUME ChecksExitCodes, IsolationInv, NEW k \in Kernels, AllocateKernel(k)
    PROVE  TilesIsolated'
<1>1. CASE UNCHANGED <<assigned, cut, kernel_tile>>
  BY <1>1 DEF IsolationInv, TilesIsolated
<1>2. ASSUME NEW S \in U!Found(1), U!ReserveSet(S)
      PROVE  TilesIsolated'
  <2>1. PICK t \in U!Tiles : S = {t}
    BY FoundOneTile
  <2>2. assigned' = assigned \cup {t} /\ cut' = cut \cup U!Walls({t})
    BY <1>2, <2>1, BoxOfTile DEF U!ReserveSet
  <2> QED BY <2>2, WallsOfTile DEF IsolationInv, TilesIsolated
<1> QED BY <1>1, <1>2 DEF AllocateKernel

\* A port is opened only if both tiles it joins are free then.
LEMMA ReleaseKernelIsolates ==
    ASSUME IsolationInv, NEW k \in Kernels, ReleaseKernel(k)
    PROVE  TilesIsolated'
<1>1. PICK area : /\ assigned' = assigned \ area
                  /\ cut' = cut \ {w \in U!Walls(area) : U!Ends(w) \cap assigned' = {}}
  BY DEF ReleaseKernel, U!ReleaseSet
<1>2. ASSUME NEW w \in U!Tiles \X U!Ports,
             U!Neighbour(w[1], w[2]) \in U!Tiles,
             w[1] \in assigned' \/ U!Neighbour(w[1], w[2]) \in assigned'
      PROVE  w \in cut'
  <2>1. w \in cut
    BY <1>1, <1>2 DEF IsolationInv, TilesIsolated
  <2>2. U!Ends(w) \cap assigned' # {}
    BY <1>2 DEF U!Ends
  <2> QED BY <1>1, <2>1, <2>2
<1> QED BY <1>2 DEF TilesIsolated

LEMMA StepIsolation ==
    ASSUME ChecksExitCodes, IsolationInv, [Next]_vars PROVE IsolationInv'
<1>1. TilesInv'
  BY StepTiles DEF IsolationInv
<1>2. (DOMAIN buffer_at = Buffers)'
  BY DEF IsolationInv, vars, Next, AllocateKernel, ReleaseKernel, AllocateEvent,
         ReleaseEvent, ReadSyncRegister, WriteSyncRegister, AllocateMemory, ReleaseMemory
<1>3. ASSUME UNCHANGED <<assigned, cut>> PROVE TilesIsolated'
  BY <1>3 DEF IsolationInv, TilesIsolated
<1>4. TilesIsolated'
  <2>1. ASSUME NEW e \in Events,
               \/ AllocateEvent(e) \/ ReleaseEvent(e) \/ ReadSyncRegister(e)
               \/ \E v \in Values : WriteSyncRegister(e, v)
        PROVE  UNCHANGED <<assigned, cut>>
    BY <2>1 DEF AllocateEvent, ReleaseEvent, ReadSyncRegister, WriteSyncRegister
  <2>2. ASSUME NEW b \in Buffers, AllocateMemory(b) \/ ReleaseMemory(b)
        PROVE  UNCHANGED <<assigned, cut>>
    BY <2>2 DEF AllocateMemory, ReleaseMemory
  <2>3. CASE UNCHANGED vars
    BY <2>3, <1>3 DEF vars, IsolationInv
  <2> QED BY <1>3, <2>1, <2>2, <2>3, AllocateKernelIsolates, ReleaseKernelIsolates
          DEF Next, IsolationInv
<1> QED BY <1>1, <1>2, <1>4 DEF IsolationInv

\* The first router of a route out of a reserved tile has no bandwidth.
LEMMA NoRouteOut ==
    ASSUME IsolationInv, NEW t \in U!Tiles, t \in assigned, NEW u \in U!Tiles, u # t
    PROVE  ~ U!RouteOpen(t, u)
<1>1. /\ t = <<t[1], t[2]>> /\ t[1] \in 0 .. Cols - 1 /\ t[2] \in 0 .. Rows - 1
      /\ u = <<u[1], u[2]>> /\ u[1] \in 0 .. Cols - 1 /\ u[2] \in 0 .. Rows - 1
      /\ Cols \in Nat /\ Rows \in Nat
  BY GridAssumption DEF U!Tiles
<1>2. t[1] # u[1] \/ t[2] # u[2]
  BY <1>1
<1>3. t \in U!RouteTiles(t, u)
  BY <1>1, <1>2 DEF U!RouteTiles
<1> DEFINE p == U!RoutePort(t, u)
<1>4. p \in U!Ports /\ U!Neighbour(t, p) \in U!Tiles
  <2>1. CASE t[1] < u[1]
    <3>1. p = "EAST" /\ U!Neighbour(t, "EAST") = <<t[1] + 1, t[2]>>
      BY <1>1, <2>1 DEF U!RoutePort, U!Neighbour
    <3> QED BY <1>1, <2>1, <3>1 DEF U!Ports, U!Tiles
  <2>2. CASE t[1] > u[1]
    <3>1. p = "WEST" /\ U!Neighbour(t, "WEST") = <<t[1] - 1, t[2]>>
      BY <1>1, <2>2 DEF U!RoutePort, U!Neighbour
    <3> QED BY <1>1, <2>2, <3>1 DEF U!Ports, U!Tiles
  <2>3. CASE t[1] = u[1] /\ t[2] < u[2]
    <3>1. p = "SOUTH" /\ U!Neighbour(t, "SOUTH") = <<t[1], t[2] + 1>>
      BY <1>1, <2>3 DEF U!RoutePort, U!Neighbour
    <3> QED BY <1>1, <2>3, <3>1 DEF U!Ports, U!Tiles
  <2>4. CASE t[1] = u[1] /\ t[2] > u[2]
    <3>1. p = "NORTH" /\ U!Neighbour(t, "NORTH") = <<t[1], t[2] - 1>>
      BY <1>1, <2>4 DEF U!RoutePort, U!Neighbour
    <3> QED BY <1>1, <2>4, <3>1 DEF U!Ports, U!Tiles
  <2> QED BY <1>1, <1>2, <2>1, <2>2, <2>3, <2>4
<1>5. <<t, p>> \in cut
  BY <1>4 DEF IsolationInv, TilesIsolated
<1> QED BY <1>3, <1>5 DEF U!RouteOpen

\* Hence find_memory from a reserved tile finds its own memory or none.
LEMMA MemoryForReserved ==
    ASSUME IsolationInv, NEW t \in U!Tiles, t \in assigned, NEW n,
           NEW m \in MemoryFor(t, n)
    PROVE  m = t
<1>1. m \in {t} \cup {u \in U!Searched(t) : U!RouteOpen(t, u)}
  BY DEF MemoryFor, U!FirstVisited
<1>2. \A u \in U!Searched(t) : u \in U!Tiles
  BY DEF U!Searched
<1> QED BY <1>1, <1>2, NoRouteOut

LEMMA AllocateMemoryPlaces ==
    ASSUME ChecksExitCodes, IsolationInv, NEW b \in Buffers, AllocateMemory(b),
           NEW c \in Buffers, c \in mine', c \notin mine
    PROVE  buffer_at'[c].tile = kernel_tile[BufferKernel[c]]
<1> DEFINE n == BufferSize[b]
           t == kernel_tile[BufferKernel[b]]
<1>1. BufferKernel[b] \in Kernels /\ BufferKernel[b] \in mine
  BY ManagerAssumption DEF AllocateMemory
<1>2. t \in U!Tiles /\ t \in assigned
  BY <1>1 DEF IsolationInv, TilesInv, KernelTilesApart
<1>3. c = b
  BY DEF AllocateMemory, TakesForAllocated
<1>4. CASE MemoryFor(t, n) = {} /\ TakesForAllocated(b, FALSE)
  BY <1>4 DEF TakesForAllocated
<1>5. ASSUME NEW m \in MemoryFor(t, n), NEW a,
             buffer_at' = [buffer_at EXCEPT ![b] = [tile |-> m, addr |-> a]]
      PROVE  buffer_at'[c].tile = t
  <2>1. m = t
    BY <1>2, MemoryForReserved
  <2> QED BY <1>3, <1>5, <2>1 DEF IsolationInv
<1> QED BY <1>3, <1>4, <1>5 DEF AllocateMemory

\* No other call makes the client hold a buffer.
LEMMA StepPlaces ==
    ASSUME ChecksExitCodes, IsolationInv, [Next]_vars,
           NEW c \in Buffers, c \in mine', c \notin mine
    PROVE  buffer_at'[c].tile = kernel_tile[BufferKernel[c]]
<1>1. \A k \in Kernels : ~AllocateKernel(k) /\ ~ReleaseKernel(k)
  BY KindsAssumption DEF AllocateKernel, ReleaseKernel, TakesForAllocated
<1>2. \A e \in Events : /\ ~AllocateEvent(e) /\ ~ReleaseEvent(e) /\ ~ReadSyncRegister(e)
                        /\ \A v \in Values : ~WriteSyncRegister(e, v)
  BY KindsAssumption
     DEF AllocateEvent, ReleaseEvent, ReadSyncRegister, WriteSyncRegister, TakesForAllocated
<1>3. \A b \in Buffers : ~ReleaseMemory(b)
  BY DEF ReleaseMemory
<1>4. ~UNCHANGED vars
  BY DEF vars
<1> QED BY <1>1, <1>2, <1>3, <1>4, AllocateMemoryPlaces DEF Next

\* BufferOnKernelTile: a buffer is placed in the memory of the tile of its kernel,
\* on every mesh, because that tile is cut off from all the other memories.
THEOREM BuffersStayOnKernelTile == ChecksExitCodes => (Spec => BufferOnKernelTile)
<1> SUFFICES ASSUME ChecksExitCodes PROVE Spec => BufferOnKernelTile
  OBVIOUS
<1>1. Init => IsolationInv
  BY ManagerAssumption DEF Init, IsolationInv, TilesInv, KernelTilesApart, TilesIsolated
<1>2. IsolationInv /\ [Next]_vars => IsolationInv'
  BY StepIsolation
<1>3. IsolationInv /\ [Next]_vars =>
        [\A b \in Buffers : b \in mine' /\ b \notin mine =>
           buffer_at'[b].tile = kernel_tile[BufferKernel[b]]]_vars
  BY StepPlaces
<1> QED BY <1>1, <1>2, <1>3, PTL DEF Spec, BufferOnKernelTile
=============================================================================
