----------------------------- MODULE GNManager ------------------------------
(***************************************************************************)
(* GNManager (gn/manager.cpp) on top of HNemu: kernels get tiles, buffers  *)
(* get memory, events get synchronization registers, and a client (a       *)
(* resource manager such as test/gn_dummy_rm.cpp) allocates and releases   *)
(* them.  One action is one call of the client.                            *)
(*                                                                         *)
(* The maps of the manager are read with operator[], which inserts zeros   *)
(* for a missing key: a missing entry and an entry of zeros behave alike,  *)
(* so the maps are total functions whose default is tile 0, address 0 or   *)
(* register 0.                                                             *)
(***************************************************************************)
EXTENDS HNFreeList, FiniteSetsExt

CONSTANTS Cols, Rows,       \* the mesh
          MemTiles,         \* the tiles with memory
          MemBase,          \* start_address of the memory of each of them
          MemSize,          \* memory_size of all of them
          RegBlock,         \* memory kept for the sync registers
          RegCount,         \* MANGO_REG_SIZE
          Word,             \* values are uint32_t: 2^32, scaled down
          Leftovers,        \* what a word of the device file may hold at first
          Values,           \* what the client writes to events
          Kernels, Buffers, Events,
          BufferKernel,     \* the last of kernels_in, or of kernels_out
          BufferEvent, BufferSize,
          ChecksExitCodes,  \* does the client look at the exit codes?
          DrainsEvents      \* does it leave no value in a buffer's event?

VARIABLES assigned, cut,  \* HNemu: reserved tiles, ports without bandwidth
          lists,          \* HNemu: the free list of each memory tile
          kernel_tile,    \* allocated_kernel_info
          buffer_at,      \* allocated_buffer_info: [tile, addr]
          event_reg,      \* allocated_event_info
          reg_in_use,     \* event_register_off
          reg,            \* the words of the registers in device memory
          mine,           \* what the client takes for allocated
          clean,          \* the events it knows to hold 0
          aborted         \* an assertion has failed

vars == <<assigned, cut, lists, kernel_tile, buffer_at, event_reg, reg_in_use,
          reg, mine, clean, aborted>>

Tile0 == <<0, 0>>

\* The registers handed out are the odd ones; register 0 is only reached
\* through an event that has none.
Registers == {r \in 0 .. RegCount - 1 : r % 2 = 1}

\* Tiles: a kernel the client holds is a user that was given one tile.
Held == [k \in Kernels |-> IF k \in mine THEN {kernel_tile[k]} ELSE {}]

U == INSTANCE HNUnits WITH Users <- Kernels, SetSizes <- {1}, held <- Held

ASSUME GridAssumption == Cols \in Nat \ {0} /\ Rows \in Nat \ {0}

ASSUME ManagerAssumption ==
    /\ Tile0 \in MemTiles /\ MemTiles \subseteq U!Tiles
    /\ MemBase \in [MemTiles -> Nat]
    /\ \A m \in MemTiles : MemoryFits(MemBase[m], MemSize)
    /\ RegBlock \in 1 .. MemSize
    /\ BufferKernel \in [Buffers -> Kernels]
    /\ BufferEvent \in [Buffers -> Events]
    /\ BufferSize \in [Buffers -> Nat \ {0}]
    /\ Word \in Nat /\ Word > 2
    /\ Leftovers \subseteq 0 .. Word - 1 /\ Values \subseteq 0 .. Word - 1
    /\ ChecksExitCodes \in BOOLEAN /\ DrainsEvents \in BOOLEAN

\* fill_config gives each memory the addresses after those of the last one.
ASSUME MemoriesApart ==
    \A m, o \in MemTiles : m # o =>
      Memory(MemBase[m], MemSize) \cap Memory(MemBase[o], MemSize) = {}

\* mine mixes ids of three kinds.
ASSUME KindsAssumption ==
    /\ Kernels \cap Buffers = {} /\ Kernels \cap Events = {}
    /\ Buffers \cap Events = {}

-----------------------------------------------------------------------------
\* initialize: the block of registers is the first one taken, from tile 0.
Init ==
    /\ assigned = {} /\ cut = {}
    /\ lists = [m \in MemTiles |->
         IF m = Tile0 THEN Take(<<Slot(MemBase[m], MemSize)>>, 1, RegBlock)
                      ELSE <<Slot(MemBase[m], MemSize)>>]
    /\ kernel_tile = [k \in Kernels |-> Tile0]
    /\ buffer_at = [b \in Buffers |-> [tile |-> Tile0, addr |-> 0]]
    /\ event_reg = [e \in Events |-> 0]
    /\ reg_in_use = {}
    /\ reg \in [{0} \cup Registers -> Leftovers]  \* the device file keeps its words
    /\ mine = {} /\ clean = {} /\ aborted = FALSE

\* The client holds x after a call that returns OK; if it does not look at exit
\* codes, after any call.
TakesForAllocated(x, ok) ==
    mine' = IF ok \/ ~ChecksExitCodes THEN mine \cup {x} ELSE mine

-----------------------------------------------------------------------------
(* Kernels.                                                                *)

AllocateKernel(k) ==
    /\ k \notin mine
    /\ \/ \E S \in U!Found(1) : \E t \in S :
            /\ U!ReserveSet(S)
            /\ kernel_tile' = [kernel_tile EXCEPT ![k] = t]
            /\ TakesForAllocated(k, TRUE)
       \/ /\ U!Found(1) = {}
          /\ TakesForAllocated(k, FALSE)
          /\ UNCHANGED <<assigned, cut, kernel_tile>>
    /\ UNCHANGED <<lists, buffer_at, event_reg, reg_in_use, reg, clean, aborted>>

\* A faulty variant: the entry is erased before its tile is read.
ReleaseKernelErased(k) ==
    /\ k \in mine
    /\ U!ReleaseSet({Tile0})
    /\ kernel_tile' = [kernel_tile EXCEPT ![k] = Tile0]
    /\ mine' = mine \ {k}
    /\ UNCHANGED <<lists, buffer_at, event_reg, reg_in_use, reg, clean, aborted>>

ReleaseKernel(k) ==
    /\ k \in mine
    /\ U!ReleaseSet({kernel_tile[k]})
    /\ kernel_tile' = [kernel_tile EXCEPT ![k] = Tile0]
    /\ mine' = mine \ {k}
    /\ UNCHANGED <<lists, buffer_at, event_reg, reg_in_use, reg, clean, aborted>>

-----------------------------------------------------------------------------
(* Events and their registers.                                             *)

\* A faulty variant: the register keeps what its last event left in it.
AllocateEventUnread(e) ==
    /\ e \notin mine
    /\ \/ \E r \in Registers \ reg_in_use :
            /\ \A q \in Registers \ reg_in_use : r <= q
            /\ reg_in_use' = reg_in_use \cup {r}
            /\ event_reg' = [event_reg EXCEPT ![e] = r]
            /\ TakesForAllocated(e, TRUE)
            /\ clean' = clean \cup {e}
       \/ /\ Registers \subseteq reg_in_use
          /\ TakesForAllocated(e, FALSE)
          /\ clean' = IF ChecksExitCodes THEN clean ELSE clean \cup {e}
          /\ UNCHANGED <<reg_in_use, event_reg>>
    /\ UNCHANGED <<assigned, cut, lists, kernel_tile, buffer_at, reg, aborted>>

\* get_synch_register_addr: the first register not in use; then allocate_event
\* reads it, which sets it to 0.
AllocateEvent(e) ==
    /\ e \notin mine
    /\ \/ \E r \in Registers \ reg_in_use :
            /\ \A q \in Registers \ reg_in_use : r <= q
            /\ reg_in_use' = reg_in_use \cup {r}
            /\ event_reg' = [event_reg EXCEPT ![e] = r]
            /\ reg' = [reg EXCEPT ![r] = 0]
            /\ TakesForAllocated(e, TRUE)
            /\ clean' = clean \cup {e}
       \/ /\ Registers \subseteq reg_in_use
          /\ TakesForAllocated(e, FALSE)
          /\ clean' = IF ChecksExitCodes THEN clean ELSE clean \cup {e}
          /\ UNCHANGED <<reg_in_use, event_reg, reg>>
    /\ UNCHANGED <<assigned, cut, lists, kernel_tile, buffer_at, aborted>>

\* A faulty variant: the entry is erased before its register is read.
ReleaseEventErased(e) ==
    /\ e \in mine
    /\ reg_in_use' = reg_in_use \ {0}
    /\ event_reg' = [event_reg EXCEPT ![e] = 0]
    /\ mine' = mine \ {e} /\ clean' = clean \ {e}
    /\ UNCHANGED <<assigned, cut, lists, kernel_tile, buffer_at, reg, aborted>>

\* release_event: the register is free again, whatever it holds.
ReleaseEvent(e) ==
    /\ e \in mine
    /\ reg_in_use' = reg_in_use \ {event_reg[e]}
    /\ event_reg' = [event_reg EXCEPT ![e] = 0]
    /\ mine' = mine \ {e} /\ clean' = clean \ {e}
    /\ UNCHANGED <<assigned, cut, lists, kernel_tile, buffer_at, reg, aborted>>

\* write_sync_register adds to the register, except to one register in eight.
Written(r, v) == IF r % 8 # 0 THEN (reg[r] + v) % Word ELSE v

WriteSyncRegister(e, v) ==
    /\ e \in mine
    /\ reg' = [reg EXCEPT ![event_reg[e]] = Written(event_reg[e], v)]
    /\ clean' = clean \ {e}
    /\ UNCHANGED <<assigned, cut, lists, kernel_tile, buffer_at, event_reg,
                   reg_in_use, mine, aborted>>

\* read_sync_register returns the value and sets the register to 0.
ReadSyncRegister(e) ==
    /\ e \in mine
    /\ reg' = [reg EXCEPT ![event_reg[e]] = 0]
    /\ clean' = clean \cup {e}
    /\ UNCHANGED <<assigned, cut, lists, kernel_tile, buffer_at, event_reg,
                   reg_in_use, mine, aborted>>

-----------------------------------------------------------------------------
(* Buffers.                                                                *)

\* A faulty variant: the bandwidth of the route is not looked at.
MemoryAnywhere(t, n) ==
    LET fits == {m \in MemTiles : FirstFit(lists[m], n) # {}}
    IN  U!FirstVisited(t, fits, 1)

\* find_memory from tile t: its own memory, then the first memory visited that
\* has a slot of n units and bandwidth on the route to it.
MemoryFor(t, n) ==
    LET reached == {t} \cup {u \in U!Searched(t) : U!RouteOpen(t, u)}
        fits    == {m \in MemTiles \cap reached : FirstFit(lists[m], n) # {}}
    IN  U!FirstVisited(t, fits, 1)

\* The event of the buffer is read, which must give 0, and set to WRITE = 2.
PrepareEvent(b) ==
    LET r == event_reg[BufferEvent[b]]
    IN  /\ aborted' = (reg[r] # 0)
        /\ reg' = [reg EXCEPT ![r] = IF reg[r] = 0 THEN 2 ELSE 0]

AllocateMemory(b) ==
    LET n == BufferSize[b]
        t == kernel_tile[BufferKernel[b]]
    IN  /\ b \notin mine
        /\ BufferKernel[b] \in mine /\ BufferEvent[b] \in mine
        /\ DrainsEvents => BufferEvent[b] \in clean
        /\ \/ \E m \in MemoryFor(t, n) :
                \E i \in FirstFit(lists[m], n) :
                  \E k \in FirstAt(lists[m], lists[m][i].start) :
                    /\ buffer_at' = [buffer_at EXCEPT ![b] =
                                       [tile |-> m, addr |-> lists[m][i].start]]
                    /\ \/ /\ lists[m][k].size >= n
                          /\ lists' = [lists EXCEPT ![m] = Take(lists[m], k, n)]
                          /\ PrepareEvent(b)
                          /\ clean' = clean \ {BufferEvent[b]}
                          /\ TakesForAllocated(b, TRUE)
                       \/ /\ lists[m][k].size < n
                          /\ TakesForAllocated(b, FALSE)
                          /\ UNCHANGED <<lists, reg, clean, aborted>>
           \/ /\ MemoryFor(t, n) = {}
              /\ TakesForAllocated(b, FALSE)
              /\ UNCHANGED <<buffer_at, lists, reg, clean, aborted>>
        /\ UNCHANGED <<assigned, cut, kernel_tile, event_reg, reg_in_use>>

\* A faulty variant: the block goes to the memory of the kernel's tile.
ReleaseMemoryOfKernel(b) ==
    LET m == kernel_tile[BufferKernel[b]]
    IN  /\ b \in mine
        /\ \E list \in Puts(lists[m], buffer_at[b].addr, BufferSize[b]) :
             lists' = [lists EXCEPT ![m] = list]
        /\ mine' = mine \ {b}
        /\ UNCHANGED <<assigned, cut, kernel_tile, buffer_at, event_reg,
                       reg_in_use, reg, clean, aborted>>

\* release_memory: allocated_buffer_info keeps its entry.
ReleaseMemory(b) ==
    LET m == buffer_at[b].tile
    IN  /\ b \in mine
        /\ \E list \in Puts(lists[m], buffer_at[b].addr, BufferSize[b]) :
             lists' = [lists EXCEPT ![m] = list]
        /\ mine' = mine \ {b}
        /\ UNCHANGED <<assigned, cut, kernel_tile, buffer_at, event_reg,
                       reg_in_use, reg, clean, aborted>>

-----------------------------------------------------------------------------
Next ==
    /\ ~aborted
    /\ \/ \E k \in Kernels : AllocateKernel(k) \/ ReleaseKernel(k)
       \/ \E e \in Events :
            \/ AllocateEvent(e) \/ ReleaseEvent(e) \/ ReadSyncRegister(e)
            \/ \E v \in Values : WriteSyncRegister(e, v)
       \/ \E b \in Buffers : AllocateMemory(b) \/ ReleaseMemory(b)

Spec == Init /\ [][Next]_vars

-----------------------------------------------------------------------------
TypeOK ==
    /\ assigned \in SUBSET U!Tiles
    /\ cut \in SUBSET (U!Tiles \X U!Ports)
    /\ lists \in [MemTiles -> Seq(SlotType(MemSize)) \ {<<>>}]
    /\ kernel_tile \in [Kernels -> U!Tiles]
    /\ buffer_at \in [Buffers -> [tile : MemTiles, addr : 0..(AddrSpace - 1)]]
    /\ event_reg \in [Events -> {0} \cup Registers]
    /\ reg_in_use \in SUBSET Registers
    /\ reg \in [{0} \cup Registers -> 0..(Word - 1)]
    /\ mine \in SUBSET (Kernels \cup Buffers \cup Events)
    /\ clean \in SUBSET Events
    /\ aborted \in BOOLEAN

\* The addresses of the registers, of a buffer, of the free slots of a tile.
RegisterMemory == MemBase[Tile0] .. (MemBase[Tile0] + RegBlock - 1)
BufferMemory(b) == buffer_at[b].addr .. (buffer_at[b].addr + BufferSize[b] - 1)
FreeMemory(m) ==
    UNION {Free(lists[m][i]) : i \in DOMAIN lists[m]}

\* Device memory is shared out: every address of a memory is free in the list of
\* its tile, or belongs to the registers, or to a buffer, and to one of them only.
MemorySharedOut ==
    LET live == Buffers \cap mine
    IN  /\ \A b \in live : BufferMemory(b) \cap RegisterMemory = {}
        /\ \A b, c \in live : b # c => BufferMemory(b) \cap BufferMemory(c) = {}
        /\ \A m \in MemTiles :
             FreeMemory(m) = Memory(MemBase[m], MemSize)
               \ (RegisterMemory \cup UNION {BufferMemory(b) : b \in live})

\* "Reserve space for sync registers" (manager.cpp:101): the addresses of the
\* registers are never free memory.
RegistersReserved ==
    \A m \in MemTiles : FreeMemory(m) \cap RegisterMemory = {}

\* An event has a register of its own, and a register is in use only for one.
EventsApart ==
    LET live == Events \cap mine
    IN  /\ \A e, f \in live : e # f => event_reg[e] # event_reg[f]
        /\ reg_in_use = {event_reg[e] : e \in live}

\* The tiles of two kernels differ: releasing one of them, which frees a whole
\* rectangle, leaves the tile of the other reserved.
KernelTilesApart ==
    LET live == Kernels \cap mine
    IN  /\ \A j, k \in live : j # k => kernel_tile[j] # kernel_tile[k]
        /\ assigned = {kernel_tile[k] : k \in live}

\* assert(0 == value), manager.cpp:399.
NeverAborts == ~aborted

\* A buffer is placed in the memory of the tile of its kernel: the tile is cut
\* off from the others, so find_memory finds no other memory.
BufferOnKernelTile ==
    [][\A b \in Buffers : b \in mine' /\ b \notin mine =>
         buffer_at'[b].tile = kernel_tile[BufferKernel[b]]]_vars

\* allocate_kernel and release_kernel use the tiles as HNUnits does.
ImplementsUnits == U!Spec

\* What is inductive about events, for clients that look at exit codes: an event
\* known to be empty has an empty register of its own.
EventRegisters ==
    /\ event_reg \in [Events -> {0} \cup Registers]
    /\ \A e \in Events \cap mine : event_reg[e] \in Registers
    /\ DOMAIN reg = {0} \cup Registers

CleanIsEmpty == \A e \in clean : e \in Events \cap mine /\ reg[event_reg[e]] = 0

EventInv == EventRegisters /\ EventsApart /\ CleanIsEmpty
=============================================================================
