# A TLA+ model of HHAL

HHAL gives a program access to heterogeneous accelerators: kernels on the
nodes of an emulated many-core cluster ("GN", `src/gn`) and on NVIDIA GPUs
(`src/nvidia`), directly (`src/hhal.cpp`) or through a daemon (`src/daemon`).
This directory holds TLA+ modules of its core, the TLC configurations that
check them, and TLAPS proofs of the most important results.

## Inventory

| Component | State | Operations | Interacts with |
|---|---|---|---|
| HHAL facade (`hhal.cpp`) | which unit each kernel, buffer, event belongs to | `assign_*`, `deassign_*`, and every other call, dispatched by unit; `kernel_write` compiles on the way | GNManager, NvidiaManager, compiler |
| GNManager (`gn/manager.cpp`) | maps of assigned and allocated kernels, buffers, events; `event_register_off`; device memory (an mmapped file) with the sync registers at its start | `allocate_`/`release_` kernel, memory, event; `write_`/`read_sync_register`; `write_to_`/`read_from_memory`; `kernel_start` | HNemu (calls), kernels (forked processes that share the device memory and a semaphore) |
| HNemu memory (`gn/hnemu/hnemu.cpp`) | a linked list of free slots and a counter for each tile with memory | `get_free_memory`, `find_memory`, `allocate_memory`, `release_memory` | GNManager |
| HNemu tiles (same file) | the `assigned` flag of each tile, the available bandwidth of each router port | `find_units_set`, `reserve_units_set`, `release_units_set`, `get_available_network_bw` | GNManager; `find_memory` reads the bandwidth |
| HNemu bandwidth (same file) | available and configured bandwidth of ports, memories and the cluster | `reserve_*`, `release_*`, `get_available_*` for each of them and for routes | nothing in the repository calls them; they share the counters of the ports with the reservation of tiles |
| NvidiaManager, EventRegistry, ThreadPool (`nvidia/`) | maps as above; the value of each event under a mutex; a queue of launches | the same API; launches run on pool threads | CUDA API |
| Daemon server (`daemon/base/server`) | per socket: receive and send buffers, expected data, a listener | one poll loop: accept, receive, consume, send | HHALServer (callbacks) |
| HHALServer, HHALClient (`daemon/*.cpp`) | the command in progress of a connection | one-phase and two-phase commands | sockets; HHAL |
| Dynamic compiler (`dynamic_compiler/`) | a directory of saved kernel strings and cached binaries | `save_to_file`, `get_binary`, `delete_unused_files` | compilers, files, their times |
| Event protocol of the clients (`test/event_utils.cpp`) | none of its own | `wait`, `lock`, `write` | sync registers, the semaphore, kernels |

What is hard in each of them:

- **HNemu memory**: the case analysis of `release_memory` (grow up, grow down,
  join, insert, at either end) on a list that does not stay sorted; addresses
  that wrap; a list that must never become empty.
- **HNemu tiles**: neighbouring areas share walls, so reserving and releasing
  them in any order must cut off and reopen exactly the right ports.
- **HNemu bandwidth**: routes that share ports, reservations that must take a
  whole route or nothing, counters that isolation sets to 0 and opens again with
  all the configured bandwidth, whatever is reserved of them.
- **GNManager**: calls that fail half way (the buffer is recorded before its
  memory is allocated), maps read with `operator[]`, registers that run out and
  keep old values, events that must be empty when a buffer is allocated.
- **Events**: reading a register clears it, writing adds to it; two waiters of
  one event steal each other's values and write them back; a kernel that dies
  between `sem_wait` and `sem_post` stops everybody, and so does one that died
  in an earlier program, since the semaphore outlives them.
- **HHAL and compiler**: an id that is used again on the other unit; a map that
  inserts GN when it is read; binaries chosen by base name and modification time,
  for whatever unit they were made, and deleted by age while a kernel may still be
  started from them; sources edited while they are being compiled.
- **NVIDIA**: launches on other threads read maps the API thread changes; calls
  that fail after they have allocated; shutdown with launches queued.
- **Daemon**: messages arrive in any fragmentation; two-phase commands; a
  connection closed between the phases.

`PROJECT.json` lists the hazards one by one with the line where each bites.

## Modules

```
HNFreeList   pure operators on a free list
  HNMemory   one tile's memory, a state machine         --implements--> HNArena
HNMesh       geometry of the mesh: boxes, walls, routes, search order
  HNUnits    reserving and releasing tiles
  HNBandwidth  reserving bandwidth, next to isolation   --implements--> HNLedger
GNManager    kernels, buffers, events over HNFreeList and HNUnits
                                                        --implements--> HNUnits
GNEvents     host and kernels over the sync registers and the semaphore
  GNPrograms two clients of the repository as programs of GNEvents
KernelCache  pure operators on the compiler's files
  HHAL       the facade: units of ids, kernels compiled on the way
ThreadPool   workers and their queue
  NvidiaManager  launches on the pool, termination events, clients
DaemonProtocol   commands, data and answers
  DaemonServer   the poll loop and the handlers of the daemon
    Daemon       clients and daemon over sockets        --implements--> RemoteCalls
*_proofs     theorems;   MC*   instances for TLC
```

The operators named as faulty variants are what a likely mistake in the code
would make of the operator after them; no specification uses them. They show
that each property notices such a mistake.

### HNFreeList, HNMemory, HNArena

`HNFreeList` translates `get_free_memory`, `allocate_memory` and
`release_memory` into operators on a sequence of slots `[start, size, end]`.
Searches are written as the set of positions at which the walk stops (none or
one). Addresses are computed modulo `AddrSpace`, which stands for 2^32.

`HNMemory` is the memory of one tile under the use GNManager makes of it:
`Allocate` is `find_memory` followed by `allocate_memory` with the address
found; `FoundNotAllocated` is the same pair when the second call refuses;
`Release` gives back a block that was granted. `granted` is a history variable,
the blocks the callers hold. `HNArena` is what they rely on: a set of disjoint
blocks inside the tile.

The assumption `MemSize < AddrSpace` in `MemoryFits`: a tile with the whole
4 GiB address space would make the block at address 0 look adjacent to the last
slot (`end_address + 1` wraps to 0). `Sizes` excludes 0: a size of 0 is not a
request for memory (the 64-bit size of a buffer is truncated to 32 bits on its
way to HNemu; sizes from 4 GiB on are left out too).

### HNMesh, HNUnits

A tile is its pair of coordinates. `Rank` is the order in which both searches
(`find_memory`, `find_single_units_set`) visit tiles, `Searched` the tiles they
visit (both stop one ring before the opposite corner). `cut` is the set of
router ports whose available bandwidth is 0; no other value than 0 and the full
bandwidth is ever stored by the calls modelled. `ReserveSet` and `ReleaseSet`
are `reserve_units_set` and `release_units_set`; the early exits of the first
for a tile already assigned cannot be taken right after `find_units_set`.
`held` is what each caller was given.

### HNBandwidth, HNLedger

`avail` holds every `avail_` field: of a router port, of the read and write
bandwidth of a memory and of the cluster. `ReserveOne` and `ReleaseOne` stand
for the calls about one of them, `ReserveNetwork` and `ReleaseNetwork` for those
about the XY route between two tiles, `Isolate` and `Open` for
`reserve_units_set` and `release_units_set`. `ReleaseNetwork` keeps the early
return of the code, which stops at a port that has more than is configured.
`HNLedger` is what the calls promise: a request is granted exactly when it fits.

Nothing in the code keeps reservations and isolation apart: `Isolate` takes all
of the bandwidth of the ports on a border and `Open` gives them all that is
configured, so that either erases what clients have reserved there. `standing` is
what still counts of a reservation, and `lost` the counters that are wrong because
what an isolation had erased was given back; the next isolation of such a port
mends its counter (`Erase`). A release that leaves more than is configured says so
after the fact. `BandwidthInit` has both ways to configure the emulator:
`fill_config`, with an XML file, never sets what is available of the cluster, which
is then whatever was in memory (`Garbage`).

The model takes two things for granted, and nothing in the code enforces them:
clients release what they have reserved, with the amount they reserved; and a route
has two different ends (with equal ends `get_available_network_bw` looks at the
local port and `reserve_network_bw` walks off through another one).

### GNManager

One action per call of the client: `AllocateKernel`, `ReleaseKernel`,
`AllocateEvent`, `ReleaseEvent`, `WriteSyncRegister`, `ReadSyncRegister`,
`AllocateMemory`, `ReleaseMemory`. Calls are not interleaved: one process calls
one manager from one thread. The maps are total functions whose default is what
`operator[]` inserts. `mine` is what the client takes for allocated and `clean`
the events it has read since the last write; the constants `ChecksExitCodes`
and `DrainsEvents` say whether the client looks at exit codes and whether it
reads the event of a buffer before it allocates the buffer again.
The addresses of `write_to_memory` and `read_from_memory` are those of
`buffer_at`; the contents are not modelled.

### GNEvents, GNPrograms

Host and kernels are processes that execute programs of four instructions:
start a kernel, write an event, wait for a value of an event, and work on areas
of memory. An access to a register is three steps, `Enter` (`sem_wait`), `Load`
and one of the `Finish` actions (the store and `sem_post`), so that accesses
without the semaphore, or with two permits of it, interleave. `FinishRead`
and `FinishRewrite` are the loop of `wait`: a value that is not the one awaited
is kept in `hand` and written back. `Crash` ends a kernel anywhere. `RecoverSem`
is `utils/recover_sem`, which posts the semaphore whether a kernel died holding the
permit (`orphaned`) or not (`spare`). `sem_open` opens a semaphore that exists, so
that `Init` has those that earlier programs leave behind. A work instruction is two steps, so that races on an area are seen; what an area holds
is the list of the kernels that have made it.

The kernels' side of the registers is in a library outside the repository; it
is taken to access them as the host does, and `mango_close` to write 1 to the
termination event, which is what the hosts of the tests wait for.

`GNPrograms` has the animation of `gn_gif_animation.cpp`, where three kernels
synchronise through one event, and the matrix multiplication of
`gn_launch_kernel.cpp`, where host and kernel wait on one event for different
values; both with the kernels of `test/gn_kernels`. The picture is split into
its edge and its inside, which different kernels write last. `GifHost` is the loop
of `main` unrolled, for any sequence of `Frames`. `ProgramsAssumption` keeps the
names of the client, the frames and the buffers apart, which are different objects
in the program and strings here.

### KernelCache, HHAL

`KernelCache` translates the compiler: a file has a modification time, an access
time and a content, which for a binary is the version of the source the compiler
read, the unit it compiled for and the time at which it began. `bin_path` keeps the
base name of a source alone, neither its directory nor the unit: `BinaryOf` is that
name, and whether a binary is used again depends on it and on the times
(`ShouldCompile`). `DeleteUnusedFiles`, `SaveToFile` and `ShouldCompile` are the functions of
those names. Reading a file may or may not set its access time, as mount options
decide. Times are whole seconds, like those of `stat`.

`HHAL` has the facade: `unit_of` is its three maps, `info` and `held` what the
managers know and hold, `client` what the client has done. `UnitOf` is the read
with `operator[]`, which inserts GN. `KernelWrite` goes up to the compiler,
`Compile` is the compiler, which succeeds, with any version the source had since
the call, or fails, and `WriteImage` the call of the manager; users edit sources and
time passes between them. `setup` says which units there are and which sources the
users compile for which of them (`given`). GNManager keeps
the path of the program and NvidiaManager loads it, so that only a GN kernel
can find its file changed or gone. A transfer may name an id that has been
deassigned. Ids have one user at a time: clients of the daemon that choose the
same id share a resource, which the model leaves out.

### ThreadPool, NvidiaManager

`ThreadPool` is the pool and its `SynchronizedQueue`, one step for each time a
thread holds the mutex: `Put` appends and notifies one waiting worker, `Take`
and `Sleep` are the two outcomes of the test in `get`, and `WakeSpuriously` is
what a condition variable may do. `done` is atomic in the code and so is its
test here. Several puts are possible before a notified worker runs.

`NvidiaManager` adds the calls of the API and the launches. `client[k]` is how
far the client of kernel `k` is, with the buffer and the termination event of
that kernel: assign and allocate, `kernel_write`, reset, start, wait, possibly
start again, and the deallocation in the order of `nvidia_dummy_rm.cpp`. Memory
allocation and `kernel_write` can fail, the latter before or after it has taken
memory on the GPU; the client then deallocates. `device[k]` is what the GPU
holds of a kernel. The clients of different kernels interleave freely, as several
programs connected to the daemon do, and calls of the API are atomic because
they come from one thread. `launch_kernel` is two steps, the lookups and the end
of the launch, so that anything can happen while a kernel runs; a launch that
fails writes the termination event like one that succeeds. Destruction is two
steps as well, because `cuda_api` and `registry` are destroyed before the
destructor of the pool runs. The program may end whenever it waits for no
kernel; what the pool does with launches queued at that time is outside the
contract. Transfers of data go straight to the CUDA API and are left out.

### DaemonProtocol, DaemonServer, Daemon, RemoteCalls

An operation stands for the commands served alike: `plain` (deassign, allocate,
release, `write_sync_register`), `register` (`read_sync_register`), `read`
(`read_from_memory`) and `write` (the commands in two phases: assign,
`kernel_write`, `kernel_start`, `write_to_memory`). A stream is a sequence of
units; a command has two, so that it can arrive in pieces, and every unit names
the operation it belongs to, so that a byte in the wrong place is seen. What
HHAL does in a call is one of `Results`.

`DaemonServer` follows `server_loop` step by step: `revents` is what `poll`
returned and has not been looked at, `At(i, e)` is the place of the loop, and a
client may move between any two steps. `Poll` is enabled when the round before it
is over: no event is left and no buffer is being consumed. An entry without a
connection is `NoSocket`, a null pointer in the code and so none of the `Entries`. `sockets[i]` has the buffers of a
`Socket`: `buf` is the message buffer, `cmd` and `data` the command in two
phases and what has come of its data, `queue`, `sending` and `in_progress` the
answers. `HangUp`, `ReceiveMessage` and `ReceiveData` are the outcomes of
`receive_messages`; `Consume` is a round of `consume_message_buffer` with the
handler it calls; `SendLater`, `SendSome` and `SendError` are the outcomes of a
round of `send_messages`. The buffer is longer than a command, but `HHALClient`
never sends beyond the command it awaits the answer of.

`Daemon` adds the clients. The functions of `HHALClient` differ in what they do
after the first response, which is `AfterBase`. `Close` may happen at any time:
it is the end of the process. `RemoteCalls` is what a client relies on, a call
executed at most once that returns its own result; `CallState` maps to it, and
gives a state `RemoteCalls` does not have when the daemon executes another
operation, or other data, than those of the call.

## Runs

| Run | Instance | Result |
|---|---|---|
| `memory` | 6 units ending at the top of the address space, sizes 1 to 3, lists up to 4 slots | pass: `TypeOK`, `Partition`, `FreeMemoryExact`, `ImplementsArena` |
| `memory_found` | 6 units, size 2 | **violated**: `FoundIsAllocatable` |
| `units` | 3 x 3 mesh, 5 memory tiles, 6 users of one tile | pass: `TypeOK`, `HeldDisjoint`, `AreasExact`, `RoutesExact` |
| `bandwidth` | 3 x 2 mesh with a narrow port, 2 clients, amounts 1 and 2, 2 routes, 2 single resources, 2 areas across the routes; configured by default or from a file | pass: `BandwidthTypeOK`, `BandwidthExact`, `ImplementsLedger` |
| `manager` | 2 memory tiles, 2 kernels, 2 buffers of 2 and 4 units, 3 events for 2 registers that start with leftovers | pass: `TypeOK`, `MemorySharedOut`, `KernelTilesApart`, `EventsApart`, `NeverAborts`, `BufferOnKernelTile` |
| `events` | the animation with its 4 frames, and the matrix multiplication; up to 2 kernels die, the semaphore is left taken or posted once too often | pass: `TypeOK`, `AccessesAtomic`, `NoDataRace`, `ResultsRight`, `SomeoneCanGoOn`, `ValuesKeptApart` |
| `kernels` | two kernels on GN; a kernel on NVIDIA; a kernel, or a buffer and an event, on either unit; one user source, given for one unit or both, one kernel string, one binary of the user | pass: `TypeOK`, `Routed`, `ProgramsAsAsked` |
| `nvidia` | 2 workers, 2 kernels | pass: `TypeOK`, `LaunchAccounted`, `LaunchesValid`, `NothingLeft`, `TerminationReported`, `ShutdownEnds` |
| `nvidia_maps` | 2 workers, 2 kernels | **violated**: `MapsReadAlone` |
| `daemon` | 3 clients, 2 entries; writes and reads of 2 units | pass: `TypeOK`, `CleanBetweenCalls`, `ImplementsRemoteCalls` |
| `daemon_calls` | 2 clients, 1 entry; every operation | pass: `CallsReturn`, `EntriesFreed` |
| `daemon_empty` | 1 client, 1 entry, reads of 0 units | **violated**: `QueuedIsSent` |

What the violated runs say about the code is in `PROJECT.json` under `findings`:
`find_memory` may provide an address that `allocate_memory` refuses; the maps of
`NvidiaManager` are read on pool threads while another kernel is assigned; an
empty answer blocks the answers behind it.

More configurations show why the passing runs and the theorems say no more than
they say. Each of them finds the invariant it names violated:

| Configuration | Invariant | What it shows |
|---|---|---|
| `MCHNUnitsArea.cfg` | `HeldDisjoint` | for sets of 3 tiles, the rectangle that `reserve_units_set` reserves can contain tiles of another user, and `release_units_set` frees them; GNManager asks for single tiles, so `units` does |
| `MCGNManagerCodes.cfg` | `RegistersReserved` | a client that ignores a failing `allocate_memory`, as the resource manager of the tests does, frees the memory of the sync registers when it releases the buffer; `manager` has `ChecksExitCodes` |
| `MCGNManagerReuse.cfg` | `NeverAborts` | a buffer allocated again while its event holds a value fails the assertion of `allocate_memory`; `manager` has `DrainsEvents` |
| `MCHNBandwidthBorders.cfg` | `BordersClosed` | a reservation from before the isolation of an area, given back while it is isolated, leaves a gap in its border, across which bandwidth can be reserved; `BandwidthExact` leaves out the counters that are `lost` |
| `MCHHALUnits.cfg` | `RightUnit` | a source that was compiled for GN and is given again for NVIDIA is not compiled again, and the GPU is given the executable of the other unit; `ProgramsAsAsked` lets compilations that share a base name be taken for each other |
| `MCHHALStale.cfg` | `UpToDate` | a source edited while it is being compiled, in an earlier second than the binary is written, is older than the binary and never compiled again; `ProgramsAsAsked` excepts the edits made during the compilation, and no others |
| `MCHHALSaved.cfg` | `SavedIsFound` | a kernel string given again after its file expired is deleted between `save_to_file` and `get_binary`, and `kernel_write` fails; `kernels` does not ask for more than that the wrong program is never run |
| `MCGNEventsRecover.cfg` | `RegistersAtomic` | `recover_sem` run when nobody died with the permit, or a semaphore left so by it, lets two processes into the registers at once; the properties of `events` hold until then (`Intact`) |

Bounds, and why they are enough:

- **memory**: six units with blocks of 1 to 3 have every case of
  `release_memory` (each is taken), up to six blocks, and lists that are out of
  order; `AddrSpace = 13` puts the end of the tile at the wrap. Lists are capped
  at `MaxSlots` because the empty slots left by `allocate_memory` can pile up at
  the head without bound; three slots already give every case.
- **units**: the dense mesh has pairs of neighbouring memory tiles in both
  directions, a tile with three reserved neighbours, and more users than tiles
  to give.
- **bandwidth**: two routes that share a port, one of them through a port too
  narrow for the larger amount, single reservations of a port of a route and of the
  cluster, and two neighbouring areas whose borders cross both routes, so that what
  is reserved is erased, given back and mended again. Two clients are enough for the
  sharing of a counter: a third one is refused where two hold all there is. One
  value of `Garbage`, above what is configured, stands for what was in memory.
  `Largest`, the largest amount, only serves the type invariant: a port that is
  opened under reservations exceeds what is configured by no more than the amounts
  of all the clients.
- **manager**: memory and registers run out. A register counts modulo
  `Word = 3`: sums of the values 1 that are written and the 2 of a prepared
  buffer wrap. Two events are bound to no buffer, hence the symmetry.
- **events**: the applications are those of the tests, complete; `Word = 8` is
  more than any sum of the values they write, so that a sum is never taken for
  a value; two deaths let one kernel die with the permit and another after the
  recovery. `MaxSpare = 1`: after one post too many nothing is promised. The
  hosts end, so deadlock is not checked; that nobody can go on before is
  `SomeoneCanGoOn`.
- **kernels**: with `Expiration = 1` and `MaxTime = 2` a file can expire, be made
  again and be used; `MaxVersion = 2` lets the source change before, during and
  after a compilation. A setup (`Setups`) keeps apart what does not interact:
  where users take care, the source is given for one unit only, and a program is of
  the source and unit asked for; where it is given for both, one kernel that is
  assigned to the units in turn is enough to get the binary of the other; the
  dispatch of buffers and events needs both units and no programs.
- **nvidia**: with two workers and two kernels both workers can wait, both can
  run, one can wait while two tasks are put, and the destructor can meet any of
  these; a kernel has at most one launch outstanding, so the queue needs no
  bound. The program ends, so deadlock is not checked.
- **daemon**: a connection is opened once and makes any number of calls. Three
  connections for two entries let an entry be reused while another is served,
  and a connection be rejected; `Room = 2` is less than the longest answer, so
  messages are sent in parts; two units of data are received in one piece or
  two. Writes of 0 units are left out: a command in two phases without data, such
  as the start of a kernel without arguments, is acknowledged, never executed,
  and its client waits for ever (`hhal_server.cpp:313`). Reads of 0 units have the
  run `daemon_empty`. The daemon sleeps in `poll` when every client has gone, so
  deadlock is not checked.

Fairness:

- `Daemon` assumes weak fairness of the daemon, which never leaves its loop, and
  of a client in a call, which is blocked in `send` or `recv` and continues when
  it can; nothing obliges a client to make a call or to close.
- `NvidiaManager` assumes weak fairness of each worker (the scheduler lets every
  thread run and a launch on the GPU returns), of the client that waits (it polls
  in a loop), and of the destructor once it has begun. Nothing obliges a client to
  make a call or the program to end, and no particular waiting thread is favoured
  by `notify_one`.

`GNEvents` assumes no fairness and has no liveness property. Two waiters of an
event poll it: one could take the value meant for the other and write it back for
ever, and the other always read in between. Nothing orders them, so the code leaves
this to the scheduler. What the code does answer for is that no value gets lost
between them, which is `SomeoneCanGoOn`: until the client has ended, some process
has a step to make other than to poll, or the value it polls for is in the register
or in the hands of a waiter who writes it back. It excepts the runs in which a
kernel died, where the client waits for ever.

## Proofs

The memory of a tile. `HNFreeList_proofs` says what the operators of `HNFreeList`
do to the list of a memory of any size at any base: `TakeRemovesBlock` (the list
offers what it offered but the block) and `PutsRestore` (and the block again).
The argument goes from one slot (`ShrinkSlot`, `GrowUpSlot`, `GrowDownSlot`,
`JoinSlots`) to a list (`ReplaceSlot`, `RemoveSlot`, `InsertSlot`) to the two
operations, and never needs the list to be sorted. `GoodList` carries `SlotIn`, that
a slot's end address agrees with its start and size: `release_memory` tests end
addresses to decide whether a block is adjacent to a slot, while the properties
only speak of the addresses a slot offers; and an empty slot still has an end
address, with which a block can be merged.

`HNMemory_proofs` proves from these, for every address space, memory and set of
sizes (`AddrSpaceAssumption`, `MemoryAssumption`):

- `TypeCorrect`: `Spec => []TypeOK`;
- `PartitionHolds`: `Spec => []Partition`;
- `TileImplementsArena`: `Spec => ImplementsArena`;
- `CounterExact`: `Spec => []FreeMemoryExact`, the counter `free_memory` is the
  number of addresses that the list offers.

The sum of the slots' sizes would need an induction over the list. The number of
addresses offered is the same and needs none: with `Partition`, a call takes a
block of addresses out of the set `Offered(list)` or puts one back, and
`FS_Interval`, `FS_Subset` and `FS_Difference` give the cardinality.

`HNCluster_proofs` proves, for every mesh and every placement of memory,
`TypeCorrect` (`Spec => []TypeOK`) for sets of any size and, when tiles are asked
for one at a time (`SetSizes = {1}`, as GNManager does):

- `NoTileHeldTwice`: `Spec => []HeldDisjoint`;
- `NothingLeftCut`: `Spec => []AreasExact`;
- `RoutesIsolated`: `Spec => []RoutesExact`.

`IndInv` adds `OneTileEach`; `MCHNUnitsArea.cfg` shows that the restriction to
one tile is necessary. `RoutesExact` follows from `AreasExact`: a route that
meets a reserved tile crosses one of its walls at the step before or after it.

The same module proves of the bandwidth, for every mesh, capacities, amounts,
routes, rectangles, finite set of clients and memory the emulator starts with:

- `CountersInRange`: `BandwidthSpec => []BandwidthTypeOK`: no counter wraps below 0,
  and however areas are isolated and opened under reservations, a port exceeds what
  is configured by no more than the clients' amounts;
- `NoBandwidthLost`: `BandwidthSpec => []BandwidthExact`, a counter is what is
  configured less what the clients hold of it and no isolation has erased, and 0 at
  a wall of an isolated area, unless it is `lost`;
- `CountersImplementLedger`: `BandwidthSpec => ImplementsLedger`: a request is
  granted exactly when it fits, as far as the accounts are right; what counts in
  full is given back without complaint; and only giving back what was erased loses
  an account, which the next isolation there restores.

`BandwidthInv` adds that isolated areas are disjoint or lie on two sides of a wall,
that no reservation that counts goes through a wall, but where the account is
lost, and that the two counters of the cluster are lost together or not at all.
What the clients hold is counted as the cardinality of a set
with one element for every unit of bandwidth of every client, so that a
client's reservation adds or removes a part of the set, and no sum over the
clients has to be unfolded. `AvailableNetwork` is the smallest counter of a
route; that there is one, for a route of any length, is the lemma `Smallest`: the
strict subset order on finite sets is well-founded, so among the sets of the
elements below each element one is minimal, and that element is the smallest.

`GNManager_proofs` proves, for every mesh, every placement and size of the
memories and any kernels, buffers and events, when the client looks at exit codes
(`ChecksExitCodes`):

- `TypeCorrect`: `Spec => []TypeOK`;
- `MemoryStaysSharedOut`: `Spec => []MemorySharedOut`;
- `KernelsUseUnits`: `Spec => ImplementsUnits`, the kernels are users of
  `HNUnits` who ask for one tile at a time, which is what its theorems are about;
- `KernelTilesStayApart`: `Spec => []KernelTilesApart`;
- `EventsStayApart`: `Spec => []EventsApart`;
- `DrainedEventsNeverAbort`: `Spec => []NeverAborts`, if the client also drains
  events (`DrainsEvents`);
- `BuffersStayOnKernelTile`: `Spec => []BufferOnKernelTile`, the memory of a buffer
  is the one of a tile of its kernel.

The refinement maps `held` to the tiles of the kernels held; a step of another
call stutters because the ids of kernels, buffers and events are kept apart
(`KindsAssumption`). `EventInv` is `EventsApart` with `CleanIsEmpty`: an event
known to be empty has an empty register. It needs `EventsApart` to survive a
write to another event, and gives `NeverAborts` at the one step that asserts.
`MemInv` says of each address of a memory that its list offers it once, or that
it has one owner; a buffer lies in the memory it was taken from, which is why its
release, to the tile recorded in `allocated_buffer_info`, is a block of the right
list. `MemoriesApart` (each memory has the addresses after those of the last, as
`fill_config` assigns them) keeps a block out of the other lists. `IsolationInv`
says that every port of a reserved tile towards another tile is cut. Hence no
route leaves the tile of a kernel, `find_memory` finds no bandwidth to any other
memory, and the memory it returns for that kernel can only be its own.

`GNEvents_proofs` proves, for any applications, number of processes and deaths:

- `TypeCorrect`: `Spec => []TypeOK`, hence that the semaphore has one permit as
  long as it is posted only for processes that died with it (`Intact`);
- `RegisterAccessesAtomic`: `Spec => []AccessesAtomic`.

`EventsInv` adds `Permit`, which holds while `Intact` does: the permit is in the
semaphore, or with the one process that accesses a register, or lost with a process
that has died, of this program or an earlier one, so that running `recover_sem` for
it never makes a second one. A post too many is never taken back (`SpareStays`), so
that up to it the argument is that of a semaphore nobody posts without need.

For the two clients of `GNPrograms` (`Apps \subseteq {Gif, Matrix}`), any number of
frames, any register width that holds their values and any kernels that die, it
proves what the clients rely on:

- `NoDataRaceEver`: `Spec => []NoDataRace`;
- `ResultsAreRight`: `Spec => []ResultsRight`;
- `ValuesStayApart`: `Spec => ValuesKeptApart`.

With `AccessesAtomic`, an access counts as one step on its register
(`WriteIsAtomic`, `ReadIsAtomic`, `RewriteIsAtomic`). The invariant of the
animation follows a baton: it is with `scale`, then the event holds 1, then it is
with `copy`, then the event holds 2, then it is with `smooth`. Smooth may also
have 1 in its hand, which it has read and did not wait for. `GifControl` says that
there is one baton and which of these places belong to which instruction of the
client; the kernels of a frame have ended before the next frame starts, since the
client waits for the three termination events. It follows that one process works at
a time, and that a register is written only when it holds 0. `GifPictures` says
what the buffers hold in each place of the baton, and `GifFiles` that the frames
before the present one are saved. The client is at instruction `r` of frame `n`,
`GifState(n, r)`; the number of frames is only in the arithmetic of `HostAt`. A
kernel that dies drops the baton, and nothing moves again that could be wrong.
`MatrixInv` is the same for the 2 that allocation leaves in the event of the
buffer, which the client may take and write back before the kernel reads it.

`Daemon_proofs` proves, for any number of clients and entries, any `Room`, any
fragmentation of the streams, and clients that leave at any time:

- `CallsFollowed`: `Spec => []CallInv`, if no read is of zero bytes;
- `DaemonTypes`: `Spec => []TypeOK`;
- `DaemonClean`: `Spec => []CleanBetweenCalls`;
- `DaemonImplementsCalls`: `Spec => ImplementsRemoteCalls`.

All four assume `ReadsNotEmpty`. It is necessary: the answer to a read of 0 bytes is
an empty message, which the server puts back in progress for ever, as the run
`daemon_empty` shows. `CallInv` follows one connection from end to end. What the
server has in its buffer, what is in the stream and what the client has not sent
yet, put together, are the command or the data of the call; what is in the stream
to the client, in the message being sent and in the queue, put together, are the
rest of one answer. Moving a piece from one place to the next changes neither, so
fragmentation needs no case of its own; the cases are the seven places of a call
(`Between`, `Commanded`, `Acknowledged`, `SendingData`, `Answered`, `Resting`,
`Reading`), and `ClosedOK` for a client that has gone.

`HHAL_proofs` proves, for any files, resources and setups:

- `TypeCorrect`: `Spec => []TypeOK`;
- `CallsReachTheirManager`: `Spec => []Routed`;
- `KernelsRunWhatWasAsked`: `Spec => []ProgramsAsAsked`, without further
  assumptions: a program is the file asked for, or was compiled from the source and
  for the unit asked for, or for one that has the same base name (`SameName`); and
  it misses no change of the source but one made while it was being compiled.

Both exceptions are what the code does, as `MCHHALUnits.cfg` and `MCHHALStale.cfg`
show; a user whose source has its base name for itself and is compiled for one unit
meets only the second. `ProgramInv` adds what the files are made of (`FilesRight`),
that a call under way will leave what it was asked for (`CallRight`), and that what
was asked for is never newer than the source (`ImagesRight`), so that compiling
again for one kernel leaves another with a version no older than its own.

`NvidiaManager_proofs` proves, for any number of threads and kernels:

- `TypeCorrect`: `Spec => []TypeOK`;
- `LaunchesAccounted`: `Spec => []LaunchAccounted`;
- `LaunchesStayValid`: `Spec => []LaunchesValid`;
- `NothingStaysBehind`: `Spec => []NothingLeft`.

`LaunchInv` has `Places`, which says without cardinalities that a started kernel
is in one place of the queue, on one worker, or reported, and `Extents`, which
says what there is of a kernel by how far its client is.

Only model-checked: liveness, which is out of the prover's reach
(`TerminationReported`, `ShutdownEnds`, `CallsReturn`, `EntriesFreed`, and
`QueuedIsSent`, which is violated), and `SomeoneCanGoOn`. Every other property that
a passing run checks is a theorem.

## Not modelled

- **Configuration**: the XML of `fill_config`; what it yields is the constants. Tile
  types: every tile has the type asked for, as in `config.xml`. Several clusters:
  GNManager uses cluster 0 only.
- **HNemu**: `find_units_sets`, which nothing calls. (Its scratch marks survive
  from one memory tile to the next, `hnemu.cpp:1282`.)
- **Argument strings** of GN kernels, and an image that is missing when a kernel
  is started, which is an assertion.
- **Transfers** on NVIDIA, which go to the CUDA API, and launches that wait for
  events, which `kernel_start` refuses.
- **Compiler**: libclang, which takes an old output for success; an NVIDIA compiler
  that fails unnoticed; the search for entry points; several processes that share
  the cache directory.
- **Daemon**: start and stop, the memory its handlers do not free, errors of the
  operating system other than a closed connection, and clients that choose the
  same ids.
- **Serialization** of the `assign_*` data: byte layout without state. Logging, the
  LLVM instance manager, the vendored parsers and the example kernels beyond their
  use of events and buffers.

## Plan

Done: all the modules above, and the proofs of every invariant, action property
and refinement that the runs check, but for `SomeoneCanGoOn`.

Left:

1. `ValuesKeptApart` as a condition on programs of any client, proved for all that
   meet it, rather than for the two of the tests. A condition that covers both is
   that one process at a time may write a nonzero value, which their invariants
   establish in different ways.
2. Clients of the daemon that share ids, composed of `Daemon` and `HHAL`.
3. A reference definition of `find_units_sets`, if it gets a caller.
