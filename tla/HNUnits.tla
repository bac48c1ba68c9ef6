------------------------------ MODULE HNUnits -------------------------------
(***************************************************************************)
(* The tiles of a cluster of HNemu (gn/hnemu/hnemu.cpp) and the isolation  *)
(* of the areas reserved in it.  A user asks for a set of tiles: as        *)
(* GNManager::allocate_kernel does, find_units_set and reserve_units_set   *)
(* follow each other in one call.  Every tile has the type asked for.      *)
(*                                                                         *)
(* The bandwidth of a port is either all of it or 0: cut is the set of the *)
(* ports <<tile, port>> left with 0.                                       *)
(***************************************************************************)
EXTENDS HNMesh, FiniteSetsExt

CONSTANTS MemTiles,  \* the tiles with memory attached
          Users,     \* the callers that reserve tiles
          SetSizes   \* the numbers of tiles they ask for

ASSUME UnitsAssumption ==
    /\ MemTiles \subseteq Tiles
    /\ SetSizes \subseteq Nat \ {0}

VARIABLES assigned,  \* the tiles whose assigned flag is 1
          cut,       \* the ports with available bandwidth 0
          held       \* the set each user was given and has not released

unitVars == <<assigned, cut, held>>

-----------------------------------------------------------------------------
\* find_single_units_set around memory tile m.
Near(m, n) == FirstVisited(m, Searched(m) \ assigned, n)

\* find_units_set: the sets of n tiles found around a memory tile, and the
\* cheapest of them, the first one on a tie.
Candidates(n) ==
    {c \in {[mem |-> m, tiles |-> Near(m, n)] : m \in MemTiles \ assigned} :
       Cardinality(c.tiles) = n}

Cost(c) == MapThenSumSet(LAMBDA t : Distance(c.mem, t), c.tiles)

Found(n) ==
    {c.tiles : c \in {c \in Candidates(n) : \A o \in Candidates(n) :
       \/ Cost(c) < Cost(o)
       \/ Cost(c) = Cost(o) /\ Index(c.mem) <= Index(o.mem)}}

\* A faulty variant: only the tiles added to S are marked.
ReserveSupplement(S) ==
    \E area \in {Box(S)} :
      /\ assigned' = assigned \cup (area \ S)
      /\ cut' = cut \cup Walls(area)

\* reserve_units_set: the whole rectangle around S is reserved and cut off.
\* (No tile of S is assigned: find_units_set has just returned S.)
ReserveSet(S) ==
    \E area \in {Box(S)} :
      /\ assigned' = assigned \cup area
      /\ cut' = cut \cup Walls(area)

\* A faulty variant: the tiles outside are not looked at.
ReleaseAllWalls(S) ==
    \E area \in {Box(S)} :
      /\ assigned' = assigned \ area
      /\ cut' = cut \ Walls(area)

\* release_units_set: the rectangle is freed, and a port on its border gets its
\* bandwidth back unless the tile outside is assigned.
ReleaseSet(S) ==
    \E area \in {Box(S)} :
      /\ assigned' = assigned \ area
      /\ cut' = cut \ {w \in Walls(area) : Ends(w) \cap assigned' = {}}

-----------------------------------------------------------------------------
Init ==
    /\ assigned = {}
    /\ cut = {}
    /\ held = [u \in Users |-> {}]

Allocate(u, n) ==
    /\ held[u] = {}
    /\ \E S \in Found(n) :
         /\ ReserveSet(S)
         /\ held' = [held EXCEPT ![u] = S]

NotFound(u, n) ==
    /\ held[u] = {}
    /\ Found(n) = {}
    /\ UNCHANGED unitVars

Release(u) ==
    /\ held[u] # {}
    /\ ReleaseSet(held[u])
    /\ held' = [held EXCEPT ![u] = {}]

Next ==
    \E u \in Users :
      \/ \E n \in SetSizes : Allocate(u, n) \/ NotFound(u, n)
      \/ Release(u)

Spec == Init /\ [][Next]_unitVars

-----------------------------------------------------------------------------
\* Types.  A port written exists: it has a router on both sides.
TypeOK ==
    /\ assigned \in SUBSET Tiles
    /\ cut \in SUBSET {w \in Tiles \X Ports : Neighbour(w[1], w[2]) \in Tiles}
    /\ held \in [Users -> SUBSET Tiles]

\* No tile is given to two users: find_units_set takes no tile that is reserved
\* ("perform check if tile is not assigned or preassigned", hnemu.h:407).
HeldDisjoint ==
    \A u, v \in Users : u # v => held[u] \cap held[v] = {}

Areas == {Box(held[u]) : u \in Users}

\* The reserved tiles and the ports without bandwidth are those of the areas
\* held, no more and no fewer, in whatever order neighbouring areas are reserved
\* and released: nothing stays reserved or cut off after its release.
AreasExact ==
    /\ assigned = UNION Areas
    /\ cut = UNION {Walls(B) : B \in Areas}

\* The value of get_available_network_bw is not 0.
RouteOpen(src, dst) ==
    \A t \in RouteTiles(src, dst) : <<t, RoutePort(t, dst)>> \notin cut

\* "isolate area using bw" (hnemu.cpp:1367): two tiles have bandwidth between
\* them exactly when neither is reserved nor is a tile on the XY route.
RoutesExact ==
    \A src, dst \in Tiles :
      src # dst =>
        (RouteOpen(src, dst) <=>
           (RouteTiles(src, dst) \cup {dst}) \cap assigned = {})

\* What is inductive when users ask for one tile at a time: every area is one
\* tile, and the tiles of two users differ.
OneTileEach ==
    \A u \in Users : held[u] = {} \/ \E t \in Tiles : held[u] = {t}

IndInv == TypeOK /\ OneTileEach /\ HeldDisjoint /\ AreasExact
=============================================================================
