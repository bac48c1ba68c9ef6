--------------------------- MODULE HNCluster_proofs --------------------------
(***************************************************************************)
(* Proofs about a cluster of HNemu, on a mesh of any size: its tiles and   *)
(* their isolation (HNUnits), then its bandwidth (HNBandwidth), which uses *)
(* the same geometry of walls and routes.                                  *)
(***************************************************************************)
EXTENDS HNUnits, HNBandwidth, FiniteSetTheorems, WellFoundedInduction, TLAPS

LEMMA TileCoordinates ==
    ASSUME NEW t \in Tiles
    PROVE  /\ t = <<t[1], t[2]>> /\ t[1] \in Int /\ t[2] \in Int
           /\ t[1] >= 0 /\ t[1] <= Cols - 1 /\ t[2] >= 0 /\ t[2] <= Rows - 1
  BY MeshAssumption DEF Tiles

LEMMA TilesFinite == IsFiniteSet(Tiles)
<1>1. IsFiniteSet(0 .. Cols - 1) /\ IsFiniteSet(0 .. Rows - 1)
  BY FS_Interval, MeshAssumption
<1> QED BY <1>1, FS_Product DEF Tiles

\* The rectangle around one tile is that tile.
LEMMA BoxOfTile ==
    ASSUME NEW t \in Tiles
    PROVE  Box({t}) = {t}
<1>1. ASSUME NEW u \in Box({t}) PROVE u = t
  <2>1. u \in Tiles /\ t[1] <= u[1] /\ u[1] <= t[1] /\ t[2] <= u[2] /\ u[2] <= t[2]
    BY DEF Box
  <2> QED BY <2>1, TileCoordinates
<1>2. t \in Box({t})
  BY TileCoordinates DEF Box
<1> QED BY <1>1, <1>2

LEMMA BoxOfNothing == Box({}) = {}
  BY DEF Box

\* A search for one tile returns one tile that is not reserved.
LEMMA FoundOneTile ==
    ASSUME NEW S \in Found(1)
    PROVE  \E t \in Tiles \ assigned : S = {t}
<1>1. PICK m \in MemTiles \ assigned : S = Near(m, 1) /\ Cardinality(S) = 1
  BY DEF Found, Candidates
<1>2. S \subseteq Tiles \ assigned
  BY <1>1 DEF Near, FirstVisited, Searched
<1>3. IsFiniteSet(S)
  BY <1>2, TilesFinite, FS_Subset
<1>4. \E x : S = {x}
  BY <1>1, <1>3, FS_Singleton
<1> QED BY <1>2, <1>4

\* A port is on the border of a tile when it joins that tile and another.
LEMMA WallsOfTile ==
    ASSUME NEW t \in Tiles, NEW w \in Tiles \X Ports
    PROVE  w \in Walls({t}) <=>
             /\ Neighbour(w[1], w[2]) \in Tiles
             /\ w[1] = t \/ Neighbour(w[1], w[2]) = t
<1>1. w[1] # Neighbour(w[1], w[2])
  BY TileCoordinates DEF Neighbour, Ports
<1> QED BY <1>1 DEF Walls

-----------------------------------------------------------------------------
(* AreasExact, seen from the tiles and the ports.                          *)

OneTile(h) == \A u \in Users : h[u] = {} \/ \E t \in Tiles : h[u] = {t}

Exact(a, c, h) ==
    LET areas == {Box(h[u]) : u \in Users}
    IN  a = UNION areas /\ c = UNION {Walls(B) : B \in areas}

\* A tile is reserved when a user holds it; a port is cut when one of the two
\* tiles it joins is reserved.
ByTile(a, c, h) ==
    /\ \A t \in Tiles : t \in a <=> \E u \in Users : h[u] = {t}
    /\ \A w \in Tiles \X Ports :
         w \in c <=> /\ Neighbour(w[1], w[2]) \in Tiles
                     /\ w[1] \in a \/ Neighbour(w[1], w[2]) \in a

LEMMA ExactByTile ==
    ASSUME NEW a \in SUBSET Tiles, NEW c \in SUBSET (Tiles \X Ports), NEW h, OneTile(h)
    PROVE  Exact(a, c, h) <=> ByTile(a, c, h)
<1> DEFINE areas == {Box(h[u]) : u \in Users}
           marked == \A t \in Tiles : t \in a <=> \E u \in Users : h[u] = {t}
<1>1. \A u \in Users : \/ h[u] = {} /\ Box(h[u]) = {}
                       \/ \E t \in Tiles : h[u] = {t} /\ Box(h[u]) = {t}
  BY BoxOfTile, BoxOfNothing DEF OneTile
<1>2. ASSUME NEW t \in Tiles
      PROVE  t \in UNION areas <=> \E u \in Users : h[u] = {t}
  BY <1>1
<1>3. UNION areas \subseteq Tiles
  BY <1>1
<1>4. a = UNION areas <=> marked
  BY <1>2, <1>3
<1>5. ASSUME NEW w \in Tiles \X Ports
      PROVE  w \in UNION {Walls(B) : B \in areas} <=>
               /\ Neighbour(w[1], w[2]) \in Tiles
               /\ \E u \in Users : \E t \in Tiles :
                    h[u] = {t} /\ (w[1] = t \/ Neighbour(w[1], w[2]) = t)
  <2>1. Walls({}) = {}
    BY DEF Walls
  <2>2. w \in UNION {Walls(B) : B \in areas} <=> \E u \in Users : w \in Walls(Box(h[u]))
    OBVIOUS
  <2>3. ASSUME NEW u \in Users
        PROVE  w \in Walls(Box(h[u])) <=>
                 \E t \in Tiles : h[u] = {t} /\ w \in Walls({t})
    BY <1>1, <2>1
  <2>4. \A t \in Tiles : w \in Walls({t}) <=>
          /\ Neighbour(w[1], w[2]) \in Tiles
          /\ w[1] = t \/ Neighbour(w[1], w[2]) = t
    BY WallsOfTile
  <2> HIDE DEF areas
  <2> QED BY <2>2, <2>3, <2>4
<1>6. UNION {Walls(B) : B \in areas} \subseteq Tiles \X Ports
  BY DEF Walls
<1> HIDE DEF areas
<1>7. ASSUME marked
      PROVE  c = UNION {Walls(B) : B \in areas} <=>
               \A w \in Tiles \X Ports :
                 w \in c <=> /\ Neighbour(w[1], w[2]) \in Tiles
                             /\ w[1] \in a \/ Neighbour(w[1], w[2]) \in a
  <2>1. ASSUME NEW w \in Tiles \X Ports
        PROVE  w \in UNION {Walls(B) : B \in areas} <=>
                 /\ Neighbour(w[1], w[2]) \in Tiles
                 /\ w[1] \in a \/ Neighbour(w[1], w[2]) \in a
    <3>1. w[1] \in Tiles
      OBVIOUS
    <3> QED BY <1>5, <1>7, <3>1
  <2> QED BY <1>6, <2>1
<1> QED BY <1>4, <1>7 DEF Exact, ByTile, areas

-----------------------------------------------------------------------------
(* The inductive invariant.                                                *)

LEMMA InitIndInv == Init => IndInv
<1> SUFFICES ASSUME Init PROVE IndInv
  OBVIOUS
<1>1. TypeOK /\ OneTileEach /\ HeldDisjoint
  BY DEF Init, TypeOK, OneTileEach, HeldDisjoint
<1>2. OneTile(held) /\ ByTile(assigned, cut, held)
  BY <1>1 DEF Init, OneTileEach, OneTile, ByTile
<1>3. Exact(assigned, cut, held)
  BY <1>1, <1>2, ExactByTile DEF TypeOK
<1> QED BY <1>1, <1>3 DEF IndInv, AreasExact, Areas, Exact

\* The facts about a state that the steps below use.
LEMMA IndInvFacts ==
    ASSUME IndInv
    PROVE  /\ TypeOK /\ OneTile(held) /\ HeldDisjoint
           /\ ByTile(assigned, cut, held)
  BY ExactByTile DEF IndInv, TypeOK, OneTileEach, OneTile, AreasExact, Areas, Exact

LEMMA IndInvFromFacts ==
    ASSUME TypeOK', OneTile(held'), HeldDisjoint', ByTile(assigned', cut', held')
    PROVE  IndInv'
<1>1. Exact(assigned', cut', held')
  BY ExactByTile DEF TypeOK
<1> QED BY <1>1 DEF IndInv, OneTileEach, OneTile, AreasExact, Areas, Exact

LEMMA AllocateStep ==
    ASSUME IndInv, NEW u \in Users, Allocate(u, 1)
    PROVE  IndInv'
<1>1. PICK t \in Tiles \ assigned :
        /\ held[u] = {}
        /\ assigned' = assigned \cup {t}
        /\ cut' = cut \cup Walls({t})
        /\ held' = [held EXCEPT ![u] = {t}]
  <2>1. PICK S \in Found(1) : held[u] = {} /\ ReserveSet(S) /\ held' = [held EXCEPT ![u] = S]
    BY DEF Allocate
  <2>2. PICK t \in Tiles \ assigned : S = {t}
    BY FoundOneTile
  <2>3. Box(S) = {t}
    BY <2>2, BoxOfTile
  <2> QED BY <2>1, <2>2, <2>3 DEF ReserveSet
<1>2. TypeOK /\ OneTile(held) /\ HeldDisjoint /\ ByTile(assigned, cut, held)
  BY IndInvFacts
<1>3. TypeOK'
  BY <1>1, <1>2 DEF TypeOK, Walls
<1>4. \A v \in Users : held'[v] = IF v = u THEN {t} ELSE held[v]
  BY <1>1, <1>2 DEF TypeOK
<1>5. OneTile(held')
  BY <1>2, <1>4 DEF OneTile
<1>6. \A v \in Users : t \notin held[v]
  BY <1>2 DEF OneTile, ByTile
<1>7. HeldDisjoint'
  BY <1>2, <1>4, <1>6 DEF HeldDisjoint
<1>8. ByTile(assigned', cut', held')
  <2>1. ASSUME NEW s \in Tiles
        PROVE  s \in assigned' <=> \E v \in Users : held'[v] = {s}
    <3>1. CASE s = t
      BY <1>1, <1>4, <3>1
    <3>2. CASE s # t
      BY <1>1, <1>2, <1>4, <3>2 DEF ByTile
    <3> QED BY <3>1, <3>2
  <2>2. ASSUME NEW w \in Tiles \X Ports
        PROVE  w \in cut' <=> /\ Neighbour(w[1], w[2]) \in Tiles
                              /\ w[1] \in assigned' \/ Neighbour(w[1], w[2]) \in assigned'
    BY <1>1, <1>2, WallsOfTile DEF ByTile
  <2> QED BY <2>1, <2>2 DEF ByTile
<1> QED BY <1>3, <1>5, <1>7, <1>8, IndInvFromFacts

\* Releasing a tile gives the bandwidth back to the ports whose other tile is
\* not reserved, and leaves the others cut for their own user.
LEMMA ReleaseStep ==
    ASSUME IndInv, NEW u \in Users, Release(u)
    PROVE  IndInv'
<1>1. TypeOK /\ OneTile(held) /\ HeldDisjoint /\ ByTile(assigned, cut, held)
  BY IndInvFacts
<1>2. PICK t \in Tiles :
        /\ held[u] = {t}
        /\ assigned' = assigned \ {t}
        /\ cut' = cut \ {w \in Walls({t}) : Ends(w) \cap assigned' = {}}
        /\ held' = [held EXCEPT ![u] = {}]
  BY <1>1, BoxOfTile DEF Release, ReleaseSet, OneTile
<1>3. TypeOK'
  BY <1>1, <1>2 DEF TypeOK
<1>4. \A v \in Users : held'[v] = IF v = u THEN {} ELSE held[v]
  BY <1>1, <1>2 DEF TypeOK
<1>5. OneTile(held')
  BY <1>1, <1>4 DEF OneTile
<1>6. HeldDisjoint'
  BY <1>1, <1>4 DEF HeldDisjoint
<1>7. \A v \in Users : v # u => t \notin held[v]
  BY <1>1, <1>2 DEF HeldDisjoint
<1>8. ByTile(assigned', cut', held')
  <2>1. ASSUME NEW s \in Tiles
        PROVE  s \in assigned' <=> \E v \in Users : held'[v] = {s}
    <3>1. CASE s = t
      BY <1>2, <1>4, <1>7, <3>1
    <3>2. CASE s # t
      BY <1>1, <1>2, <1>4, <3>2 DEF ByTile
    <3> QED BY <3>1, <3>2
  <2>2. ASSUME NEW w \in Tiles \X Ports
        PROVE  w \in cut' <=> /\ Neighbour(w[1], w[2]) \in Tiles
                              /\ w[1] \in assigned' \/ Neighbour(w[1], w[2]) \in assigned'
    <3>1. w \in cut <=> /\ Neighbour(w[1], w[2]) \in Tiles
                        /\ w[1] \in assigned \/ Neighbour(w[1], w[2]) \in assigned
      BY <1>1 DEF ByTile
    <3>2. Ends(w) \cap assigned' = {} <=>
            w[1] \notin assigned' /\ Neighbour(w[1], w[2]) \notin assigned'
      BY DEF Ends
    <3>3. w[1] # Neighbour(w[1], w[2])
      BY TileCoordinates DEF Neighbour, Ports
    <3> QED BY <1>2, <3>1, <3>2, <3>3, WallsOfTile
  <2> QED BY <2>1, <2>2 DEF ByTile
<1> QED BY <1>3, <1>5, <1>6, <1>8, IndInvFromFacts

LEMMA NextIndInv == SetSizes = {1} => (IndInv /\ [Next]_unitVars => IndInv')
<1> SUFFICES ASSUME SetSizes = {1}, IndInv, [Next]_unitVars PROVE IndInv'
  OBVIOUS
<1>1. ASSUME NEW u \in Users, Allocate(u, 1) PROVE IndInv'
  BY <1>1, AllocateStep
<1>2. ASSUME UNCHANGED unitVars PROVE IndInv'
  BY <1>2 DEF unitVars, IndInv, TypeOK, OneTileEach, HeldDisjoint, AreasExact, Areas
<1>3. ASSUME NEW u \in Users, NotFound(u, 1) PROVE IndInv'
  BY <1>2, <1>3 DEF NotFound
<1>4. ASSUME NEW u \in Users, Release(u) PROVE IndInv'
  BY <1>4, ReleaseStep
<1> QED BY <1>1, <1>2, <1>3, <1>4 DEF Next

\* The strengthened invariant holds when tiles are asked for one by one.
THEOREM Invariance == SetSizes = {1} => (Spec => []IndInv)
<1> SUFFICES ASSUME SetSizes = {1} PROVE Spec => []IndInv
  OBVIOUS
<1>1. Init => IndInv
  BY InitIndInv
<1>2. IndInv /\ [Next]_unitVars => IndInv'
  BY NextIndInv
<1> QED BY <1>1, <1>2, PTL DEF Spec

\* find_units_set gives no tile to two users.
THEOREM NoTileHeldTwice == SetSizes = {1} => (Spec => []HeldDisjoint)
<1>1. IndInv => HeldDisjoint
  BY DEF IndInv
<1> QED BY <1>1, Invariance, PTL

\* reserve_units_set and release_units_set keep the assigned flags and the
\* bandwidth of the ports exactly those of the tiles held.
THEOREM NothingLeftCut == SetSizes = {1} => (Spec => []AreasExact)
<1>1. IndInv => AreasExact
  BY DEF IndInv
<1> QED BY <1>1, Invariance, PTL

-----------------------------------------------------------------------------
(* The bandwidth of the XY routes.                                         *)

\* A router on a route sends to the next tile of the route, or to its end.
LEMMA RouteGoesOn ==
    ASSUME NEW src \in Tiles, NEW dst \in Tiles, NEW t \in RouteTiles(src, dst)
    PROVE  /\ t \in Tiles /\ RoutePort(t, dst) \in Ports
           /\ Neighbour(t, RoutePort(t, dst)) \in RouteTiles(src, dst) \cup {dst}
           /\ Neighbour(t, RoutePort(t, dst)) \in Tiles
<1>1. /\ t \in Tiles /\ t = <<t[1], t[2]>>
      /\ t[1] \in 0 .. Cols - 1 /\ t[2] \in 0 .. Rows - 1
      /\ src[1] \in 0 .. Cols - 1 /\ src[2] \in 0 .. Rows - 1
      /\ dst = <<dst[1], dst[2]>> /\ dst[1] \in 0 .. Cols - 1 /\ dst[2] \in 0 .. Rows - 1
      /\ Cols \in Nat /\ Rows \in Nat
  BY TileCoordinates, MeshAssumption DEF RouteTiles
<1>2. CASE t[1] # dst[1]
  <2>1. t[2] = src[2] /\ (t[1] \in src[1] .. dst[1] \/ t[1] \in dst[1] .. src[1])
    BY <1>2 DEF RouteTiles
  <2>2. CASE t[1] < dst[1]
    <3>1. RoutePort(t, dst) = "EAST" /\ Neighbour(t, "EAST") = <<t[1] + 1, t[2]>>
      BY <1>1, <2>2 DEF RoutePort, Neighbour
    <3> DEFINE x == t[1] + 1
               u == <<x, t[2]>>
    <3>2. u \in Tiles /\ u[1] = x /\ u[2] = t[2]
      BY <1>1, <2>2 DEF Tiles
    <3>3. x \in src[1] .. dst[1]
      BY <1>1, <2>1, <2>2
    <3>4. u \in RouteTiles(src, dst) \cup {dst}
      BY <1>1, <2>1, <3>2, <3>3 DEF RouteTiles
    <3> QED BY <1>1, <3>1, <3>2, <3>4 DEF Ports
  <2>3. CASE t[1] > dst[1]
    <3>1. RoutePort(t, dst) = "WEST" /\ Neighbour(t, "WEST") = <<t[1] - 1, t[2]>>
      BY <1>1, <2>3 DEF RoutePort, Neighbour
    <3> DEFINE x == t[1] - 1
               u == <<x, t[2]>>
    <3>2. u \in Tiles /\ u[1] = x /\ u[2] = t[2]
      BY <1>1, <2>3 DEF Tiles
    <3>3. x \in dst[1] .. src[1]
      BY <1>1, <2>1, <2>3
    <3>4. u \in RouteTiles(src, dst) \cup {dst}
      BY <1>1, <2>1, <3>2, <3>3 DEF RouteTiles
    <3> QED BY <1>1, <3>1, <3>2, <3>4 DEF Ports
  <2> QED BY <1>1, <1>2, <2>2, <2>3
<1>3. CASE t[1] = dst[1]
  <2>1. t[2] # dst[2] /\ (t[2] \in src[2] .. dst[2] \/ t[2] \in dst[2] .. src[2])
    BY <1>3 DEF RouteTiles
  <2>2. CASE t[2] < dst[2]
    <3>1. RoutePort(t, dst) = "SOUTH" /\ Neighbour(t, "SOUTH") = <<t[1], t[2] + 1>>
      BY <1>1, <1>3, <2>2 DEF RoutePort, Neighbour
    <3> DEFINE y == t[2] + 1
               u == <<t[1], y>>
    <3>2. u \in Tiles /\ u[1] = dst[1] /\ u[2] = y
      BY <1>1, <1>3, <2>2 DEF Tiles
    <3>3. y \in src[2] .. dst[2]
      BY <1>1, <2>1, <2>2
    <3>4. u \in RouteTiles(src, dst) \cup {dst}
      BY <1>1, <1>3, <3>2, <3>3 DEF RouteTiles
    <3> QED BY <1>1, <3>1, <3>2, <3>4 DEF Ports
  <2>3. CASE t[2] > dst[2]
    <3>1. RoutePort(t, dst) = "NORTH" /\ Neighbour(t, "NORTH") = <<t[1], t[2] - 1>>
      BY <1>1, <1>3, <2>3 DEF RoutePort, Neighbour
    <3> DEFINE y == t[2] - 1
               u == <<t[1], y>>
    <3>2. u \in Tiles /\ u[1] = dst[1] /\ u[2] = y
      BY <1>1, <1>3, <2>3 DEF Tiles
    <3>3. y \in dst[2] .. src[2]
      BY <1>1, <2>1, <2>3
    <3>4. u \in RouteTiles(src, dst) \cup {dst}
      BY <1>1, <1>3, <3>2, <3>3 DEF RouteTiles
    <3> QED BY <1>1, <3>1, <3>2, <3>4 DEF Ports
  <2> QED BY <1>1, <1>3, <2>1, <2>2, <2>3
<1> QED BY <1>2, <1>3

\* Some router on a route sends to its end.
LEMMA RouteArrives ==
    ASSUME NEW src \in Tiles, NEW dst \in Tiles, src # dst
    PROVE  \E t \in RouteTiles(src, dst) : Neighbour(t, RoutePort(t, dst)) = dst
<1>1. /\ src = <<src[1], src[2]>> /\ src[1] \in 0 .. Cols - 1 /\ src[2] \in 0 .. Rows - 1
      /\ dst = <<dst[1], dst[2]>> /\ dst[1] \in 0 .. Cols - 1 /\ dst[2] \in 0 .. Rows - 1
      /\ Cols \in Nat /\ Rows \in Nat
  BY TileCoordinates, MeshAssumption
<1>2. CASE src[2] > dst[2]
  <2> DEFINE t == <<dst[1], dst[2] + 1>>
  <2>1. t \in Tiles /\ t[1] = dst[1] /\ t[2] = dst[2] + 1
    BY <1>1, <1>2 DEF Tiles
  <2>2. t \in RouteTiles(src, dst)
    <3>1. t[2] \in dst[2] .. src[2]
      BY <1>1, <1>2, <2>1
    <3> QED BY <1>1, <1>2, <2>1, <3>1 DEF RouteTiles
  <2>3. RoutePort(t, dst) = "NORTH"
    BY <1>1, <1>2, <2>1 DEF RoutePort
  <2>4. Neighbour(t, "NORTH") = dst
    BY <1>1, <2>1 DEF Neighbour
  <2> QED BY <2>2, <2>3, <2>4
<1>3. CASE src[2] < dst[2]
  <2> DEFINE t == <<dst[1], dst[2] - 1>>
  <2>1. t \in Tiles /\ t[1] = dst[1] /\ t[2] = dst[2] - 1
    BY <1>1, <1>3 DEF Tiles
  <2>2. t \in RouteTiles(src, dst)
    <3>1. t[2] \in src[2] .. dst[2]
      BY <1>1, <1>3, <2>1
    <3> QED BY <1>1, <1>3, <2>1, <3>1 DEF RouteTiles
  <2>3. RoutePort(t, dst) = "SOUTH"
    BY <1>1, <1>3, <2>1 DEF RoutePort
  <2>4. Neighbour(t, "SOUTH") = dst
    BY <1>1, <2>1 DEF Neighbour
  <2> QED BY <2>2, <2>3, <2>4
<1>4. CASE src[2] = dst[2] /\ src[1] > dst[1]
  <2> DEFINE t == <<dst[1] + 1, dst[2]>>
  <2>1. t \in Tiles /\ t[1] = dst[1] + 1 /\ t[2] = dst[2]
    BY <1>1, <1>4 DEF Tiles
  <2>2. t \in RouteTiles(src, dst)
    <3>1. t[1] \in dst[1] .. src[1]
      BY <1>1, <1>4, <2>1
    <3> QED BY <1>1, <1>4, <2>1, <3>1 DEF RouteTiles
  <2>3. RoutePort(t, dst) = "WEST"
    BY <1>1, <1>4, <2>1 DEF RoutePort
  <2>4. Neighbour(t, "WEST") = dst
    BY <1>1, <2>1 DEF Neighbour
  <2> QED BY <2>2, <2>3, <2>4
<1>5. CASE src[2] = dst[2] /\ src[1] < dst[1]
  <2> DEFINE t == <<dst[1] - 1, dst[2]>>
  <2>1. t \in Tiles /\ t[1] = dst[1] - 1 /\ t[2] = dst[2]
    BY <1>1, <1>5 DEF Tiles
  <2>2. t \in RouteTiles(src, dst)
    <3>1. t[1] \in src[1] .. dst[1]
      BY <1>1, <1>5, <2>1
    <3> QED BY <1>1, <1>5, <2>1, <3>1 DEF RouteTiles
  <2>3. RoutePort(t, dst) = "EAST"
    BY <1>1, <1>5, <2>1 DEF RoutePort
  <2>4. Neighbour(t, "EAST") = dst
    BY <1>1, <2>1 DEF Neighbour
  <2> QED BY <2>2, <2>3, <2>4
<1> QED BY <1>1, <1>2, <1>3, <1>4, <1>5

LEMMA RoutesFromPorts == IndInv => RoutesExact
<1> SUFFICES ASSUME IndInv, NEW src \in Tiles, NEW dst \in Tiles, src # dst
             PROVE  RouteOpen(src, dst) <=> (RouteTiles(src, dst) \cup {dst}) \cap assigned = {}
  BY DEF RoutesExact
<1> DEFINE next(t) == Neighbour(t, RoutePort(t, dst))
<1>1. ASSUME NEW t \in RouteTiles(src, dst)
      PROVE  /\ t \in Tiles /\ next(t) \in RouteTiles(src, dst) \cup {dst}
             /\ <<t, RoutePort(t, dst)>> \in cut <=> t \in assigned \/ next(t) \in assigned
  <2>1. /\ t \in Tiles /\ RoutePort(t, dst) \in Ports /\ next(t) \in Tiles
        /\ next(t) \in RouteTiles(src, dst) \cup {dst}
    BY RouteGoesOn
  <2>2. ASSUME NEW w \in Tiles \X Ports
        PROVE  w \in cut <=> /\ Neighbour(w[1], w[2]) \in Tiles
                             /\ w[1] \in assigned \/ Neighbour(w[1], w[2]) \in assigned
    BY IndInvFacts DEF ByTile
  <2> QED BY <2>1, <2>2
<1>2. \E t \in RouteTiles(src, dst) : next(t) = dst
  BY RouteArrives
<1> HIDE DEF next
<1>3. RouteOpen(src, dst) <=>
        \A r \in RouteTiles(src, dst) : r \notin assigned /\ next(r) \notin assigned
  BY <1>1 DEF RouteOpen
<1> DEFINE route == RouteTiles(src, dst)
<1>4. \A r \in route : next(r) \in route \cup {dst}
  BY <1>1
<1> HIDE DEF route
<1>5. (\A r \in route : r \notin assigned /\ next(r) \notin assigned)
        <=> (route \cup {dst}) \cap assigned = {}
  BY <1>2, <1>4 DEF route
<1> QED BY <1>3, <1>5 DEF route

\* Two tiles have bandwidth between them exactly when no reserved tile is on
\* the XY route: a reserved tile reaches no other tile and is on no route.
THEOREM RoutesIsolated == SetSizes = {1} => (Spec => []RoutesExact)
<1> QED BY RoutesFromPorts, Invariance, PTL

-----------------------------------------------------------------------------
\* Types, for users that ask for sets of any size: what is reserved or searched
\* stays in the mesh, and no port is written whose router has no neighbour there.
THEOREM TypeCorrect == Spec => []TypeOK
<1>1. Init => TypeOK
  BY DEF Init, TypeOK
<1>2. TypeOK /\ [Next]_unitVars => TypeOK'
  <2> SUFFICES ASSUME TypeOK, [Next]_unitVars PROVE TypeOK'
    OBVIOUS
  <2> DEFINE Links == {w \in Tiles \X Ports : Neighbour(w[1], w[2]) \in Tiles}
  <2>1. \A S : Box(S) \subseteq Tiles /\ Walls(Box(S)) \subseteq Links
    BY DEF Box, Walls
  <2>2. assigned \subseteq Tiles /\ cut \subseteq Links /\ held \in [Users -> SUBSET Tiles]
    BY DEF TypeOK
  <2>3. (assigned' \subseteq Tiles /\ cut' \subseteq Links
           /\ held' \in [Users -> SUBSET Tiles]) => TypeOK'
    BY DEF TypeOK
  <2> HIDE DEF Links
  <2>4. ASSUME NEW u \in Users, NEW n \in SetSizes, Allocate(u, n) PROVE TypeOK'
    <3>1. PICK S \in Found(n) : ReserveSet(S) /\ held' = [held EXCEPT ![u] = S]
      BY <2>4 DEF Allocate
    <3>2. S \subseteq Tiles
      <4>1. PICK c \in Candidates(n) : S = c.tiles
        BY DEF Found
      <4>2. PICK m \in MemTiles : c = [mem |-> m, tiles |-> Near(m, n)]
        BY DEF Candidates
      <4>3. Near(m, n) \subseteq Tiles
        BY DEF Near, FirstVisited, Searched
      <4> QED BY <4>1, <4>2, <4>3
    <3>3. assigned' \subseteq Tiles /\ cut' \subseteq Links
      BY <2>1, <2>2, <3>1 DEF ReserveSet
    <3> QED BY <2>2, <2>3, <3>1, <3>2, <3>3
  <2>5. ASSUME NEW u \in Users, NEW n \in SetSizes, NotFound(u, n) PROVE TypeOK'
    BY <2>2, <2>3, <2>5 DEF NotFound, unitVars
  <2>6. ASSUME NEW u \in Users, Release(u) PROVE TypeOK'
    <3>1. ReleaseSet(held[u]) /\ held' = [held EXCEPT ![u] = {}]
      BY <2>6 DEF Release
    <3>2. assigned' \subseteq Tiles /\ cut' \subseteq Links
      BY <2>2, <3>1 DEF ReleaseSet
    <3> QED BY <2>2, <2>3, <3>1, <3>2
  <2>7. CASE UNCHANGED unitVars
    BY <2>2, <2>3, <2>7 DEF unitVars
  <2> QED BY <2>4, <2>5, <2>6, <2>7 DEF Next
<1> QED BY <1>1, <1>2, PTL DEF Spec

-----------------------------------------------------------------------------
(* Bandwidth: counting the units reserved.                                 *)

\* A book says what each client holds: units of bandwidth of some resources.
Book == [Clients -> [uses : SUBSET Resources, bw : Nat]]

UnitsOf(book, r) ==
    UNION {{u} \X (1 .. book[u].bw) : u \in {v \in Clients : r \in book[v].uses}}

\* The units of resource r that client u holds.
Part(book, u, r) == IF r \in book[u].uses THEN book[u].bw ELSE 0

LEMMA UnitIn ==
    ASSUME NEW book, NEW r, NEW x
    PROVE  x \in UnitsOf(book, r) <=>
             \E u \in Clients : \E k \in 1 .. book[u].bw :
               r \in book[u].uses /\ x = <<u, k>>
  BY DEF UnitsOf

\* One client's units: as many as it holds, and among the units of r.
LEMMA PartUnits ==
    ASSUME NEW book \in Book, NEW u \in Clients, NEW r \in book[u].uses
    PROVE  /\ IsFiniteSet({u} \X (1 .. book[u].bw))
           /\ Cardinality({u} \X (1 .. book[u].bw)) = book[u].bw
           /\ {u} \X (1 .. book[u].bw) \subseteq UnitsOf(book, r)
<1>1. PICK n \in Nat : n = book[u].bw
  BY DEF Book
<1>2. IsFiniteSet(1 .. n) /\ Cardinality(1 .. n) = n
  BY FS_Interval
<1>3. IsFiniteSet({u}) /\ Cardinality({u}) = 1
  BY FS_Singleton
<1>4. IsFiniteSet({u} \X (1 .. n)) /\ Cardinality({u} \X (1 .. n)) = 1 * n
  BY <1>2, <1>3, FS_Product
<1>5. {u} \X (1 .. n) \subseteq UnitsOf(book, r)
  BY <1>1 DEF UnitsOf
<1> QED BY <1>1, <1>4, <1>5

LEMMA UnitsFinite ==
    ASSUME NEW book \in Book, NEW r
    PROVE  IsFiniteSet(UnitsOf(book, r)) /\ Cardinality(UnitsOf(book, r)) \in Nat
<1> DEFINE S    == {v \in Clients : r \in book[v].uses}
           f    == [u \in S |-> {u} \X (1 .. book[u].bw)]
           T    == {{u} \X (1 .. book[u].bw) : u \in S}
<1>1. IsFiniteSet(S)
  BY FS_Subset, BandwidthAssumption
<1>2. f \in Surjection(S, T)
  BY DEF Surjection
<1>3. ASSUME NEW u \in S PROVE IsFiniteSet({u} \X (1 .. book[u].bw))
  BY PartUnits
<1> HIDE DEF f
<1>4. IsFiniteSet(T)
  BY <1>1, <1>2, FS_Surjection
<1>5. \A x \in T : IsFiniteSet(x)
  BY <1>3
<1>6. UnitsOf(book, r) = UNION T
  BY DEF UnitsOf
<1> HIDE DEF T
<1> QED BY <1>4, <1>5, <1>6, FS_UNION, FS_CardinalityType

\* A client holds no more of a resource than all clients together.
LEMMA PartBound ==
    ASSUME NEW book \in Book, NEW u \in Clients, NEW r
    PROVE  Part(book, u, r) \in Nat /\ Part(book, u, r) <= Cardinality(UnitsOf(book, r))
<1>1. CASE r \in book[u].uses
  <2>1. /\ Cardinality({u} \X (1 .. book[u].bw)) = book[u].bw
        /\ {u} \X (1 .. book[u].bw) \subseteq UnitsOf(book, r)
    BY <1>1, PartUnits
  <2>2. Cardinality({u} \X (1 .. book[u].bw)) <= Cardinality(UnitsOf(book, r))
    BY <2>1, UnitsFinite, FS_Subset
  <2>3. book[u].bw \in Nat
    BY DEF Book
  <2> QED BY <1>1, <2>1, <2>2, <2>3 DEF Part
<1>2. CASE r \notin book[u].uses
  BY <1>2, UnitsFinite DEF Part
<1> QED BY <1>1, <1>2

\* What changes when the client u, who holds nothing in one book, holds something
\* in the other.
LEMMA BooksDiffer ==
    ASSUME NEW less \in Book, NEW more \in Book, NEW u \in Clients, less[u].bw = 0,
           \A v \in Clients : v # u => more[v] = less[v],
           NEW r
    PROVE  Cardinality(UnitsOf(more, r)) = Cardinality(UnitsOf(less, r)) + Part(more, u, r)
<1>1. \A k : k \notin 1 .. less[u].bw
  OBVIOUS
<1>2. CASE r \in more[u].uses
  <2> DEFINE units == {u} \X (1 .. more[u].bw)
  <2>1. /\ IsFiniteSet(units) /\ Cardinality(units) = more[u].bw
        /\ units \subseteq UnitsOf(more, r)
    BY <1>2, PartUnits
  <2>2. UnitsOf(less, r) = UnitsOf(more, r) \ units
    <3>1. ASSUME NEW x PROVE x \in UnitsOf(less, r) <=> x \in UnitsOf(more, r) /\ x \notin units
      <4>1. CASE \E k : x = <<u, k>>
        BY <1>1, <1>2, <4>1, UnitIn
      <4>2. CASE ~ \E k : x = <<u, k>>
        BY <4>2, UnitIn
      <4> QED BY <4>1, <4>2
    <3> QED BY <3>1
  <2> HIDE DEF units
  <2>3. UnitsOf(more, r) \cap units = units
    BY <2>1
  <2>4. Cardinality(UnitsOf(less, r)) = Cardinality(UnitsOf(more, r)) - Cardinality(units)
    BY <2>2, <2>3, UnitsFinite, FS_Difference
  <2>5. more[u].bw \in Nat
    BY DEF Book
  <2> QED BY <1>2, <2>1, <2>4, <2>5, UnitsFinite DEF Part
<1>3. CASE r \notin more[u].uses
  <2>1. UnitsOf(less, r) = UnitsOf(more, r)
    <3>1. ASSUME NEW x PROVE x \in UnitsOf(less, r) <=> x \in UnitsOf(more, r)
      <4>1. CASE \E k : x = <<u, k>>
        BY <1>1, <1>3, <4>1, UnitIn
      <4>2. CASE ~ \E k : x = <<u, k>>
        BY <4>2, UnitIn
      <4> QED BY <4>1, <4>2
    <3> QED BY <3>1
  <2> QED BY <1>3, <2>1, UnitsFinite DEF Part
<1> QED BY <1>2, <1>3

-----------------------------------------------------------------------------
(* The bandwidth of a route.                                               *)

\* A set of naturals has a smallest element: the smaller the element, the fewer
\* are below it.
LEMMA Smallest ==
    ASSUME NEW S, S \subseteq Nat, S # {}
    PROVE  Min(S) \in S /\ \A y \in S : Min(S) <= y
<1> DEFINE below(m) == {y \in S : y <= m}
           all      == {below(m) : m \in S}
<1>1. all \subseteq FiniteSubsetsOf(Nat)
  <2> SUFFICES ASSUME NEW m \in S PROVE below(m) \in SUBSET Nat /\ IsFiniteSet(below(m))
    BY DEF FiniteSubsetsOf
  <2>1. below(m) \in SUBSET Nat /\ m \in Nat /\ \A y \in below(m) : y <= m
    OBVIOUS
  <2> QED BY <2>1, FS_BoundedSetOfNaturals
<1>2. all # {}
  OBVIOUS
<1> HIDE DEF all
<1>3. \E x \in all : \A y \in all : <<y, x>> \notin StrictSubsetOrdering(Nat)
  BY <1>1, <1>2, FS_StrictSubsetOrderingWellFounded, WFMin
<1> USE DEF all
<1>4. PICK m \in S : \A k \in S : <<below(k), below(m)>> \notin StrictSubsetOrdering(Nat)
  BY <1>3
<1>5. ASSUME NEW k \in S, k < m PROVE FALSE
  <2>0. k \in Nat /\ m \in Nat
    OBVIOUS
  <2>1. below(k) \subseteq below(m) /\ m \in below(m) /\ m \notin below(k)
    <3>1. \A y \in S : y <= k => y <= m
      BY <1>5, <2>0
    <3>2. m <= m /\ ~(m <= k)
      BY <1>5, <2>0
    <3> QED BY <3>1, <3>2
  <2>2. below(k) \in SUBSET Nat /\ below(m) \in SUBSET Nat
    OBVIOUS
  <2> QED BY <1>4, <2>1, <2>2 DEF StrictSubsetOrdering
<1>6. \A k \in S : m <= k
  BY <1>5
<1>7. \E x \in S : \A y \in S : x <= y
  BY <1>6
<1> QED BY <1>7 DEF Min

LEMMA RoutesReal ==
    ASSUME NEW p \in Pairs
    PROVE  /\ Routes[p] = Route(p[1], p[2])
           /\ Route(p[1], p[2]) \subseteq Tiles \X Ports
           /\ Route(p[1], p[2]) \subseteq Resources
           /\ Route(p[1], p[2]) # {}
<1>1. p \in Tiles \X Tiles /\ p[1] \in Tiles /\ p[2] \in Tiles /\ p[1] # p[2] /\ p = <<p[1], p[2]>>
  BY BandwidthAssumption
<1>2. Routes[p] = {<<t, RoutePort(t, p[2])>> : t \in RouteTiles(p[1], p[2])}
  BY <1>1 DEF Routes
<1>3. Routes[p] = Route(p[1], p[2])
  BY <1>1 DEF Route
<1>4. \A t \in RouteTiles(p[1], p[2]) : t \in Tiles /\ RoutePort(t, p[2]) \in Ports
  BY <1>1, RouteGoesOn
<1>5. Routes[p] \subseteq Tiles \X Ports
  BY <1>2, <1>4
<1>6. Routes[p] # {}
  <2>1. PICK t \in RouteTiles(p[1], p[2]) : TRUE
    BY <1>1, RouteArrives
  <2> QED BY <1>2, <2>1
<1> QED BY <1>3, <1>5, <1>6 DEF Resources

-----------------------------------------------------------------------------
(* Bandwidth: the invariant.                                               *)

\* All that a client has reserved.
Full(rs) == [u \in Clients |-> Uses(rs[u])]

\* The book of the reservations rs that counts what is in st.
BookOf(rs, st) == [u \in Clients |-> [uses |-> st[u], bw |-> Amount(rs[u])]]

\* What a client may have reserved.
Reservation(h) ==
    \/ h = None
    \/ \E r \in Single, bw \in Amounts : h = One(r, bw)
    \/ \E p \in Pairs, bw \in Amounts : h = Net(p[1], p[2], bw)

LEMMA Reservations ==
    ASSUME NEW h, Reservation(h)
    PROVE  /\ Uses(h) \subseteq Resources
           /\ Amount(h) \in Nat
           /\ h = None => Uses(h) = {} /\ Amount(h) = 0
           /\ h # None => /\ h.bw \in Amounts /\ Amount(h) = h.bw /\ h.bw \in Nat \ {0}
                          /\ Request(h) \in Requested
           /\ h.call = "one" => Uses(h) = {h.what} /\ h # None
           /\ h.call = "network" => Uses(h) = Route(h.src, h.dst) /\ h # None
           /\ Request(h) \in [uses : SUBSET Resources, bw : Nat]
<1>1. CASE h = None
  <2>1. h.call = "none" /\ Uses(h) = {} /\ Amount(h) = 0
    BY <1>1 DEF None, Uses, Amount
  <2> QED BY <1>1, <2>1 DEF Request
<1>2. ASSUME NEW r \in Single, NEW bw \in Amounts, h = One(r, bw)
      PROVE  /\ h.call = "one" /\ h # None /\ h.bw = bw /\ h.what = r
             /\ Uses(h) = {r} /\ Amount(h) = bw
  <2>1. h.call = "one" /\ h.bw = bw /\ h.what = r
    BY <1>2 DEF One
  <2>2. h # None
    BY <2>1 DEF None
  <2> QED BY <2>1, <2>2 DEF Uses, Amount
<1>3. ASSUME NEW p \in Pairs, NEW bw \in Amounts, h = Net(p[1], p[2], bw)
      PROVE  /\ h.call = "network" /\ h # None /\ h.bw = bw /\ h.src = p[1] /\ h.dst = p[2]
             /\ Uses(h) = Route(p[1], p[2]) /\ Amount(h) = bw
  <2>1. h.call = "network" /\ h.bw = bw /\ h.src = p[1] /\ h.dst = p[2]
    BY <1>3 DEF Net
  <2>2. h # None
    BY <2>1 DEF None
  <2> QED BY <2>1, <2>2 DEF Uses, Amount
<1>4. ASSUME NEW r \in Single, NEW bw \in Amounts, h = One(r, bw)
      PROVE  /\ Uses(h) \subseteq Resources /\ bw \in Nat \ {0}
             /\ Request(h) \in Requested
             /\ Request(h) \in [uses : SUBSET Resources, bw : Nat]
  <2>1. Uses(h) = {r} /\ Amount(h) = bw
    BY <1>2, <1>4
  <2>2. r \in Resources /\ bw \in Nat \ {0}
    BY BandwidthAssumption
  <2> QED BY <2>1, <2>2 DEF Request, Requested
<1>5. ASSUME NEW p \in Pairs, NEW bw \in Amounts, h = Net(p[1], p[2], bw)
      PROVE  /\ Uses(h) \subseteq Resources /\ bw \in Nat \ {0}
             /\ Request(h) \in Requested
             /\ Request(h) \in [uses : SUBSET Resources, bw : Nat]
  <2>1. Uses(h) = Routes[p] /\ Routes[p] \subseteq Resources /\ Amount(h) = bw
    BY <1>3, <1>5, RoutesReal
  <2>2. bw \in Nat \ {0}
    BY BandwidthAssumption
  <2> QED BY <2>1, <2>2 DEF Request, Requested
<1> QED BY <1>1, <1>2, <1>3, <1>4, <1>5 DEF Reservation

LEMMA UnitsOfHeld ==
    ASSUME NEW st, NEW r
    PROVE  Units(r, st) = UnitsOf(BookOf(reserved, st), r)
<1>1. \A u \in Clients : /\ BookOf(reserved, st)[u].uses = st[u]
                        /\ BookOf(reserved, st)[u].bw = Amount(reserved[u])
  BY DEF BookOf
<1>2. ASSUME NEW x PROVE x \in Units(r, st) <=> x \in UnitsOf(BookOf(reserved, st), r)
  BY <1>1, UnitIn DEF Units
<1> QED BY <1>2

\* Where the account is not lost, the counters av are what the book leaves of the
\* capacity, and walls nothing.
Balanced(av, book, walled, lo) ==
    \A r \in Resources \ lo :
      av[r] = IF r \in walled THEN 0 ELSE Capacity[r] - Cardinality(UnitsOf(book, r))

\* Lost or not, the counters av and the book together are bounded.
Bounded(av, book) ==
    \A r \in Resources :
      IF r[1] = Cluster
      THEN av[r] + Cardinality(UnitsOf(book, r)) \in {Capacity[r]} \cup Garbage
      ELSE av[r] + Cardinality(UnitsOf(book, r)) <= Capacity[r] + Cardinality(Clients) * Largest

Apart(areas) == \A B, C \in areas : B # C => B \cap C = {}

Walled(areas) == UNION {Walls(B) : B \in areas}

Codes == {"SUCCEEDED", "NOT_ENOUGH_BANDWIDTH_AVAILABLE", "WRONG_BANDWIDTH_SETTING"}

\* What counts of a reservation rs[u]: nothing through a sound wall, and all of
\* the cluster.
Counting(rs, st, lo, walled) ==
    \A u \in Clients :
      /\ Reservation(rs[u]) /\ st[u] \subseteq Uses(rs[u])
      /\ st[u] \cap (walled \ lo) = {}
      /\ \A r \in Uses(rs[u]) : r[1] = Cluster => r \in st[u]

\* Reads and writes of the cluster are lost together.
ClusterAlike(lo) == <<Cluster, "READ">> \in lo <=> <<Cluster, "WRITE">> \in lo

\* The invariant, of any values of the variables.
Good(av, rs, st, lo, areas, code) ==
    /\ av \in [Resources -> Nat]
    /\ rs = [u \in Clients |-> rs[u]] /\ st = [u \in Clients |-> st[u]]
    /\ Counting(rs, st, lo, Walled(areas))
    /\ Bounded(av, BookOf(rs, Full(rs)))
    /\ Balanced(av, BookOf(rs, st), Walled(areas), lo)
    /\ lo \subseteq Resources /\ ClusterAlike(lo)
    /\ areas \subseteq Rectangles /\ Apart(areas)
    /\ code \in Codes

LEMMA BookOfReservations ==
    ASSUME NEW rs, \A u \in Clients : Reservation(rs[u]),
           NEW st, \A u \in Clients : st[u] \subseteq Uses(rs[u])
    PROVE  BookOf(rs, st) \in Book
<1>1. \A u \in Clients : Amount(rs[u]) \in Nat /\ st[u] \subseteq Resources
  BY Reservations
<1> QED BY <1>1 DEF BookOf, Book

\* What a good state says of its books.
LEMMA GoodBooks ==
    ASSUME NEW av, NEW rs, NEW st, NEW lo, NEW areas, NEW code,
           Good(av, rs, st, lo, areas, code)
    PROVE  /\ BookOf(rs, st) \in Book /\ BookOf(rs, Full(rs)) \in Book
           /\ \A r : /\ Cardinality(UnitsOf(BookOf(rs, st), r)) \in Nat
                     /\ Cardinality(UnitsOf(BookOf(rs, Full(rs)), r)) \in Nat
<1>1. \A u \in Clients : Reservation(rs[u]) /\ st[u] \subseteq Uses(rs[u])
  BY DEF Good, Counting
<1>2. \A u \in Clients : Full(rs)[u] \subseteq Uses(rs[u])
  BY DEF Full
<1>3. BookOf(rs, st) \in Book /\ BookOf(rs, Full(rs)) \in Book
  BY <1>1, <1>2, BookOfReservations
<1> QED BY <1>3, UnitsFinite

LEMMA GoodState == BandwidthInv <=> Good(avail, reserved, standing, lost, isolated, answer.code)
<1>1. Counting(reserved, standing, lost, Walled(isolated)) <=>
        /\ \A u \in Clients :
             \/ reserved[u] = None
             \/ \E r \in Single, bw \in Amounts : reserved[u] = One(r, bw)
             \/ \E p \in Pairs, bw \in Amounts : reserved[u] = Net(p[1], p[2], bw)
        /\ \A u \in Clients : standing[u] \subseteq Uses(reserved[u])
        /\ \A u \in Clients :
             /\ standing[u] \cap (Isolated \ lost) = {}
             /\ \A r \in Uses(reserved[u]) : r[1] = Cluster => r \in standing[u]
  <2>1. Isolated = Walled(isolated)
    BY DEF Isolated, Walled
  <2> QED BY <2>1 DEF Counting, Reservation
<1>2. Balanced(avail, BookOf(reserved, standing), Walled(isolated), lost) <=> BandwidthExact
  <2>1. \A r : Owed(r) = Cardinality(UnitsOf(BookOf(reserved, standing), r))
    BY UnitsOfHeld DEF Owed
  <2> QED BY <2>1 DEF BandwidthExact, Isolated, Walled, Balanced
<1>3. Bounded(avail, BookOf(reserved, Full(reserved))) <=>
        \A r \in Resources :
          IF r[1] = Cluster
          THEN avail[r] + Taken(r) \in {Capacity[r]} \cup Garbage
          ELSE avail[r] + Taken(r) <= Capacity[r] + Cardinality(Clients) * Largest
  <2>1. \A r : Taken(r) = Cardinality(UnitsOf(BookOf(reserved, Full(reserved)), r))
    BY UnitsOfHeld DEF Taken, Full
  <2> QED BY <2>1 DEF Bounded
<1>4. ASSUME BandwidthInv PROVE Good(avail, reserved, standing, lost, isolated, answer.code)
  <2>1. Counting(reserved, standing, lost, Walled(isolated))
    BY <1>1, <1>4 DEF BandwidthInv, BandwidthTypeOK
  <2>2. ClusterAlike(lost)
    BY <1>4 DEF BandwidthInv, ClusterAlike
  <2> QED BY <1>2, <1>3, <1>4, <2>1, <2>2 DEF BandwidthInv, BandwidthTypeOK, Good, Apart, Codes
<1>5. ASSUME Good(avail, reserved, standing, lost, isolated, answer.code) PROVE BandwidthInv
  <2>1. \A u \in Clients : Reservation(reserved[u]) /\ standing[u] \subseteq Uses(reserved[u])
    BY <1>5 DEF Good, Counting
  <2>2. \A u \in Clients : reserved[u] = None \/ Uses(reserved[u]) \subseteq Resources
    BY <2>1, Reservations
  <2>3. BandwidthTypeOK
    BY <1>3, <1>5, <2>1, <2>2 DEF BandwidthTypeOK, Codes, Good
  <2>4. <<Cluster, "READ">> \in lost <=> <<Cluster, "WRITE">> \in lost
    BY <1>5 DEF Good, ClusterAlike
  <2> QED BY <1>1, <1>2, <1>5, <2>3, <2>4 DEF BandwidthInv, Good, Apart
<1> QED BY <1>4, <1>5

LEMMA GoodNext ==
    Good(avail', reserved', standing', lost', isolated', answer'.code) => BandwidthInv'
<1> DEFINE good == Good(avail, reserved, standing, lost, isolated, answer.code)
<1>1. good => BandwidthInv
  BY GoodState
<1> HIDE DEF good
<1>2. good' => BandwidthInv'
  BY <1>1, PTL
<1> QED BY <1>2 DEF good

\* Initially nothing is reserved.
LEMMA InitBandwidthInv == BandwidthInit => BandwidthInv
<1> SUFFICES ASSUME BandwidthInit PROVE BandwidthInv
  OBVIOUS
<1>1. isolated = {} /\ answer.code = "SUCCEEDED"
  BY DEF BandwidthInit, Answer
<1>2. /\ reserved = [u \in Clients |-> reserved[u]] /\ \A u \in Clients : reserved[u] = None
      /\ standing = [u \in Clients |-> standing[u]] /\ \A u \in Clients : standing[u] = {}
  BY DEF BandwidthInit
<1>3. \A u \in Clients : /\ Reservation(reserved[u])
                         /\ Uses(reserved[u]) = {} /\ Amount(reserved[u]) = 0
  BY <1>2, Reservations DEF Reservation
<1>4. Walled(isolated) = {} /\ Apart(isolated)
  BY <1>1 DEF Walled, Apart
<1>5. \A st, r : Cardinality(UnitsOf(BookOf(reserved, st), r)) = 0
  <2>1. ASSUME NEW st, NEW r PROVE UnitsOf(BookOf(reserved, st), r) = {}
    <3>1. \A u \in Clients : 1 .. BookOf(reserved, st)[u].bw = {}
      BY <1>3 DEF BookOf
    <3> QED BY <3>1 DEF UnitsOf
  <2> QED BY <2>1, FS_EmptySet
<1>6. Cardinality(Clients) * Largest \in Nat
  BY BandwidthAssumption, FS_CardinalityType
<1>7. /\ avail \in [Resources -> Nat] /\ lost \subseteq Resources /\ ClusterAlike(lost)
      /\ \A r \in Resources :
           /\ avail[r] \in Nat /\ Capacity[r] \in Nat
           /\ IF r[1] = Cluster THEN avail[r] \in {Capacity[r]} \cup Garbage
                                ELSE avail[r] = Capacity[r]
           /\ r \notin lost => avail[r] = Capacity[r]
  <2>0. Capacity \in [Resources -> Nat] /\ Garbage \subseteq Nat
    BY BandwidthAssumption
  <2>1. CASE avail = Capacity /\ lost = {}
    BY <2>0, <2>1 DEF ClusterAlike
  <2>2. ASSUME NEW g \in [{"READ", "WRITE"} -> Garbage],
               avail = [r \in Resources |-> IF r[1] = Cluster THEN g[r[2]] ELSE Capacity[r]],
               lost = {Cluster} \X {"READ", "WRITE"}
        PROVE  <1>7
    <3>1. ASSUME NEW r \in Resources, r[1] = Cluster
          PROVE  r[2] \in {"READ", "WRITE"} /\ r \in {Cluster} \X {"READ", "WRITE"}
      <4>1. Cluster \notin Tiles
        BY TileCoordinates DEF Cluster
      <4> QED BY <3>1, <4>1 DEF Resources
    <3>2. ASSUME NEW r \in Resources
          PROVE  /\ avail[r] = IF r[1] = Cluster THEN g[r[2]] ELSE Capacity[r]
                 /\ avail[r] \in Nat
                 /\ IF r[1] = Cluster THEN avail[r] \in Garbage ELSE avail[r] = Capacity[r]
                 /\ r \notin lost => avail[r] = Capacity[r]
      BY <2>0, <2>2, <3>1
    <3>3. avail \in [Resources -> Nat]
      BY <2>2, <3>2
    <3>4. lost \subseteq Resources /\ ClusterAlike(lost)
      BY <2>2 DEF Resources, ClusterAlike
    <3> QED BY <2>0, <3>2, <3>3, <3>4
  <2> QED BY <2>1, <2>2 DEF BandwidthInit
<1>8. Bounded(avail, BookOf(reserved, Full(reserved)))
  BY <1>5, <1>6, <1>7 DEF Bounded
<1>9. Balanced(avail, BookOf(reserved, standing), Walled(isolated), lost)
  BY <1>4, <1>5, <1>7 DEF Balanced
<1>10. Counting(reserved, standing, lost, Walled(isolated))
  BY <1>2, <1>3 DEF Counting
<1>11. isolated \subseteq Rectangles
  BY <1>1
<1> QED BY <1>1, <1>2, <1>4, <1>7, <1>8, <1>9, <1>10, <1>11, GoodState DEF Good, Codes

-----------------------------------------------------------------------------
(* Bandwidth: the steps.                                                   *)

\* The reservations new are rs and that of client u, for h.
Adds(rs, st, new, nst, u, h) ==
    /\ rs[u] = None /\ new[u] = h /\ h # None
    /\ \A v \in Clients : /\ Reservation(rs[v]) /\ st[v] \subseteq Uses(rs[v])
                          /\ Reservation(new[v]) /\ nst[v] \subseteq Uses(new[v])
                          /\ v # u => new[v] = rs[v] /\ nst[v] = st[v]

\* Then the units of r that count are those that counted and, if r counts in nst,
\* those of h.
CountedUp(rs, st, new, nst, u, h, r) ==
    Cardinality(UnitsOf(BookOf(new, nst), r)) =
      Cardinality(UnitsOf(BookOf(rs, st), r)) + (IF r \in nst[u] THEN h.bw ELSE 0)

\* How the books before and after a reservation differ, whatever counts.
LEMMA Booked ==
    ASSUME NEW rs, NEW st, NEW new, NEW nst, NEW u \in Clients, NEW h,
           Adds(rs, st, new, nst, u, h), NEW r
    PROVE  CountedUp(rs, st, new, nst, u, h, r)
<1>1. BookOf(rs, st) \in Book /\ BookOf(new, nst) \in Book
  BY BookOfReservations DEF Adds
<1>2. Amount(None) = 0 /\ Amount(h) = h.bw
  BY DEF Adds, Amount
<1>3. /\ BookOf(rs, st)[u].bw = 0
      /\ BookOf(new, nst)[u].bw = h.bw /\ BookOf(new, nst)[u].uses = nst[u]
  BY <1>2 DEF BookOf, Adds
<1>4. \A v \in Clients : v # u => BookOf(new, nst)[v] = BookOf(rs, st)[v]
  BY DEF BookOf, Adds
<1>5. PICK less \in Book, more \in Book : less = BookOf(rs, st) /\ more = BookOf(new, nst)
  BY <1>1
<1>6. Cardinality(UnitsOf(more, r)) = Cardinality(UnitsOf(less, r)) + Part(more, u, r)
  BY <1>3, <1>4, <1>5, BooksDiffer
<1> QED BY <1>3, <1>5, <1>6 DEF Part, CountedUp

LEMMA Reserving ==
    ASSUME NEW av, NEW rs, NEW st, NEW lo, NEW areas, NEW code,
           Good(av, rs, st, lo, areas, code),
           NEW u \in Clients, rs[u] = None,
           NEW h, Reservation(h), h # None,
           \A r \in Uses(h) : av[r] >= h.bw,
           NEW left, left = [r \in Resources |-> IF r \in Uses(h) THEN av[r] - h.bw ELSE av[r]],
           NEW new, new = [rs EXCEPT ![u] = h],
           NEW nst, nst = [st EXCEPT ![u] = Uses(h)],
           NEW said \in Codes
    PROVE  Good(left, new, nst, lo, areas, said)
<1>1. /\ h.bw \in Nat \ {0} /\ Uses(h) \subseteq Resources
      /\ av \in [Resources -> Nat]
      /\ rs = [v \in Clients |-> rs[v]] /\ st = [v \in Clients |-> st[v]]
      /\ Counting(rs, st, lo, Walled(areas))
  BY Reservations DEF Good
<1>2. /\ new[u] = h /\ new = [v \in Clients |-> new[v]]
      /\ nst[u] = Uses(h) /\ nst = [v \in Clients |-> nst[v]]
      /\ \A v \in Clients : v # u => new[v] = rs[v] /\ nst[v] = st[v]
  BY <1>1
<1>3. ASSUME NEW r \in Resources
      PROVE  /\ left[r] = IF r \in Uses(h) THEN av[r] - h.bw ELSE av[r]
             /\ av[r] \in Nat /\ left[r] \in Nat /\ Capacity[r] \in Nat
  <2>1. av[r] \in Nat /\ Capacity[r] \in Nat
    BY <1>1, BandwidthAssumption
  <2> QED BY <1>1, <2>1
<1>4. left \in [Resources -> Nat]
  BY <1>3
<1>5. \A r \in Uses(h) : r \notin Walled(areas) \ lo
  <2> SUFFICES ASSUME NEW r \in Uses(h), r \in Walled(areas) \ lo PROVE FALSE
    OBVIOUS
  <2>1. r \in Resources /\ av[r] = 0
    BY <1>1 DEF Good, Balanced
  <2> QED BY <1>1, <2>1
<1>6. Counting(new, nst, lo, Walled(areas))
  BY <1>1, <1>2, <1>5 DEF Counting
<1>7. ASSUME NEW r \in Resources
      PROVE  /\ Cardinality(UnitsOf(BookOf(new, nst), r)) =
                  Cardinality(UnitsOf(BookOf(rs, st), r)) + (IF r \in Uses(h) THEN h.bw ELSE 0)
             /\ Cardinality(UnitsOf(BookOf(new, Full(new)), r)) =
                  Cardinality(UnitsOf(BookOf(rs, Full(rs)), r)) + (IF r \in Uses(h) THEN h.bw ELSE 0)
             /\ Cardinality(UnitsOf(BookOf(rs, st), r)) \in Nat
             /\ Cardinality(UnitsOf(BookOf(rs, Full(rs)), r)) \in Nat
  <2>1. Adds(rs, st, new, nst, u, h)
    BY <1>1, <1>2, <1>6 DEF Counting, Adds
  <2>2. PICK all, nall : all = Full(rs) /\ nall = Full(new)
    OBVIOUS
  <2>3. nall[u] = Uses(h) /\ Adds(rs, all, new, nall, u, h)
    BY <1>2, <2>1, <2>2 DEF Full, Adds
  <2>4. CountedUp(rs, st, new, nst, u, h, r) /\ CountedUp(rs, all, new, nall, u, h, r)
    BY <2>1, <2>3, Booked
  <2> QED BY <1>2, <2>2, <2>3, <2>4, GoodBooks DEF CountedUp
<1>8. Balanced(left, BookOf(new, nst), Walled(areas), lo)
  <2> SUFFICES ASSUME NEW r \in Resources \ lo
               PROVE  left[r] = IF r \in Walled(areas) THEN 0
                                ELSE Capacity[r] - Cardinality(UnitsOf(BookOf(new, nst), r))
    BY DEF Balanced
  <2>1. PICK k \in Nat : k = Cardinality(UnitsOf(BookOf(rs, st), r))
    BY <1>7
  <2>2. Cardinality(UnitsOf(BookOf(new, nst), r)) = k + (IF r \in Uses(h) THEN h.bw ELSE 0)
    BY <1>7, <2>1
  <2>3. av[r] = IF r \in Walled(areas) THEN 0 ELSE Capacity[r] - k
    BY <2>1 DEF Good, Balanced
  <2>4. /\ left[r] = IF r \in Uses(h) THEN av[r] - h.bw ELSE av[r]
        /\ av[r] \in Nat /\ Capacity[r] \in Nat
    BY <1>3
  <2> QED BY <1>1, <1>5, <2>1, <2>2, <2>3, <2>4
<1>9. Bounded(left, BookOf(new, Full(new)))
  <2>1. ASSUME NEW r \in Resources
        PROVE  left[r] + Cardinality(UnitsOf(BookOf(new, Full(new)), r)) =
                 av[r] + Cardinality(UnitsOf(BookOf(rs, Full(rs)), r))
    <3>1. PICK k \in Nat : k = Cardinality(UnitsOf(BookOf(rs, Full(rs)), r))
      BY <1>7
    <3>2. Cardinality(UnitsOf(BookOf(new, Full(new)), r)) = k + (IF r \in Uses(h) THEN h.bw ELSE 0)
      BY <1>7, <3>1
    <3>3. left[r] = (IF r \in Uses(h) THEN av[r] - h.bw ELSE av[r]) /\ av[r] \in Nat
      BY <1>3
    <3> QED BY <1>1, <3>1, <3>2, <3>3
  <2> QED BY <2>1 DEF Good, Bounded
<1> QED BY <1>2, <1>4, <1>6, <1>8, <1>9 DEF Good

\* A reservation that counts can be given back: no counter exceeds what is
\* configured.
LEMMA NothingOver ==
    ASSUME NEW av, NEW rs, NEW st, NEW lo, NEW areas, NEW code,
           Good(av, rs, st, lo, areas, code),
           NEW u \in Clients, rs[u] # None, NEW r \in st[u], r \notin lo
    PROVE  /\ r \in Resources /\ r \notin Walled(areas)
           /\ av[r] + rs[u].bw <= Capacity[r]
<1>1. Reservation(rs[u]) /\ r \in Uses(rs[u]) /\ r \notin Walled(areas)
  BY DEF Good, Counting
<1>2. r \in Resources /\ rs[u].bw \in Nat \ {0} /\ Amount(rs[u]) = rs[u].bw
  BY <1>1, Reservations
<1>3. av[r] = Capacity[r] - Cardinality(UnitsOf(BookOf(rs, st), r))
  BY <1>1, <1>2 DEF Good, Balanced
<1>4. /\ Part(BookOf(rs, st), u, r) <= Cardinality(UnitsOf(BookOf(rs, st), r))
      /\ Cardinality(UnitsOf(BookOf(rs, st), r)) \in Nat
  BY PartBound, GoodBooks
<1>5. Part(BookOf(rs, st), u, r) = rs[u].bw
  BY <1>2 DEF Part, BookOf
<1>6. Capacity[r] \in Nat
  BY <1>2, BandwidthAssumption
<1> QED BY <1>1, <1>2, <1>3, <1>4, <1>5, <1>6

\* The counters when bw units of each resource in S are given back.
Raised(av, S, bw) == [r \in Resources |-> IF r \in S THEN av[r] + bw ELSE av[r]]

\* Giving back the part S of a reservation, all of the cluster included.
LEMMA GivingBack ==
    ASSUME NEW av, NEW rs, NEW st, NEW lo, NEW areas, NEW code,
           Good(av, rs, st, lo, areas, code),
           NEW u \in Clients, rs[u] # None, NEW h, h = rs[u],
           NEW S, S \subseteq Uses(h), \A r \in Uses(h) : r[1] = Cluster => r \in S,
           NEW left, left = Raised(av, S, h.bw),
           NEW new, new = [rs EXCEPT ![u] = None],
           NEW nst, nst = [st EXCEPT ![u] = {}],
           NEW nlo, nlo = lo \cup (S \ st[u]) \cup (st[u] \ S),
           NEW said \in Codes
    PROVE  Good(left, new, nst, nlo, areas, said)
<1>1. /\ Reservation(h) /\ h # None
      /\ h.bw \in Nat \ {0} /\ Uses(h) \subseteq Resources
      /\ av \in [Resources -> Nat]
      /\ rs = [v \in Clients |-> rs[v]] /\ st = [v \in Clients |-> st[v]]
      /\ Counting(rs, st, lo, Walled(areas)) /\ st[u] \subseteq Uses(h)
  BY Reservations DEF Good, Counting
<1>2. /\ new[u] = None /\ new = [v \in Clients |-> new[v]]
      /\ nst[u] = {} /\ nst = [v \in Clients |-> nst[v]]
      /\ \A v \in Clients : v # u => new[v] = rs[v] /\ nst[v] = st[v]
  BY <1>1
<1>3. ASSUME NEW r \in Resources
      PROVE  /\ left[r] = IF r \in S THEN av[r] + h.bw ELSE av[r]
             /\ av[r] \in Nat /\ left[r] \in Nat /\ Capacity[r] \in Nat
  <2>1. av[r] \in Nat /\ Capacity[r] \in Nat
    BY <1>1, BandwidthAssumption
  <2> QED BY <1>1, <2>1 DEF Raised
<1>4. left \in [Resources -> Nat]
  BY <1>3 DEF Raised
<1>5. nlo \subseteq Resources /\ lo \subseteq nlo
  BY <1>1 DEF Good
<1>6. Counting(new, nst, nlo, Walled(areas))
  <2>1. Reservation(None) /\ Uses(None) = {}
    BY Reservations DEF Reservation
  <2> QED BY <1>1, <1>2, <1>5, <2>1 DEF Counting
<1>7. ClusterAlike(nlo)
  <2>1. \A r : r[1] = Cluster => (r \in nlo <=> r \in lo)
    BY <1>1 DEF Counting
  <2>2. <<Cluster, "READ">>[1] = Cluster /\ <<Cluster, "WRITE">>[1] = Cluster
    OBVIOUS
  <2> QED BY <2>1, <2>2 DEF Good, ClusterAlike
<1>8. ASSUME NEW r \in Resources
      PROVE  /\ Cardinality(UnitsOf(BookOf(rs, st), r)) =
                  Cardinality(UnitsOf(BookOf(new, nst), r)) + (IF r \in st[u] THEN h.bw ELSE 0)
             /\ Cardinality(UnitsOf(BookOf(rs, Full(rs)), r)) =
                  Cardinality(UnitsOf(BookOf(new, Full(new)), r)) + (IF r \in Uses(h) THEN h.bw ELSE 0)
             /\ Cardinality(UnitsOf(BookOf(new, nst), r)) \in Nat
             /\ Cardinality(UnitsOf(BookOf(new, Full(new)), r)) \in Nat
  <2>1. Adds(new, nst, rs, st, u, h)
    BY <1>1, <1>2, <1>6 DEF Counting, Adds
  <2>2. PICK all, nall : all = Full(rs) /\ nall = Full(new)
    OBVIOUS
  <2>3. all[u] = Uses(h) /\ Adds(new, nall, rs, all, u, h)
    BY <1>2, <2>1, <2>2 DEF Full, Adds
  <2>4. CountedUp(new, nst, rs, st, u, h, r) /\ CountedUp(new, nall, rs, all, u, h, r)
    BY <2>1, <2>3, Booked
  <2>5. BookOf(new, nst) \in Book /\ BookOf(new, nall) \in Book
    BY <2>1, <2>3, BookOfReservations DEF Adds
  <2> QED BY <2>2, <2>3, <2>4, <2>5, UnitsFinite DEF CountedUp
<1>9. Balanced(left, BookOf(new, nst), Walled(areas), nlo)
  <2> SUFFICES ASSUME NEW r \in Resources \ nlo
               PROVE  left[r] = IF r \in Walled(areas) THEN 0
                                ELSE Capacity[r] - Cardinality(UnitsOf(BookOf(new, nst), r))
    BY DEF Balanced
  <2>1. r \notin lo /\ (r \in S <=> r \in st[u])
    OBVIOUS
  <2>2. PICK k \in Nat : k = Cardinality(UnitsOf(BookOf(new, nst), r))
    BY <1>8
  <2>3. Cardinality(UnitsOf(BookOf(rs, st), r)) = k + (IF r \in S THEN h.bw ELSE 0)
    BY <1>8, <2>1, <2>2
  <2>4. av[r] = IF r \in Walled(areas) THEN 0
                ELSE Capacity[r] - (k + (IF r \in S THEN h.bw ELSE 0))
    BY <2>1, <2>3 DEF Good, Balanced
  <2>5. r \in S => r \notin Walled(areas)
    BY <2>1, NothingOver
  <2>6. /\ left[r] = IF r \in S THEN av[r] + h.bw ELSE av[r]
        /\ av[r] \in Nat /\ Capacity[r] \in Nat
    BY <1>3
  <2>7. PICK b \in Nat, c \in Nat, a \in Nat : b = h.bw /\ c = Capacity[r] /\ a = av[r]
    BY <1>1, <2>6
  <2>8. CASE r \in S
    <3>1. a = c - (k + b) /\ left[r] = a + b
      BY <2>4, <2>5, <2>6, <2>7, <2>8
    <3>2. left[r] = c - k
      BY <2>7, <3>1
    <3> QED BY <2>2, <2>5, <2>7, <2>8, <3>2
  <2>9. CASE r \notin S
    BY <2>2, <2>4, <2>6, <2>9
  <2> QED BY <2>8, <2>9
<1>10. Bounded(left, BookOf(new, Full(new)))
  <2> SUFFICES ASSUME NEW r \in Resources
               PROVE  LET n == left[r] + Cardinality(UnitsOf(BookOf(new, Full(new)), r))
                      IN  IF r[1] = Cluster
                          THEN n \in {Capacity[r]} \cup Garbage
                          ELSE n <= Capacity[r] + Cardinality(Clients) * Largest
    BY DEF Bounded
  <2>1. PICK limit \in Nat : limit = Cardinality(Clients) * Largest
    BY BandwidthAssumption, FS_CardinalityType
  <2>2. PICK k \in Nat : k = Cardinality(UnitsOf(BookOf(new, Full(new)), r))
    BY <1>8
  <2>3. PICK n \in Nat : n = Cardinality(UnitsOf(BookOf(rs, Full(rs)), r))
    BY GoodBooks
  <2>4. n = k + (IF r \in Uses(h) THEN h.bw ELSE 0)
    BY <1>8, <2>2, <2>3
  <2>5. IF r[1] = Cluster THEN av[r] + n \in {Capacity[r]} \cup Garbage
                          ELSE av[r] + n <= Capacity[r] + limit
    BY <2>1, <2>3 DEF Good, Bounded
  <2>6. /\ left[r] = IF r \in S THEN av[r] + h.bw ELSE av[r]
        /\ av[r] \in Nat /\ Capacity[r] \in Nat
    BY <1>3
  <2>7. left[r] + k <= av[r] + n
    BY <1>1, <2>4, <2>6
  <2>8. CASE r[1] = Cluster
    <3>1. left[r] + k = av[r] + n
      BY <1>1, <2>4, <2>6, <2>8
    <3> QED BY <2>2, <2>5, <2>8, <3>1
  <2>9. CASE r[1] # Cluster
    <3>1. left[r] \in Nat
      BY <1>3
    <3>2. left[r] + k <= Capacity[r] + limit
      BY <2>1, <2>2, <2>3, <2>5, <2>6, <2>7, <2>9, <3>1
    <3> QED BY <2>1, <2>2, <2>9, <3>2
  <2> QED BY <2>8, <2>9
<1> QED BY <1>2, <1>4, <1>5, <1>6, <1>7, <1>9, <1>10 DEF Good

\* All clients together have no more of a resource than each the most.
LEMMA AllUnits ==
    ASSUME NEW rs, \A u \in Clients : Reservation(rs[u]), NEW r
    PROVE  Cardinality(UnitsOf(BookOf(rs, Full(rs)), r)) <= Cardinality(Clients) * Largest
<1>1. \A u \in Clients : BookOf(rs, Full(rs))[u].bw \in 0 .. Largest
  <2>1. \A u \in Clients : Amount(rs[u]) \in 0 .. Largest
    <3> SUFFICES ASSUME NEW u \in Clients PROVE Amount(rs[u]) \in 0 .. Largest
      OBVIOUS
    <3>1. Largest \in Nat /\ Amounts \subseteq 1 .. Largest
      BY BandwidthAssumption
    <3>2. CASE rs[u] = None
      <4>1. Amount(rs[u]) = 0
        BY <3>2 DEF Amount
      <4>2. 0 \in 0 .. Largest
        BY <3>1
      <4> QED BY <4>1, <4>2
    <3>3. CASE rs[u] # None
      <4>1. PICK n : n = rs[u].bw /\ n \in Amounts /\ Amount(rs[u]) = n
        BY <3>3, Reservations
      <4>2. n \in 1 .. Largest
        BY <3>1, <4>1, Zenon
      <4>3. n \in 0 .. Largest
        BY <3>1, <4>2
      <4> QED BY <4>1, <4>3
    <3> QED BY <3>2, <3>3
  <2> QED BY <2>1 DEF BookOf
<1>2. UnitsOf(BookOf(rs, Full(rs)), r) \subseteq Clients \X (1 .. Largest)
  <2> SUFFICES ASSUME NEW x \in UnitsOf(BookOf(rs, Full(rs)), r)
               PROVE  x \in Clients \X (1 .. Largest)
    OBVIOUS
  <2>1. PICK u \in Clients : \E k \in 1 .. BookOf(rs, Full(rs))[u].bw : x = <<u, k>>
    BY UnitIn
  <2>2. PICK k \in 1 .. BookOf(rs, Full(rs))[u].bw : x = <<u, k>>
    BY <2>1
  <2>3. k \in 1 .. Largest
    BY <1>1, BandwidthAssumption
  <2> QED BY <2>2, <2>3
<1>3. IsFiniteSet(1 .. Largest) /\ Cardinality(1 .. Largest) = Largest
  BY FS_Interval, BandwidthAssumption
<1>4. /\ IsFiniteSet(Clients \X (1 .. Largest))
      /\ Cardinality(Clients \X (1 .. Largest)) = Cardinality(Clients) * Largest
  BY <1>3, FS_Product, BandwidthAssumption
<1> QED BY <1>2, <1>4, FS_Subset

\* The counters when the ports in T are set, to nothing or to all that is
\* configured.
Redrawn(av, T, then) ==
    [r \in Resources |->
       IF r \in T THEN (IF r \in Walled(then) THEN 0 ELSE Capacity[r]) ELSE av[r]]

\* All other resources are on the border of an area as they were.
SameElsewhere(areas, then, T) ==
    \A r \in Resources \ T : r \in Walled(then) <=> r \in Walled(areas)

Without(st, T) == [u \in Clients |-> st[u] \ T]

\* Isolating or opening: the ports in T are set, on the border of the areas after
\* it or of no area.
LEMMA Erasing ==
    ASSUME NEW av, NEW rs, NEW st, NEW lo, NEW areas, NEW code,
           Good(av, rs, st, lo, areas, code),
           NEW T, T \subseteq Tiles \X Ports,
           NEW then, then \subseteq Rectangles, Apart(then),
           SameElsewhere(areas, then, T),
           NEW left, left = Redrawn(av, T, then), NEW nst, nst = Without(st, T),
           NEW nlo, nlo = lo \ T,
           NEW said \in Codes
    PROVE  Good(left, rs, nst, nlo, then, said)
<1>1. /\ av \in [Resources -> Nat] /\ Counting(rs, st, lo, Walled(areas))
      /\ \A u \in Clients : Reservation(rs[u]) /\ Uses(rs[u]) \subseteq Resources
  BY Reservations DEF Good, Counting
<1>2. \A r : r[1] = Cluster => r \notin T
  <2>1. Cluster \notin Tiles
    BY TileCoordinates DEF Cluster
  <2> QED BY <2>1
<1>3. ASSUME NEW r \in Resources
      PROVE  /\ left[r] = IF r \in T THEN (IF r \in Walled(then) THEN 0 ELSE Capacity[r])
                                     ELSE av[r]
             /\ av[r] \in Nat /\ left[r] \in Nat /\ Capacity[r] \in Nat
  <2>1. av[r] \in Nat /\ Capacity[r] \in Nat
    BY <1>1, BandwidthAssumption
  <2> QED BY <2>1 DEF Redrawn
<1>4. left \in [Resources -> Nat]
  BY <1>3 DEF Redrawn
<1>5. \A u \in Clients : nst[u] = st[u] \ T
  BY DEF Without
<1>6. Counting(rs, nst, nlo, Walled(then))
  <2> SUFFICES ASSUME NEW u \in Clients
               PROVE  /\ Reservation(rs[u]) /\ nst[u] \subseteq Uses(rs[u])
                      /\ nst[u] \cap (Walled(then) \ nlo) = {}
                      /\ \A r \in Uses(rs[u]) : r[1] = Cluster => r \in nst[u]
    BY DEF Counting
  <2>1. /\ Reservation(rs[u]) /\ st[u] \subseteq Uses(rs[u])
        /\ st[u] \cap (Walled(areas) \ lo) = {}
        /\ \A r \in Uses(rs[u]) : r[1] = Cluster => r \in st[u]
    BY <1>1 DEF Counting
  <2>2. Uses(rs[u]) \subseteq Resources
    BY <1>1
  <2> QED BY <1>2, <1>5, <2>1, <2>2 DEF SameElsewhere
<1>7. ASSUME NEW r
      PROVE  UnitsOf(BookOf(rs, nst), r) = IF r \in T THEN {} ELSE UnitsOf(BookOf(rs, st), r)
  <2>1. \A u \in Clients : /\ BookOf(rs, nst)[u].uses = st[u] \ T
                           /\ BookOf(rs, st)[u].uses = st[u]
                           /\ BookOf(rs, nst)[u].bw = BookOf(rs, st)[u].bw
    BY <1>5 DEF BookOf
  <2>2. ASSUME NEW x
        PROVE  x \in UnitsOf(BookOf(rs, nst), r) <=> r \notin T /\ x \in UnitsOf(BookOf(rs, st), r)
    BY <2>1, UnitIn
  <2> QED BY <2>2
<1>8. Balanced(left, BookOf(rs, nst), Walled(then), nlo)
  <2> SUFFICES ASSUME NEW r \in Resources \ nlo
               PROVE  left[r] = IF r \in Walled(then) THEN 0
                                ELSE Capacity[r] - Cardinality(UnitsOf(BookOf(rs, nst), r))
    BY DEF Balanced
  <2>1. CASE r \in T
    <3>1. Cardinality(UnitsOf(BookOf(rs, nst), r)) = 0
      BY <1>7, <2>1, FS_EmptySet
    <3> QED BY <1>3, <2>1, <3>1
  <2>2. CASE r \notin T
    <3>1. r \in Resources \ lo /\ (r \in Walled(then) <=> r \in Walled(areas))
      BY <2>2 DEF SameElsewhere
    <3>2. left[r] = av[r]
      BY <1>3, <2>2
    <3>3. Cardinality(UnitsOf(BookOf(rs, nst), r)) = Cardinality(UnitsOf(BookOf(rs, st), r))
      BY <1>7, <2>2
    <3> QED BY <3>1, <3>2, <3>3 DEF Good, Balanced
  <2> QED BY <2>1, <2>2
<1>9. Bounded(left, BookOf(rs, Full(rs)))
  <2> SUFFICES ASSUME NEW r \in Resources
               PROVE  LET n == Cardinality(UnitsOf(BookOf(rs, Full(rs)), r))
                      IN  IF r[1] = Cluster
                          THEN left[r] + n \in {Capacity[r]} \cup Garbage
                          ELSE left[r] + n <= Capacity[r] + Cardinality(Clients) * Largest
    BY DEF Bounded
  <2>1. CASE r \notin T
    <3>1. left[r] = av[r]
      BY <1>3, <2>1
    <3> QED BY <3>1 DEF Good, Bounded
  <2>2. CASE r \in T
    <3>1. r[1] # Cluster
      BY <1>2, <2>2
    <3>2. left[r] <= Capacity[r]
      BY <1>3, <2>2
    <3>3. Cardinality(UnitsOf(BookOf(rs, Full(rs)), r)) <= Cardinality(Clients) * Largest
      BY <1>1, AllUnits
    <3>4. /\ Cardinality(UnitsOf(BookOf(rs, Full(rs)), r)) \in Nat
          /\ Cardinality(Clients) * Largest \in Nat
      BY GoodBooks, BandwidthAssumption, FS_CardinalityType
    <3>5. left[r] + Cardinality(UnitsOf(BookOf(rs, Full(rs)), r))
            <= Capacity[r] + Cardinality(Clients) * Largest
      BY <1>3, <3>2, <3>3, <3>4
    <3> QED BY <3>1, <3>5
  <2> QED BY <2>1, <2>2
<1>10. nlo \subseteq Resources /\ ClusterAlike(nlo)
  <2>1. <<Cluster, "READ">> \notin T /\ <<Cluster, "WRITE">> \notin T
    BY <1>2
  <2> QED BY <2>1 DEF Good, ClusterAlike
<1>11. nst = [u \in Clients |-> nst[u]] /\ rs = [u \in Clients |-> rs[u]]
  BY DEF Good, Without
<1> QED BY <1>4, <1>6, <1>8, <1>9, <1>10, <1>11 DEF Good

-----------------------------------------------------------------------------
(* Bandwidth: each action keeps the invariant.                             *)

\* A request is granted if every resource it needs has enough.
LEMMA ReserveStep ==
    ASSUME BandwidthInv, NEW u \in Clients, NEW h, Reservation(h), h # None,
           reserved[u] = None, \A r \in Uses(h) : avail[r] >= h.bw, Reserve(u, h)
    PROVE  BandwidthInv'
<1>1. Good(avail, reserved, standing, lost, isolated, answer.code)
  BY GoodState
<1>2. PICK left, new, nst :
        /\ left = [r \in Resources |-> IF r \in Uses(h) THEN avail[r] - h.bw ELSE avail[r]]
        /\ new = [reserved EXCEPT ![u] = h]
        /\ nst = [standing EXCEPT ![u] = Uses(h)]
  OBVIOUS
<1>3. /\ avail' = left /\ reserved' = new /\ standing' = nst
      /\ lost' = lost /\ isolated' = isolated /\ answer'.code \in Codes
  BY <1>2 DEF Reserve, Less, Answer, Codes
<1>4. Good(left, new, nst, lost, isolated, answer'.code)
  BY <1>1, <1>2, <1>3, Reserving
<1> QED BY <1>3, <1>4, GoodNext

\* A request that does not fit changes no counter.
LEMMA NotEnoughStep ==
    ASSUME BandwidthInv, NEW h, NotEnough(h)
    PROVE  BandwidthInv'
<1>1. Good(avail, reserved, standing, lost, isolated, answer.code)
  BY GoodState
<1>2. Good(avail', reserved', standing', lost', isolated', answer'.code)
  BY <1>1 DEF NotEnough, Answer, Codes, Good
<1> QED BY <1>2, GoodNext

\* What a release frees of a reservation h: all that is of the cluster, and all of
\* it, without complaint, where no isolation came between.
Frees(u, h, S, over) ==
    /\ h # None /\ S \subseteq Uses(h)
    /\ \A r \in Uses(h) : r[1] = Cluster => r \in S
    /\ standing[u] = Uses(h) /\ Uses(h) \cap lost = {} => S = Uses(h) /\ ~over

\* Giving back a part of a reservation.
LEMMA GiveBackStep ==
    ASSUME BandwidthInv, NEW u \in Clients, NEW S, NEW over,
           Frees(u, reserved[u], S, over), GiveBack(u, S, over)
    PROVE  BandwidthInv'
<1>1. Good(avail, reserved, standing, lost, isolated, answer.code)
  BY GoodState
<1>2. PICK left, new, nst, nlo, h :
        /\ h = reserved[u]
        /\ left = Raised(avail, S, h.bw)
        /\ new = [reserved EXCEPT ![u] = None]
        /\ nst = [standing EXCEPT ![u] = {}]
        /\ nlo = lost \cup (S \ standing[u]) \cup (standing[u] \ S)
  OBVIOUS
<1>3. /\ avail' = left /\ reserved' = new /\ standing' = nst /\ lost' = nlo
      /\ isolated' = isolated /\ answer'.code \in Codes
  BY <1>2 DEF GiveBack, More, Raised, Answer, Codes
<1>4. /\ h # None /\ S \subseteq Uses(h)
      /\ \A r \in Uses(h) : r[1] = Cluster => r \in S
  BY <1>2 DEF Frees
<1>5. Good(left, new, nst, nlo, isolated, answer'.code)
  BY <1>1, <1>2, <1>3, <1>4, GivingBack
<1> QED BY <1>3, <1>5, GoodNext

\* What a client that has a reservation of a kind can give back.
LEMMA Reserved ==
    ASSUME BandwidthInv, NEW u \in Clients, NEW h, h = reserved[u], h # None
    PROVE  /\ Reservation(h) /\ h.bw \in Nat \ {0}
           /\ Uses(h) \subseteq Resources
           /\ standing[u] = Uses(h) /\ Uses(h) \cap lost = {} =>
                \A r \in Uses(h) : r \in Resources /\ avail[r] + h.bw <= Capacity[r]
           /\ h.call = "one" => Uses(h) = {h.what}
           /\ h.call = "network" => Uses(h) = Route(h.src, h.dst)
<1>1. Good(avail, reserved, standing, lost, isolated, answer.code)
  BY GoodState
<1>2. Reservation(h)
  BY <1>1 DEF Good, Counting
<1>3. ASSUME standing[u] = Uses(h), Uses(h) \cap lost = {}, NEW r \in Uses(h)
      PROVE  r \in Resources /\ avail[r] + h.bw <= Capacity[r]
  <2>1. r \in standing[u] /\ r \notin lost
    BY <1>3
  <2> QED BY <1>1, <2>1, NothingOver
<1> QED BY <1>2, <1>3, Reservations

LEMMA NothingReserved == None.call = "none"
  BY DEF None

\* What counts is within its capacity: of a sound account no more is available
\* than is configured.
LEMMA SoundAccount ==
    ASSUME BandwidthInv, NEW r \in Resources \ lost
    PROVE  avail[r] \in Nat /\ Capacity[r] \in Nat /\ avail[r] <= Capacity[r]
<1>1. Good(avail, reserved, standing, lost, isolated, answer.code)
  BY GoodState
<1>2. Cardinality(UnitsOf(BookOf(reserved, standing), r)) \in Nat
  BY <1>1, GoodBooks
<1>3. avail[r] \in Nat /\ Capacity[r] \in Nat
  BY <1>1, BandwidthAssumption DEF Good
<1>4. avail[r] = 0 \/ avail[r] = Capacity[r] - Cardinality(UnitsOf(BookOf(reserved, standing), r))
  BY <1>1 DEF Good, Balanced
<1> QED BY <1>2, <1>3, <1>4

\* A release of a single resource.
LEMMA ReleaseOneFacts ==
    ASSUME BandwidthInv, NEW u \in Clients, ReleaseOne(u)
    PROVE  \E S, over : Frees(u, reserved[u], S, over) /\ GiveBack(u, S, over)
<1>1. PICK h : h = reserved[u]
  OBVIOUS
<1>2. h.call = "one" /\ h # None
  BY <1>1, NothingReserved DEF ReleaseOne
<1>3. /\ Uses(h) = {h.what} /\ h.what \in Resources /\ h.bw \in Nat
      /\ standing[u] = Uses(h) /\ Uses(h) \cap lost = {} =>
           avail[h.what] + h.bw <= Capacity[h.what]
  <2>1. /\ h.bw \in Nat \ {0} /\ Uses(h) \subseteq Resources /\ Uses(h) = {h.what}
        /\ standing[u] = Uses(h) /\ Uses(h) \cap lost = {} =>
             \A r \in Uses(h) : r \in Resources /\ avail[r] + h.bw <= Capacity[r]
    BY <1>1, <1>2, Reserved
  <2> QED BY <2>1
<1>4. PICK r, after, over :
        /\ r = Looked(h.what) /\ after = More({h.what}, h.bw)
        /\ over = (after[r] > Capacity[r])
  OBVIOUS
<1>5. GiveBack(u, {h.what}, over)
  BY <1>1, <1>4 DEF ReleaseOne
<1>6. ASSUME standing[u] = Uses(h), Uses(h) \cap lost = {} PROVE ~over
  <2>1. r \in Resources \ lost
    <3>1. CASE h.what[1] = Cluster
      <4>1. h.what = <<Cluster, "READ">> \/ h.what = <<Cluster, "WRITE">>
        <5>1. Cluster \notin Tiles
          BY TileCoordinates DEF Cluster
        <5> QED BY <1>3, <3>1, <5>1 DEF Resources
      <4>2. r = <<Cluster, "WRITE">> /\ r \in Resources
        BY <1>4, <3>1 DEF Looked, Resources
      <4>3. <<Cluster, "READ">> \in lost <=> <<Cluster, "WRITE">> \in lost
        BY DEF BandwidthInv
      <4> QED BY <1>3, <1>6, <4>1, <4>2, <4>3
    <3>2. CASE h.what[1] # Cluster
      BY <1>3, <1>4, <1>6, <3>2 DEF Looked
    <3> QED BY <3>1, <3>2
  <2>2. avail[r] \in Nat /\ Capacity[r] \in Nat /\ avail[r] <= Capacity[r]
    BY <2>1, SoundAccount
  <2>3. after[r] = IF r \in {h.what} THEN avail[r] + h.bw ELSE avail[r]
    BY <1>4, <2>1 DEF More
  <2>4. ~ (after[r] > Capacity[r])
    BY <1>3, <1>6, <2>2, <2>3
  <2> QED BY <1>4, <2>4
<1>7. Frees(u, h, {h.what}, over)
  BY <1>2, <1>3, <1>6 DEF Frees
<1> QED BY <1>1, <1>5, <1>7

\* The release of a route that counts: no port is left with more than is
\* configured, so the release goes all along the route.
LEMMA ReleaseNetworkFacts ==
    ASSUME BandwidthInv, NEW u \in Clients, ReleaseNetwork(u)
    PROVE  \E S, over : Frees(u, reserved[u], S, over) /\ GiveBack(u, S, over)
<1>1. PICK h : h = reserved[u]
  OBVIOUS
<1>2. h.call = "network" /\ h # None
  BY <1>1, NothingReserved DEF ReleaseNetwork
<1>3. /\ Uses(h) = Route(h.src, h.dst) /\ h.bw \in Nat /\ Uses(h) \subseteq Resources
      /\ Reservation(h)
      /\ standing[u] = Uses(h) /\ Uses(h) \cap lost = {} =>
           \A r \in Uses(h) : avail[r] + h.bw <= Capacity[r]
  BY <1>1, <1>2, Reserved
<1>4. PICK above, S :
        /\ above = {w \in Route(h.src, h.dst) : avail[w] + h.bw > Capacity[w]}
        /\ S = {w \in Route(h.src, h.dst) :
                  \A o \in above : Hops(h.src, w[1]) <= Hops(h.src, o[1])}
  OBVIOUS
<1>5. GiveBack(u, S, above # {})
  BY <1>1, <1>4 DEF ReleaseNetwork
<1>6. \A r \in Uses(h) : r[1] # Cluster
  <2>1. \E p \in Pairs, bw \in Amounts : h = Net(p[1], p[2], bw)
    <3>1. \A r, bw : One(r, bw).call = "one"
      BY DEF One
    <3> QED BY <1>2, <1>3, <3>1 DEF Reservation
  <2>2. PICK p \in Pairs : Uses(h) = Route(p[1], p[2])
    BY <1>3, <2>1 DEF Net
  <2>3. Uses(h) \subseteq Tiles \X Ports
    BY <2>2, RoutesReal
  <2>4. Cluster \notin Tiles
    BY TileCoordinates DEF Cluster
  <2> QED BY <2>3, <2>4
<1>7. ASSUME standing[u] = Uses(h), Uses(h) \cap lost = {} PROVE S = Uses(h) /\ above = {}
  <2>1. \A r \in Uses(h) : ~ (avail[r] + h.bw > Capacity[r])
    <3> SUFFICES ASSUME NEW r \in Uses(h) PROVE ~ (avail[r] + h.bw > Capacity[r])
      OBVIOUS
    <3>1. avail[r] \in Nat /\ Capacity[r] \in Nat
      BY <1>3, <1>7, SoundAccount
    <3> QED BY <1>3, <1>7, <3>1
  <2>2. above = {}
    BY <1>3, <1>4, <2>1
  <2> QED BY <1>3, <1>4, <2>2
<1>8. Frees(u, h, S, above # {})
  BY <1>2, <1>3, <1>4, <1>6, <1>7 DEF Frees
<1> QED BY <1>1, <1>5, <1>8

\* The two outcomes of the reservation of a request h.
Asks(u, h) ==
    /\ reserved[u] = None
    /\ \/ /\ \E r \in Uses(h) : avail[r] < h.bw
          /\ NotEnough(h)
       \/ /\ \A r \in Uses(h) : avail[r] >= h.bw
          /\ Reserve(u, h)

LEMMA ReserveOneAsks ==
    ASSUME NEW u \in Clients, NEW r \in Single, NEW bw \in Amounts, ReserveOne(u, r, bw)
    PROVE  Reservation(One(r, bw)) /\ One(r, bw) # None /\ Asks(u, One(r, bw))
<1>1. PICK h : h = One(r, bw)
  OBVIOUS
<1>2. Reservation(h) /\ h.bw = bw /\ h.call = "one" /\ h.what = r
  BY <1>1 DEF Reservation, One
<1>3. h # None /\ Uses(h) = {r}
  BY <1>2, NothingReserved, Reservations
<1>4. Asks(u, h)
  BY <1>1, <1>2, <1>3 DEF ReserveOne, Asks
<1> QED BY <1>1, <1>2, <1>3, <1>4

\* The smallest bandwidth of the route decides about all of its ports.
LEMMA ReserveNetworkAsks ==
    ASSUME BandwidthInv, NEW u \in Clients, NEW p \in Pairs, NEW bw \in Amounts,
           ReserveNetwork(u, p[1], p[2], bw)
    PROVE  /\ Reservation(Net(p[1], p[2], bw)) /\ Net(p[1], p[2], bw) # None
           /\ Asks(u, Net(p[1], p[2], bw))
<1>1. PICK h : h = Net(p[1], p[2], bw)
  OBVIOUS
<1>2. Reservation(h) /\ h.bw = bw /\ h.call = "network" /\ h.src = p[1] /\ h.dst = p[2]
  BY <1>1 DEF Reservation, Net
<1>3. h # None /\ Uses(h) = Route(p[1], p[2])
  BY <1>2, NothingReserved, Reservations
<1>4. Route(p[1], p[2]) \subseteq Resources /\ Route(p[1], p[2]) # {}
  BY RoutesReal
<1>5. PICK S : S = {avail[w] : w \in Route(p[1], p[2])}
  OBVIOUS
<1>6. S \subseteq Nat /\ S # {} /\ bw \in Nat
  BY <1>4, <1>5, BandwidthAssumption DEF BandwidthInv, BandwidthTypeOK
<1>7. Min(S) \in S /\ \A y \in S : Min(S) <= y
  BY <1>6, Smallest
<1>8. AvailableNetwork(p[1], p[2]) = Min(S)
  BY <1>5 DEF AvailableNetwork
<1>9. Min(S) < bw <=> \E r \in Uses(h) : avail[r] < bw
  <2>1. ASSUME Min(S) < bw PROVE \E r \in Uses(h) : avail[r] < bw
    BY <1>3, <1>5, <1>7, <2>1
  <2>2. ASSUME NEW r \in Uses(h), avail[r] < bw PROVE Min(S) < bw
    <3>1. avail[r] \in S
      BY <1>3, <1>5
    <3>2. Min(S) <= avail[r] /\ Min(S) \in Nat /\ avail[r] \in Nat
      BY <1>6, <1>7, <3>1
    <3> QED BY <1>6, <2>2, <3>2
  <2> QED BY <2>1, <2>2
<1>10. Min(S) >= bw <=> \A r \in Uses(h) : avail[r] >= bw
  <2>1. Min(S) \in Nat /\ \A r \in Uses(h) : avail[r] \in Nat
    BY <1>3, <1>5, <1>6, <1>7
  <2>2. Min(S) >= bw <=> ~ (Min(S) < bw)
    BY <1>6, <2>1
  <2>3. ASSUME NEW r \in Uses(h) PROVE avail[r] >= bw <=> ~ (avail[r] < bw)
    BY <1>6, <2>1
  <2> QED BY <1>9, <2>2, <2>3
<1>11. Asks(u, h)
  BY <1>1, <1>2, <1>8, <1>9, <1>10 DEF ReserveNetwork, Asks
<1> QED BY <1>1, <1>2, <1>3, <1>11

LEMMA AsksStep ==
    ASSUME BandwidthInv, NEW u \in Clients, NEW h, Reservation(h), h # None, Asks(u, h)
    PROVE  BandwidthInv'
  BY ReserveStep, NotEnoughStep DEF Asks

LEMMA WallsArePorts ==
    ASSUME NEW B
    PROVE  Walls(B) \subseteq Tiles \X Ports /\ Walls(B) \subseteq Resources
  BY DEF Walls, Resources

LEMMA IsolateStep ==
    ASSUME BandwidthInv, NEW B \in Rectangles, Isolate(B)
    PROVE  BandwidthInv'
<1>1. Good(avail, reserved, standing, lost, isolated, answer.code)
  BY GoodState
<1>2. PICK then, left, nst, nlo :
        /\ then = isolated \cup {B}
        /\ left = Redrawn(avail, Walls(B), then)
        /\ nst = Without(standing, Walls(B))
        /\ nlo = lost \ Walls(B)
  OBVIOUS
<1>3. Walled(then) = Walled(isolated) \cup Walls(B)
  BY <1>2 DEF Walled
<1>4. /\ avail' = left /\ reserved' = reserved /\ standing' = nst /\ lost' = nlo
      /\ isolated' = then /\ answer'.code \in Codes /\ B \cap UNION isolated = {}
  BY <1>2, <1>3 DEF Isolate, Erase, Assigned, Codes, Redrawn, Without
<1>5. then \subseteq Rectangles /\ Apart(then)
  BY <1>1, <1>2, <1>4 DEF Good, Apart
<1>6. SameElsewhere(isolated, then, Walls(B))
  BY <1>3 DEF SameElsewhere
<1>7. Walls(B) \subseteq Tiles \X Ports
  BY WallsArePorts
<1>8. Good(left, reserved, nst, nlo, then, answer'.code)
  BY <1>1, <1>2, <1>4, <1>5, <1>6, <1>7, Erasing
<1> QED BY <1>4, <1>8, GoodNext

\* The ports release_units_set gives their bandwidth back.
Reopened(B, areas) == {w \in Walls(B) : Ends(w) \cap ((UNION areas) \ B) = {}}

\* They are those that no other area has on its border: an area that has the tile
\* outside has the port on its border.
LEMMA ReopenedPorts ==
    ASSUME NEW areas, Apart(areas), NEW B \in areas, NEW w \in Walls(B)
    PROVE  Ends(w) \cap ((UNION areas) \ B) = {} <=> w \notin Walled(areas \ {B})
<1> DEFINE in  == IF w[1] \in B THEN w[1] ELSE Neighbour(w[1], w[2])
           out == IF w[1] \in B THEN Neighbour(w[1], w[2]) ELSE w[1]
<1>1. Ends(w) = {in, out} /\ in \in B /\ out \notin B
  BY DEF Walls, Ends
<1>2. ASSUME NEW C \in areas, C # B
      PROVE  w \in Walls(C) <=> out \in C
  <2>1. in \notin C
    BY <1>1, <1>2 DEF Apart
  <2> QED BY <1>1, <2>1 DEF Walls
<1> HIDE DEF in, out
<1>3. Ends(w) \cap ((UNION areas) \ B) = {} <=> ~ \E C \in areas : C # B /\ out \in C
  BY <1>1 DEF Apart
<1>4. w \in Walled(areas \ {B}) <=> \E C \in areas : C # B /\ w \in Walls(C)
  BY DEF Walled
<1> QED BY <1>2, <1>3, <1>4

LEMMA OpenStep ==
    ASSUME BandwidthInv, NEW B \in Rectangles, Open(B)
    PROVE  BandwidthInv'
<1>1. Good(avail, reserved, standing, lost, isolated, answer.code)
  BY GoodState
<1>2. PICK T, then, left, nst, nlo :
        /\ T = Reopened(B, isolated) /\ then = isolated \ {B}
        /\ left = Redrawn(avail, T, then)
        /\ nst = Without(standing, T)
        /\ nlo = lost \ T
  OBVIOUS
<1>3. B \in isolated
  BY DEF Open
<1>4. \A r : r \in T <=> r \in Walls(B) /\ r \notin Walled(then)
  BY <1>1, <1>2, <1>3, ReopenedPorts DEF Good, Reopened
<1>5. Walled(isolated) = Walled(then) \cup Walls(B)
  BY <1>2, <1>3 DEF Walled
<1>6. /\ avail' = left /\ reserved' = reserved /\ standing' = nst /\ lost' = nlo
      /\ isolated' = then /\ answer'.code \in Codes
  BY <1>2, <1>4 DEF Open, Erase, Assigned, Codes, Reopened, Redrawn, Without
<1>7. then \subseteq Rectangles /\ Apart(then)
  BY <1>1, <1>2 DEF Good, Apart
<1>8. SameElsewhere(isolated, then, T)
  BY <1>4, <1>5 DEF SameElsewhere
<1>9. T \subseteq Tiles \X Ports
  BY <1>2, WallsArePorts DEF Reopened
<1>10. Good(left, reserved, nst, nlo, then, answer'.code)
  BY <1>1, <1>2, <1>6, <1>7, <1>8, <1>9, Erasing
<1> QED BY <1>6, <1>10, GoodNext

LEMMA NextBandwidthInv == BandwidthInv /\ [BandwidthNext]_bandwidthVars => BandwidthInv'
<1> SUFFICES ASSUME BandwidthInv, [BandwidthNext]_bandwidthVars PROVE BandwidthInv'
  OBVIOUS
<1>1. ASSUME NEW u \in Clients, NEW bw \in Amounts, NEW r \in Single, ReserveOne(u, r, bw)
      PROVE  BandwidthInv'
  BY <1>1, ReserveOneAsks, AsksStep
<1>2. ASSUME NEW u \in Clients, NEW bw \in Amounts, NEW p \in Pairs,
             ReserveNetwork(u, p[1], p[2], bw)
      PROVE  BandwidthInv'
  BY <1>2, ReserveNetworkAsks, AsksStep
<1>3. ASSUME NEW u \in Clients, ReleaseOne(u) PROVE BandwidthInv'
  BY <1>3, ReleaseOneFacts, GiveBackStep
<1>4. ASSUME NEW u \in Clients, ReleaseNetwork(u) PROVE BandwidthInv'
  BY <1>4, ReleaseNetworkFacts, GiveBackStep
<1>5. ASSUME NEW B \in Rectangles, Isolate(B) \/ Open(B) PROVE BandwidthInv'
  BY <1>5, IsolateStep, OpenStep
<1>6. CASE UNCHANGED bandwidthVars
  <2>1. Good(avail', reserved', standing', lost', isolated', answer'.code)
    BY <1>6, GoodState DEF bandwidthVars
  <2> QED BY <2>1, GoodNext
<1> QED BY <1>1, <1>2, <1>3, <1>4, <1>5, <1>6 DEF BandwidthNext

\* The strengthened invariant holds in every reachable state.
THEOREM BandwidthInvariance == BandwidthSpec => []BandwidthInv
<1>1. BandwidthInit => BandwidthInv
  BY InitBandwidthInv
<1>2. BandwidthInv /\ [BandwidthNext]_bandwidthVars => BandwidthInv'
  BY NextBandwidthInv
<1> QED BY <1>1, <1>2, PTL DEF BandwidthSpec

\* No counter of bandwidth wraps below 0, nor grows without bound, whatever is
\* isolated or opened under the reservations.
THEOREM CountersInRange == BandwidthSpec => []BandwidthTypeOK
<1>1. BandwidthInv => BandwidthTypeOK
  BY DEF BandwidthInv
<1> QED BY <1>1, BandwidthInvariance, PTL

\* No bandwidth is lost or made, in whatever order routes that share ports are
\* reserved and released and areas isolated and opened, except where a reservation
\* is given back that an isolation has erased.
THEOREM NoBandwidthLost == BandwidthSpec => []BandwidthExact
<1>1. BandwidthInv => BandwidthExact
  BY DEF BandwidthInv
<1> QED BY <1>1, BandwidthInvariance, PTL

-----------------------------------------------------------------------------
(* Bandwidth: the counters implement the ledger.                           *)

LEMMA NoRequest == Request(None) = L!Nothing
<1>1. Uses(None) = {} /\ Amount(None) = 0
  BY Reservations DEF Reservation
<1> QED BY <1>1 DEF Request, L!Nothing

\* What clients hold, as the ledger has it.
Holds(rs) == [u \in Clients |-> Request(rs[u])]

LEMMA LedgerUnits ==
    ASSUME NEW r
    PROVE  L!Reserved(r) = Cardinality(UnitsOf(BookOf(reserved, standing), r))
<1>1. PICK book : book = BookOf(reserved, standing)
  OBVIOUS
<1>2. \A u \in Clients : /\ book[u].uses = standing[u]
                        /\ book[u].bw = Holds(reserved)[u].bw
  BY <1>1 DEF BookOf, Holds, Request
<1>3. ASSUME NEW x PROVE x \in L!Units(r) <=> x \in UnitsOf(book, r)
  BY <1>2, UnitIn DEF L!Units, Holds
<1>4. L!Units(r) = UnitsOf(book, r)
  BY <1>3
<1>5. \A T : L!Cardinality(T) = Cardinality(T)
  BY DEF L!Cardinality, Cardinality, L!IsFiniteSet, IsFiniteSet
<1> QED BY <1>1, <1>4, <1>5 DEF L!Reserved

\* The ledger looks at what is held, the code at what is left.
LEMMA FitsIsEnough ==
    ASSUME BandwidthInv, NEW h, Reservation(h), h # None
    PROVE  L!Fits(Request(h)) <=> \A r \in Uses(h) \ lost : avail[r] >= h.bw
<1>1. Good(avail, reserved, standing, lost, isolated, answer.code)
  BY GoodState
<1>2. /\ Request(h).uses = Uses(h) /\ Request(h).bw = h.bw /\ h.bw \in Nat \ {0}
      /\ Uses(h) \subseteq Resources
  <2>1. Amount(h) = h.bw /\ h.bw \in Nat \ {0} /\ Uses(h) \subseteq Resources
    BY Reservations
  <2> QED BY <2>1 DEF Request
<1>3. Isolated = Walled(isolated)
  BY DEF Isolated, Walled
<1>4. ASSUME NEW r \in Uses(h) \ lost
      PROVE  avail[r] >= h.bw <=> r \notin Isolated /\ L!Reserved(r) + h.bw <= Capacity[r]
  <2>1. avail[r] = IF r \in Isolated THEN 0
                   ELSE Capacity[r] - Cardinality(UnitsOf(BookOf(reserved, standing), r))
    BY <1>1, <1>2, <1>3 DEF Good, Balanced
  <2>2. Capacity[r] \in Nat /\ Cardinality(UnitsOf(BookOf(reserved, standing), r)) \in Nat
    BY <1>1, <1>2, GoodBooks, BandwidthAssumption
  <2>3. L!Reserved(r) = Cardinality(UnitsOf(BookOf(reserved, standing), r))
    BY LedgerUnits
  <2> QED BY <1>2, <2>1, <2>2, <2>3
<1>5. L!Fits(Request(h)) <=>
        \A r \in Uses(h) \ lost : r \notin Isolated /\ L!Reserved(r) + h.bw <= Capacity[r]
  BY <1>2 DEF L!Fits
<1> QED BY <1>4, <1>5

LEMMA LedgerInit == BandwidthInit => L!Init
<1> SUFFICES ASSUME BandwidthInit PROVE L!Init
  OBVIOUS
<1>1. \A u \in Clients : Request(reserved[u]) = L!Nothing
  BY NoRequest DEF BandwidthInit
<1>2. [u \in Clients |-> Request(reserved[u])] = [u \in Clients |-> L!Nothing]
  BY <1>1
<1>3. Isolated = {}
  BY DEF BandwidthInit, Isolated
<1>4. answer = L!Answer(L!Nothing, "SUCCEEDED")
  BY NoRequest DEF BandwidthInit, Answer, L!Answer
<1>5. standing = [u \in Clients |-> {}] /\ lost \in {{}, {Cluster} \X {"READ", "WRITE"}}
  BY DEF BandwidthInit
<1> QED BY <1>2, <1>3, <1>4, <1>5 DEF L!Init

\* A reservation is a grant, or a refusal.
LEMMA AsksLedger ==
    ASSUME BandwidthInv, NEW u \in Clients, NEW h, Reservation(h), h # None, Asks(u, h)
    PROVE  L!Next
<1>1. /\ reserved = [v \in Clients |-> reserved[v]] /\ reserved[u] = None
      /\ Holds(reserved)[u] = L!Nothing
  BY NoRequest DEF BandwidthInv, Asks, Holds
<1>2. /\ answer'.asked = Request(h) /\ Request(h) \in Requested
      /\ answer'.asked.uses = Uses(h)
  BY Reservations DEF Asks, Reserve, NotEnough, Answer, Request
<1>3. isolated' = isolated /\ Isolated' = Isolated /\ lost' = lost
  BY DEF Asks, Reserve, NotEnough, Isolated
<1>4. CASE Reserve(u, h) /\ \A r \in Uses(h) : avail[r] >= h.bw
  <2>1. L!Fits(answer'.asked) /\ answer'.code = "SUCCEEDED"
    BY <1>2, <1>4, FitsIsEnough DEF Reserve, Answer
  <2>2. reserved'[u] = h /\ \A v \in Clients : v # u => reserved'[v] = reserved[v]
    BY <1>1, <1>4 DEF Reserve
  <2>3. Holds(reserved)' = [Holds(reserved) EXCEPT ![u] = answer'.asked]
    BY <1>2, <2>2 DEF Holds
  <2>4. standing' = [standing EXCEPT ![u] = answer'.asked.uses]
    BY <1>2, <1>4 DEF Reserve
  <2> QED BY <1>1, <1>2, <1>3, <2>1, <2>3, <2>4 DEF L!Next, L!Grant, Holds
<1>5. CASE NotEnough(h) /\ \E r \in Uses(h) : avail[r] < h.bw
  <2>1. L!Fits(answer'.asked) => answer'.asked.uses \cap lost # {}
    <3>1. PICK r \in Uses(h) : avail[r] < h.bw
      BY <1>5
    <3>2. r \in Resources /\ h.bw \in Nat
      BY Reservations
    <3>3. avail[r] \in Nat
      BY <3>2 DEF BandwidthInv, BandwidthTypeOK
    <3>4. ~ (avail[r] >= h.bw)
      BY <3>1, <3>2, <3>3
    <3> QED BY <1>2, <3>4, FitsIsEnough
  <2>2. answer'.code = "NOT_ENOUGH_BANDWIDTH_AVAILABLE"
    BY <1>5 DEF NotEnough, Answer
  <2>3. Holds(reserved)' = Holds(reserved) /\ standing' = standing
    BY <1>5 DEF NotEnough, Holds
  <2> QED BY <1>1, <1>2, <1>3, <2>1, <2>2, <2>3 DEF L!Next, L!Refuse, Holds
<1> QED BY <1>4, <1>5 DEF Asks

\* A release gives back what was granted, if it counts.
LEMMA GiveBackLedger ==
    ASSUME BandwidthInv, NEW u \in Clients, NEW S, NEW over,
           Frees(u, reserved[u], S, over), GiveBack(u, S, over)
    PROVE  L!Next
<1>1. /\ Reservation(reserved[u]) /\ reserved[u] # None
      /\ reserved = [v \in Clients |-> reserved[v]]
      /\ standing[u] \subseteq Uses(reserved[u]) /\ S \subseteq Uses(reserved[u])
  BY DEF BandwidthInv, BandwidthTypeOK, Reservation, Frees
<1>2. Holds(reserved)[u] # L!Nothing /\ Holds(reserved)[u].uses = Uses(reserved[u])
  <2>1. Holds(reserved)[u].bw \in Nat \ {0} /\ Holds(reserved)[u].uses = Uses(reserved[u])
    BY <1>1, Reservations DEF Holds, Request
  <2> QED BY <2>1 DEF L!Nothing
<1>3. reserved'[u] = None /\ \A v \in Clients : v # u => reserved'[v] = reserved[v]
  BY <1>1 DEF GiveBack
<1>4. Holds(reserved)' = [Holds(reserved) EXCEPT ![u] = L!Nothing]
  <2>1. \A v \in Clients : Request(reserved'[v]) =
                             IF v = u THEN L!Nothing ELSE Request(reserved[v])
    BY <1>3, NoRequest
  <2> QED BY <2>1 DEF Holds
<1>5. answer'.asked = L!Nothing
  BY NoRequest DEF GiveBack, Answer
<1>6. Isolated' = Isolated /\ standing' = [standing EXCEPT ![u] = {}]
  BY DEF Isolated, GiveBack
<1>7. CASE standing[u] = Uses(reserved[u]) /\ Uses(reserved[u]) \cap lost = {}
  <2>1. S = standing[u] /\ ~over
    BY <1>7 DEF Frees
  <2>2. answer'.code = "SUCCEEDED" /\ lost' = lost
    BY <2>1 DEF GiveBack, Answer
  <2> QED BY <1>2, <1>4, <1>5, <1>6, <2>2 DEF L!Next, L!GiveBack, Holds
<1>8. CASE standing[u] # Uses(reserved[u]) \/ Uses(reserved[u]) \cap lost # {}
  <2>1. /\ answer'.code \in {"SUCCEEDED", "WRONG_BANDWIDTH_SETTING"}
        /\ lost \subseteq lost' /\ lost' \subseteq lost \cup Uses(reserved[u])
    BY <1>1 DEF GiveBack, Answer
  <2> QED BY <1>2, <1>4, <1>5, <1>6, <1>8, <2>1 DEF L!Next, L!GiveBack, Holds
<1> QED BY <1>7, <1>8

\* Isolating an area closes its border; opening it, all that no other area has.
LEMMA IsolationLedger ==
    ASSUME BandwidthInv, NEW B \in Rectangles, Isolate(B) \/ Open(B)
    PROVE  L!Next
<1>1. /\ Isolated = Walled(isolated) /\ Isolated' = Walled(isolated')
  BY DEF Isolated, Walled
<1>2. CASE Isolate(B)
  <2>1. /\ reserved' = reserved /\ answer' = [asked |-> [uses |-> Walls(B), bw |-> 0],
                                             code |-> "SUCCEEDED"]
        /\ standing' = [u \in Clients |-> standing[u] \ Walls(B)]
        /\ lost' = lost \ Walls(B) /\ isolated' = isolated \cup {B}
    BY <1>2 DEF Isolate, Erase
  <2>2. Isolated' = Isolated \cup Walls(B)
    BY <1>1, <2>1 DEF Walled
  <2>3. answer'.asked.uses = Walls(B) /\ answer' = L!Answer([uses |-> Walls(B), bw |-> 0], "SUCCEEDED")
    BY <2>1 DEF L!Answer
  <2> QED BY <2>1, <2>2, <2>3 DEF L!Next, L!Isolation
<1>3. CASE Open(B)
  <2>1. PICK T : T = Reopened(B, isolated)
    OBVIOUS
  <2>2. /\ reserved' = reserved /\ answer' = [asked |-> [uses |-> T, bw |-> 0],
                                             code |-> "SUCCEEDED"]
        /\ standing' = [u \in Clients |-> standing[u] \ T]
        /\ lost' = lost \ T /\ isolated' = isolated \ {B} /\ B \in isolated
    BY <1>3, <2>1 DEF Open, Erase, Reopened, Assigned
  <2>3. Apart(isolated)
    BY DEF BandwidthInv, Apart
  <2>4. \A r : r \in T <=> r \in Walls(B) /\ r \notin Walled(isolated \ {B})
    BY <2>1, <2>2, <2>3, ReopenedPorts DEF Reopened
  <2>5. Isolated' = Isolated \ T /\ T \subseteq Walls(B)
    <3>1. Walled(isolated) = Walled(isolated \ {B}) \cup Walls(B)
      BY <2>2 DEF Walled
    <3> QED BY <1>1, <2>2, <2>4, <3>1
  <2>6. answer'.asked.uses = T /\ answer' = L!Answer([uses |-> T, bw |-> 0], "SUCCEEDED")
    BY <2>2 DEF L!Answer
  <2> QED BY <2>2, <2>5, <2>6 DEF L!Next, L!Isolation
<1> QED BY <1>2, <1>3

\* The counters grant a request exactly when it fits what is held by others, all
\* of it or nothing, and take back all that was granted, where no isolation has
\* come between.
THEOREM CountersImplementLedger == BandwidthSpec => ImplementsLedger
<1>1. BandwidthInit => L!Init
  BY LedgerInit
<1>2. BandwidthInv /\ [BandwidthNext]_bandwidthVars => [L!Next]_L!ledgerVars
  <2> SUFFICES ASSUME BandwidthInv, [BandwidthNext]_bandwidthVars
               PROVE  [L!Next]_L!ledgerVars
    OBVIOUS
  <2>1. ASSUME NEW u \in Clients, NEW bw \in Amounts, NEW r \in Single, ReserveOne(u, r, bw)
        PROVE  L!Next
    BY <2>1, ReserveOneAsks, AsksLedger
  <2>2. ASSUME NEW u \in Clients, NEW bw \in Amounts, NEW p \in Pairs,
               ReserveNetwork(u, p[1], p[2], bw)
        PROVE  L!Next
    BY <2>2, ReserveNetworkAsks, AsksLedger
  <2>3. ASSUME NEW u \in Clients, ReleaseOne(u) PROVE L!Next
    BY <2>3, ReleaseOneFacts, GiveBackLedger
  <2>4. ASSUME NEW u \in Clients, ReleaseNetwork(u) PROVE L!Next
    BY <2>4, ReleaseNetworkFacts, GiveBackLedger
  <2>5. ASSUME NEW B \in Rectangles, Isolate(B) \/ Open(B) PROVE L!Next
    BY <2>5, IsolationLedger
  <2>6. CASE UNCHANGED bandwidthVars
    BY <2>6 DEF bandwidthVars, L!ledgerVars, Isolated
  <2> QED BY <2>1, <2>2, <2>3, <2>4, <2>5, <2>6 DEF BandwidthNext
<1> QED BY <1>1, <1>2, BandwidthInvariance, PTL DEF BandwidthSpec, ImplementsLedger, L!Spec
=============================================================================
