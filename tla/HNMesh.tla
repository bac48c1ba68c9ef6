------------------------------- MODULE HNMesh -------------------------------
(***************************************************************************)
(* The geometry of a cluster of HNemu (gn/hnemu/hnemu.cpp): Rows x Cols    *)
(* tiles in a mesh, one router per tile.  The code numbers tiles row by    *)
(* row; here a tile is its pair of coordinates <<x, y>>.                   *)
(***************************************************************************)
EXTENDS Integers, FiniteSets

CONSTANTS Cols, Rows   \* num_cols, num_rows

ASSUME MeshAssumption == Cols \in Nat \ {0} /\ Rows \in Nat \ {0}

Tiles == (0 .. Cols - 1) \X (0 .. Rows - 1)

\* The index of a tile in tile_info.
Index(t) == t[2] * Cols + t[1]

Ports == {"NORTH", "EAST", "WEST", "SOUTH"}

\* The tile the router of t reaches through a port, whether or not it exists.
Neighbour(t, p) ==
    CASE p = "NORTH" -> <<t[1], t[2] - 1>>
      [] p = "SOUTH" -> <<t[1], t[2] + 1>>
      [] p = "WEST"  -> <<t[1] - 1, t[2]>>
      [] p = "EAST"  -> <<t[1] + 1, t[2]>>

\* The two tiles a port connects.
Ends(w) == {w[1], Neighbour(w[1], w[2])}

-----------------------------------------------------------------------------
\* The smallest rectangle that contains the tiles of S.
Box(S) ==
    {t \in Tiles : /\ \E l, r \in S : l[1] <= t[1] /\ t[1] <= r[1]
                   /\ \E u, d \in S : u[2] <= t[2] /\ t[2] <= d[2]}

\* A faulty variant: the border of the mesh is not tested.
WallsPastEdge(B) ==
    {w \in Tiles \X Ports : (w[1] \in B) # (Neighbour(w[1], w[2]) \in B)}

\* A faulty variant: only the ports of the tiles inside.
WallsInside(B) ==
    {w \in B \X Ports : Neighbour(w[1], w[2]) \in Tiles \ B}

\* The ports on the border of the area B, on both sides of it.
Walls(B) ==
    {w \in Tiles \X Ports : /\ Neighbour(w[1], w[2]) \in Tiles
                            /\ (w[1] \in B) # (Neighbour(w[1], w[2]) \in B)}

-----------------------------------------------------------------------------
\* The port the router of tile t sends to for tile dst: x first, then y.
RoutePort(t, dst) ==
    CASE t[1] < dst[1] -> "EAST"
      [] t[1] > dst[1] -> "WEST"
      [] t[1] = dst[1] /\ t[2] < dst[2] -> "SOUTH"
      [] t[1] = dst[1] /\ t[2] > dst[2] -> "NORTH"

\* The tiles whose routers send: all the route but its last tile.
RouteTiles(src, dst) ==
    {t \in Tiles :
       \/ /\ t[2] = src[2] /\ t[1] # dst[1]
          /\ t[1] \in src[1] .. dst[1] \/ t[1] \in dst[1] .. src[1]
       \/ /\ t[1] = dst[1] /\ t[2] # dst[2]
          /\ t[2] \in src[2] .. dst[2] \/ t[2] \in dst[2] .. src[2]}

-----------------------------------------------------------------------------
\* Both searches around tile t visit the tiles ring by ring; in a ring, column
\* distance by column distance; then NE, NW, SW, SE (N, S and E, W on the axes).
Abs(n) == IF n < 0 THEN -n ELSE n

Distance(t, u) == Abs(t[1] - u[1]) + Abs(t[2] - u[2])

Quadrant(t, u) ==
    CASE u[1] >= t[1] /\ u[2] <= t[2] -> 0
      [] u[1] <  t[1] /\ u[2] <= t[2] -> 1
      [] u[1] <= t[1] /\ u[2] >  t[2] -> 2
      [] u[1] >  t[1] /\ u[2] >  t[2] -> 3

Rank(t, u) ==
    4 * (Cols + Rows) * Distance(t, u) + 4 * Abs(t[1] - u[1]) + Quadrant(t, u)

\* Both stop before the largest distance of the mesh.
Searched(t) == {u \in Tiles : Distance(t, u) < Cols + Rows - 2}

\* The first n tiles of C visited.
FirstVisited(t, C, n) ==
    {u \in C : Cardinality({v \in C : Rank(t, v) < Rank(t, u)}) < n}
=============================================================================
