---------------------------- MODULE MCGNManager -----------------------------
(***************************************************************************)
(* Instances of GNManager for TLC.  As in MCHNMemory, the empty slots at   *)
(* the head of a free list can pile up without bound, so the length of the *)
(* lists is capped.                                                        *)
(***************************************************************************)
EXTENDS GNManager

CONSTANTS k1, k2, b1, b2, b3, e1, e2, e3,
          MaxSlots   \* bound: longest free list explored

\* Two tiles with memory, one above the other as in config.xml.
TwoMemTiles == {<<0, 0>>, <<0, 1>>}
TwoBases    == [m \in TwoMemTiles |-> IF m = Tile0 THEN 0 ELSE 6]

OneMemTile  == {Tile0}
OneBase     == [m \in OneMemTile |-> 0]

\* Two buffers of k1 and one of k2; b1 and b3 share an event.
KernelOf == [b \in Buffers |-> IF b = b3 THEN k2 ELSE k1]
EventOf  == [b \in Buffers |-> IF b = b2 THEN e2 ELSE e1]
SizeOf   == [b \in Buffers |-> IF b = b3 THEN 4 ELSE 2]

\* Without b2, e2 and e3 differ in nothing.
EventSymmetry == Permutations({e2, e3})

OneEvent  == [b \in Buffers |-> e1]
OneKernel == [b \in Buffers |-> k1]

MCNext == Next /\ \A m \in MemTiles : Len(lists'[m]) <= MaxSlots
MCSpec == Init /\ [][MCNext]_vars
=============================================================================
