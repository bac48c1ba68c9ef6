------------------------------ MODULE HNArena -------------------------------
(***************************************************************************)
(* What the memory allocator of a tile promises to its callers, whatever   *)
(* it keeps to do it: the blocks handed out are pieces of the memory of    *)
(* the tile and no address belongs to two of them.                         *)
(***************************************************************************)
EXTENDS Integers

CONSTANTS Base,     \* first address of the memory of the tile
          MemSize,  \* its size
          Sizes     \* the sizes requested

VARIABLE granted    \* the blocks [addr, size] handed out

Extent(b) == b.addr .. (b.addr + b.size - 1)

Arena == Base .. (Base + MemSize - 1)

Blocks == [addr : Arena, size : Sizes]

Init == granted = {}

\* A caller gets a block that overlaps no outstanding one.
Grant(b) ==
    /\ Extent(b) \subseteq Arena
    /\ \A g \in granted : Extent(b) \cap Extent(g) = {}
    /\ granted' = granted \cup {b}

Return(b) ==
    /\ b \in granted
    /\ granted' = granted \ {b}

Next == \E b \in Blocks : Grant(b) \/ Return(b)

Spec == Init /\ [][Next]_granted
=============================================================================
