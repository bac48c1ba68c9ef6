----------------------------- MODULE MCHNMemory -----------------------------
(***************************************************************************)
(* Instances of HNMemory for TLC.  The empty slots that allocate_memory    *)
(* leaves at the head of the list can pile up without bound (see README),  *)
(* so the length of the list is capped.                                    *)
(***************************************************************************)
EXTENDS HNMemory

CONSTANT MaxSlots   \* bound: longest free list explored

MCSpec == Init /\ [][Next /\ Len(slots') <= MaxSlots]_vars
=====

