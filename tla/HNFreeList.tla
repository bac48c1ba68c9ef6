----------------------------- MODULE HNFreeList -----------------------------
(***************************************************************************)
(* The free list HNemu keeps for the memory attached to one tile           *)
(* (gn/hnemu/hnemu.cpp): a linked list of slots [start, size, end], kept   *)
(* here as a sequence.  The operators take the list as an argument, so     *)
(* that one list (HNMemory) and the lists of all the tiles (GNManager) use *)
(* the same definitions.                                                   *)
(*                                                                         *)
(* A search of the code walks the list and stops at the first slot that    *)
(* fits.  It is written as the set of the positions at which it stops:     *)
(* one position, or none when the walk reaches the end of the list.        *)
(***************************************************************************)
EXTENDS Integers, Sequences, SequencesExt

CONSTANT AddrSpace  \* addresses are unsigned int: 2^32, scaled down

ASSUME AddrSpaceAssumption == AddrSpace \in Nat \ {0}

\* Sums of addresses are computed in 32 bits.  No operand pair in the code
\* can exceed twice the address space, so one subtraction is the modulus.
Wrap(a) == IF a >= AddrSpace THEN a - AddrSpace ELSE a

Slot(start, size) == [start |-> start, size |-> size, end |-> start + size - 1]

-----------------------------------------------------------------------------
\* get_free_memory: first slot large enough for n.
FirstFit(list, n) ==
    {i \in DOMAIN list : /\ list[i].size >= n
                         /\ \A j \in 1..(i - 1) : list[j].size < n}

\* allocate_memory: the first slot whose start address is a ...
FirstAt(list, a) ==
    {i \in DOMAIN list : /\ list[i].start = a
                         /\ \A j \in 1..(i - 1) : list[j].start # a}

\* ... and what it leaves of that slot.  A slot consumed entirely is deleted
\* unless it is the first one, which stays with size 0 and start = end + 1.
\* A faulty variant: the block is cut from the other end of the slot.
ShrinkAtEnd(s, n) ==
    [start |-> s.start, size |-> s.size - n, end |-> s.end - n]

Shrink(s, n) ==
    [start |-> Wrap(s.start + n), size |-> s.size - n, end |-> s.end]

\* A faulty variant: the first slot is deleted like the others.
TakeDeletesFirst(list, i, n) ==
    IF list[i].size = n
      THEN RemoveAt(list, i)
      ELSE [list EXCEPT ![i] = Shrink(list[i], n)]

Take(list, i, n) ==
    IF i > 1 /\ list[i].size = n
      THEN RemoveAt(list, i)
      ELSE [list EXCEPT ![i] = Shrink(list[i], n)]

-----------------------------------------------------------------------------
\* release_memory: the first pair of neighbours (i - 1, i) around address a.
Around(list, a) ==
    LET between(i) == list[i - 1].start < a /\ list[i].start > a
    IN  {i \in 2..Len(list) : between(i) /\ \A j \in 2..(i - 1) : ~between(j)}

\* A slot grows by n at its end, or at its beginning, or swallows the n units
\* between it and the slot mem, and mem.
GrowUp(s, n)      == [start |-> s.start, size |-> s.size + n, end |-> s.end + n]
GrowDown(s, a, n) == [start |-> a, size |-> s.size + n, end |-> s.end]
\* A faulty variant: the free units of the slot swallowed are forgotten.
JoinForgetsSlot(s, n, mem) ==
    [start |-> s.start, size |-> s.size + n, end |-> mem.end]

Join(s, n, mem)   == [start |-> s.start, size |-> s.size + n + mem.size,
                      end |-> mem.end]

\* The block (a, n) goes back between the slots i - 1 and i.
PutBetween(list, i, a, n) ==
    LET prev      == list[i - 1]
        mem       == list[i]
        joinsPrev == Wrap(prev.end + 1) = a
        joinsMem  == Wrap(a + n) = mem.start
    IN  CASE joinsPrev /\ ~joinsMem ->
               [list EXCEPT ![i - 1] = GrowUp(prev, n)]
          [] ~joinsPrev /\ joinsMem ->
               [list EXCEPT ![i] = GrowDown(mem, a, n)]
          [] joinsPrev /\ joinsMem ->
               [RemoveAt(list, i) EXCEPT ![i - 1] = Join(prev, n, mem)]
          [] ~joinsPrev /\ ~joinsMem ->
               InsertAt(list, i, Slot(a, n))

\* No pair of neighbours is around a: the block goes to one of the ends.
PutAtEnds(list, a, n) ==
    LET last       == list[Len(list)]
        joinsFirst == Wrap(a + n) = list[1].start
        joinsLast  == Wrap(last.end + 1) = a
    IN  CASE joinsFirst -> [list EXCEPT ![1] = GrowDown(list[1], a, n)]
          [] ~joinsFirst /\ joinsLast ->
               [list EXCEPT ![Len(list)] = GrowUp(last, n)]
          [] ~joinsFirst /\ ~joinsLast /\ a > last.start ->
               InsertAt(list, Len(list) + 1, Slot(a, n))
          [] ~joinsFirst /\ ~joinsLast /\ a <= last.start ->
               InsertAt(list, 1, Slot(a, n))

\* The lists release_memory can leave: always exactly one.
Puts(list, a, n) ==
    IF Around(list, a) = {}
      THEN {PutAtEnds(list, a, n)}
      ELSE {PutBetween(list, i, a, n) : i \in Around(list, a)}

-----------------------------------------------------------------------------
(* A memory of size units from address base, and a slot of its list.       *)

Memory(base, size) == base .. (base + size - 1)

\* No memory is the whole address space: see README.
MemoryFits(base, size) ==
    base \in Nat /\ size \in Nat \ {0} /\ base + size <= AddrSpace /\ size < AddrSpace

SlotType(size) == [start : 0 .. AddrSpace - 1, size : 0 .. size, end : 0 .. AddrSpace - 1]

\* The addresses a slot offers.
Free(s) == s.start .. (s.start + s.size - 1)

\* The addresses a list offers.
Offered(list) == UNION {Free(list[i]) : i \in DOMAIN list}

\* A slot lies in the memory, and its end address agrees with the other two
\* fields: for an empty slot, start is the address after end.
SlotIn(base, size, s) ==
    /\ s.end \in Memory(base, size)
    /\ s.size > 0 => s.start >= base /\ s.end = s.start + s.size - 1
    /\ s.size = 0 => s.start = Wrap(s.end + 1)
=============================================================================
