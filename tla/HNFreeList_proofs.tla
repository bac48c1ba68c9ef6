------------------------- MODULE HNFreeList_proofs --------------------------
(***************************************************************************)
(* What the operators of HNFreeList do to the free list of a memory of     *)
(* size units from address base, whatever its slots and their order.       *)
(***************************************************************************)
EXTENDS HNFreeList, SequenceTheorems, FiniteSetTheorems, TLAPS

\* Some slot of the list offers address x.
Covers(list, x) == \E j \in DOMAIN list : x \in Free(list[j])

\* Some slot other than slot i offers x.
Elsewhere(list, i, x) == \E j \in DOMAIN list : j # i /\ x \in Free(list[j])

\* At most one slot offers x.
Single(list, x) ==
    \A i, j \in DOMAIN list : x \in Free(list[i]) /\ x \in Free(list[j]) => i = j

GoodSlot(base, size, s) == s \in SlotType(size) /\ SlotIn(base, size, s)

GoodList(base, size, list) ==
    /\ list \in Seq(SlotType(size)) /\ list # <<>>
    /\ \A i \in DOMAIN list : SlotIn(base, size, list[i])

-----------------------------------------------------------------------------
(* Lists: what changing, deleting or inserting one slot does.              *)

\* Deleting slot i shifts the slots after it.
LEMMA RemoveAtShifts ==
    ASSUME NEW S, NEW s \in Seq(S), NEW i \in 1..Len(s)
    PROVE  /\ RemoveAt(s, i) \in Seq(S)
           /\ Len(RemoveAt(s, i)) = Len(s) - 1
           /\ \A j \in 1..(Len(s) - 1) :
                RemoveAt(s, i)[j] = IF j < i THEN s[j] ELSE s[j + 1]
<1> DEFINE p == SubSeq(s, 1, i - 1)
           q == SubSeq(s, i + 1, Len(s))
           t == p \o q
<1>0. Len(s) \in Nat /\ i \in Int
  BY LenProperties
<1>1. p \in Seq(S) /\ Len(p) = i - 1 /\ \A j \in 1..(i - 1) : p[j] = s[j]
  OBVIOUS
<1>2. q \in Seq(S) /\ Len(q) = Len(s) - i /\ \A j \in 1..(Len(s) - i) : q[j] = s[i + j]
  OBVIOUS
<1>3. RemoveAt(s, i) = t
  BY DEF RemoveAt
<1> HIDE DEF p, q
<1>4. /\ t \in Seq(S)
      /\ Len(t) = Len(p) + Len(q)
      /\ \A j \in 1..(Len(p) + Len(q)) :
           t[j] = IF j <= Len(p) THEN p[j] ELSE q[j - Len(p)]
  BY <1>1, <1>2, ConcatProperties
<1> HIDE DEF t
<1>5. Len(t) = Len(s) - 1
  BY <1>0, <1>1, <1>2, <1>4
<1>6. ASSUME NEW j \in 1..(Len(s) - 1)
      PROVE  t[j] = IF j < i THEN s[j] ELSE s[j + 1]
  <2>1. CASE j < i
    <3>1. j \in 1..(i - 1) /\ j \in 1..(Len(p) + Len(q)) /\ j <= Len(p)
      BY <1>0, <1>1, <1>2, <2>1
    <3> QED BY <1>1, <1>4, <2>1, <3>1
  <2>2. CASE j >= i
    <3>1. /\ j - (i - 1) \in 1..(Len(s) - i) /\ i + (j - (i - 1)) = j + 1
          /\ j \in 1..(Len(p) + Len(q)) /\ ~(j <= Len(p))
      BY <1>0, <1>1, <1>2, <2>2
    <3>2. t[j] = q[j - (i - 1)]
      BY <1>1, <1>4, <3>1
    <3> QED BY <1>0, <1>2, <2>2, <3>1, <3>2
  <2> QED BY <1>0, <2>1, <2>2
<1> QED
  BY <1>3, <1>4, <1>5, <1>6

\* Inserting an element at i shifts the elements from i on.
LEMMA InsertAtShifts ==
    ASSUME NEW S, NEW s \in Seq(S), NEW i \in 1..(Len(s) + 1), NEW e \in S
    PROVE  /\ InsertAt(s, i, e) \in Seq(S)
           /\ Len(InsertAt(s, i, e)) = Len(s) + 1
           /\ \A j \in 1..(Len(s) + 1) :
                InsertAt(s, i, e)[j] = IF j < i THEN s[j]
                                       ELSE IF j = i THEN e ELSE s[j - 1]
<1> DEFINE p == SubSeq(s, 1, i - 1)
           q == SubSeq(s, i, Len(s))
           r == p \o <<e>>
           t == r \o q
<1>0. Len(s) \in Nat /\ i \in Int
  BY LenProperties
<1>1. p \in Seq(S) /\ Len(p) = i - 1 /\ \A j \in 1..(i - 1) : p[j] = s[j]
  <2>1. \A j \in 1..(i - 1) : s[j] \in S
    BY <1>0, ElementOfSeq
  <2> QED BY <1>0, <2>1, SubSeqProperties
<1>2. /\ q \in Seq(S) /\ Len(q) = Len(s) - i + 1
      /\ \A j \in 1..(Len(s) - i + 1) : q[j] = s[i + j - 1]
  <2>1. \A j \in i..Len(s) : s[j] \in S
    BY <1>0, ElementOfSeq
  <2> QED BY <1>0, <2>1, SubSeqProperties
<1>3. InsertAt(s, i, e) = t
  BY DEF InsertAt
<1> HIDE DEF p, q
<1>4. /\ r \in Seq(S) /\ Len(r) = i
      /\ \A j \in 1..i : r[j] = IF j < i THEN s[j] ELSE e
  <2>1. <<e>> \in Seq(S) /\ Len(<<e>>) = 1 /\ <<e>>[1] = e
    OBVIOUS
  <2> HIDE DEF r
  <2>2. /\ r \in Seq(S) /\ Len(r) = i
        /\ \A j \in 1..i : r[j] = IF j <= i - 1 THEN p[j] ELSE <<e>>[j - (i - 1)]
    BY <1>0, <1>1, <2>1, ConcatProperties DEF r
  <2> QED BY <1>0, <1>1, <2>1, <2>2
<1> HIDE DEF r
<1>5. /\ t \in Seq(S) /\ Len(t) = Len(s) + 1
      /\ \A j \in 1..(Len(s) + 1) :
           t[j] = IF j <= i THEN r[j] ELSE q[j - i]
  BY <1>0, <1>2, <1>4, ConcatProperties
<1> HIDE DEF t
<1>6. ASSUME NEW j \in 1..(Len(s) + 1)
      PROVE  t[j] = IF j < i THEN s[j]
                           ELSE IF j = i THEN e ELSE s[j - 1]
  <2>1. CASE j <= i
    BY <1>0, <1>4, <1>5, <2>1
  <2>2. CASE j > i
    <3>1. j - i \in 1..(Len(s) - i + 1) /\ i + (j - i) - 1 = j - 1
      BY <1>0, <2>2
    <3> QED BY <1>0, <1>2, <1>5, <2>2, <3>1
  <2> QED BY <1>0, <2>1, <2>2
<1> QED
  BY <1>3, <1>5, <1>6

\* Where x is offered, seen from slot i.
LEMMA SplitAtSlot ==
    ASSUME NEW list, NEW i \in DOMAIN list, NEW x
    PROVE  /\ Covers(list, x) <=> x \in Free(list[i]) \/ Elsewhere(list, i, x)
           /\ Single(list, x) => ~(x \in Free(list[i]) /\ Elsewhere(list, i, x))
  BY DEF Covers, Elsewhere, Single

\* Replacing slot i by s.
LEMMA ReplaceSlot ==
    ASSUME NEW base, NEW size, MemoryFits(base, size),
           NEW list, GoodList(base, size, list), NEW i \in DOMAIN list,
           NEW s, GoodSlot(base, size, s),
           NEW new, new = [list EXCEPT ![i] = s]
    PROVE  /\ GoodList(base, size, new)
           /\ \A x : Covers(new, x) <=> x \in Free(s) \/ Elsewhere(list, i, x)
           /\ \A x : Single(list, x) /\ ~(x \in Free(s) /\ Elsewhere(list, i, x))
                       => Single(new, x)
           /\ \A x : Elsewhere(new, i, x) <=> Elsewhere(list, i, x)
<1>1. /\ new \in Seq(SlotType(size)) /\ Len(new) = Len(list)
      /\ \A j \in 1..Len(list) : new[j] = IF j = i THEN s ELSE list[j]
  BY ExceptSeq DEF GoodList, GoodSlot
<1>2. DOMAIN new = 1..Len(list) /\ DOMAIN list = 1..Len(list) /\ Len(list) \in Nat \ {0}
  BY <1>1 DEF GoodList
<1>3. GoodList(base, size, new)
  BY <1>1, <1>2 DEF GoodList, GoodSlot
<1>4. \A x : Covers(new, x) <=> x \in Free(s) \/ Elsewhere(list, i, x)
  BY <1>1, <1>2 DEF Covers, Elsewhere
<1>5. \A x : Single(list, x) /\ ~(x \in Free(s) /\ Elsewhere(list, i, x)) => Single(new, x)
  BY <1>1, <1>2 DEF Single, Elsewhere
<1>6. \A x : Elsewhere(new, i, x) <=> Elsewhere(list, i, x)
  BY <1>1, <1>2 DEF Elsewhere
<1> QED BY <1>3, <1>4, <1>5, <1>6

\* Deleting slot i of a list of several slots.
LEMMA RemoveSlot ==
    ASSUME NEW base, NEW size, MemoryFits(base, size),
           NEW list, GoodList(base, size, list), NEW i \in DOMAIN list, Len(list) > 1,
           NEW new, new = RemoveAt(list, i)
    PROVE  /\ GoodList(base, size, new)
           /\ \A x : Covers(new, x) <=> Elsewhere(list, i, x)
           /\ \A x : Single(list, x) => Single(new, x)
<1>1. /\ new \in Seq(SlotType(size)) /\ Len(new) = Len(list) - 1
      /\ \A j \in 1..(Len(list) - 1) : new[j] = IF j < i THEN list[j] ELSE list[j + 1]
  BY RemoveAtShifts DEF GoodList
<1>2. DOMAIN new = 1..(Len(list) - 1) /\ DOMAIN list = 1..Len(list) /\ Len(list) \in Nat \ {0}
  BY <1>1 DEF GoodList
<1>3. GoodList(base, size, new)
  <2>1. new # <<>>
    BY <1>1, <1>2
  <2>2. \A j \in 1..Len(list) : SlotIn(base, size, list[j])
    BY <1>2 DEF GoodList
  <2>3. ASSUME NEW j \in 1..(Len(list) - 1)
        PROVE  SlotIn(base, size, new[j])
    <3>1. /\ j \in 1..Len(list) /\ j + 1 \in 1..Len(list)
          /\ new[j] = list[j] \/ new[j] = list[j + 1]
      BY <1>1, <1>2
    <3> QED BY <2>2, <3>1
  <2> QED BY <1>1, <1>2, <2>1, <2>3 DEF GoodList
<1>4. ASSUME NEW x
      PROVE  Covers(new, x) <=> Elsewhere(list, i, x)
  <2>1. Covers(new, x) => Elsewhere(list, i, x)
    BY <1>1, <1>2 DEF Covers, Elsewhere
  <2>2. ASSUME NEW j \in DOMAIN list, j # i, x \in Free(list[j])
        PROVE  Covers(new, x)
    <3>1. CASE j < i
      BY <1>1, <1>2, <2>2, <3>1 DEF Covers
    <3>2. CASE j > i
      <4>1. j - 1 \in DOMAIN new /\ new[j - 1] = list[j]
        BY <1>1, <1>2, <3>2
      <4> QED BY <2>2, <4>1 DEF Covers
    <3> QED BY <1>2, <2>2, <3>1, <3>2
  <2> QED BY <2>1, <2>2 DEF Elsewhere
<1>5. ASSUME NEW x, Single(list, x)
      PROVE  Single(new, x)
  <2> DEFINE old(m) == IF m < i THEN m ELSE m + 1
  <2>1. ASSUME NEW m \in DOMAIN new
        PROVE  old(m) \in DOMAIN list /\ new[m] = list[old(m)]
    BY <1>1, <1>2
  <2>2. \A j, k \in DOMAIN new : old(j) = old(k) => j = k
    BY <1>2
  <2> HIDE DEF old
  <2> QED BY <1>5, <2>1, <2>2 DEF Single
<1> QED BY <1>3, <1>4, <1>5

\* Inserting slot s at position i, the position after the last included.
LEMMA InsertSlot ==
    ASSUME NEW base, NEW size, MemoryFits(base, size),
           NEW list, GoodList(base, size, list), NEW i \in 1..(Len(list) + 1),
           NEW s, GoodSlot(base, size, s),
           NEW new, new = InsertAt(list, i, s)
    PROVE  /\ GoodList(base, size, new)
           /\ \A x : Covers(new, x) <=> x \in Free(s) \/ Covers(list, x)
           /\ \A x : Single(list, x) /\ ~(x \in Free(s) /\ Covers(list, x))
                       => Single(new, x)
<1>1. /\ new \in Seq(SlotType(size)) /\ Len(new) = Len(list) + 1
      /\ \A j \in 1..(Len(list) + 1) :
           new[j] = IF j < i THEN list[j] ELSE IF j = i THEN s ELSE list[j - 1]
  BY InsertAtShifts DEF GoodList, GoodSlot
<1>2. DOMAIN new = 1..(Len(list) + 1) /\ DOMAIN list = 1..Len(list) /\ Len(list) \in Nat \ {0}
  BY <1>1 DEF GoodList
<1>3. GoodList(base, size, new)
  <2>1. new # <<>>
    BY <1>1, <1>2
  <2>2. SlotIn(base, size, s) /\ \A j \in 1..Len(list) : SlotIn(base, size, list[j])
    BY <1>2 DEF GoodList, GoodSlot
  <2>3. ASSUME NEW j \in 1..(Len(list) + 1)
        PROVE  SlotIn(base, size, new[j])
    <3>1. CASE j < i
      BY <1>1, <1>2, <2>2, <3>1
    <3>2. CASE j = i
      BY <1>1, <1>2, <2>2, <3>2
    <3>3. CASE j > i
      <4>1. new[j] = list[j - 1] /\ j - 1 \in 1..Len(list)
        BY <1>1, <1>2, <3>3
      <4> QED BY <2>2, <4>1
    <3> QED BY <1>2, <3>1, <3>2, <3>3
  <2> QED BY <1>1, <1>2, <2>1, <2>3 DEF GoodList
<1>4. ASSUME NEW x
      PROVE  Covers(new, x) <=> x \in Free(s) \/ Covers(list, x)
  <2>1. Covers(new, x) => x \in Free(s) \/ Covers(list, x)
    BY <1>1, <1>2 DEF Covers
  <2>2. x \in Free(s) => Covers(new, x)
    BY <1>1, <1>2 DEF Covers
  <2>3. ASSUME NEW j \in DOMAIN list, x \in Free(list[j])
        PROVE  Covers(new, x)
    <3>1. CASE j < i
      BY <1>1, <1>2, <2>3, <3>1 DEF Covers
    <3>2. CASE j >= i
      <4>1. j + 1 \in DOMAIN new /\ new[j + 1] = list[j]
        BY <1>1, <1>2, <3>2
      <4> QED BY <2>3, <4>1 DEF Covers
    <3> QED BY <1>2, <3>1, <3>2
  <2> QED BY <2>1, <2>2, <2>3 DEF Covers
<1>5. ASSUME NEW x, Single(list, x), ~(x \in Free(s) /\ Covers(list, x))
      PROVE  Single(new, x)
  <2> SUFFICES ASSUME NEW j \in DOMAIN new, NEW k \in DOMAIN new, j < k,
                      x \in Free(new[j]), x \in Free(new[k])
               PROVE  FALSE
    BY <1>2 DEF Single
  <2> DEFINE old(m) == IF m < i THEN m ELSE m - 1
  <2>1. ASSUME NEW m \in DOMAIN new, m # i
        PROVE  old(m) \in DOMAIN list /\ new[m] = list[old(m)]
    BY <1>1, <1>2, <2>1
  <2>2. j # i => Covers(list, x)
    BY <2>1 DEF Covers
  <2>3. k # i => Covers(list, x)
    BY <2>1 DEF Covers
  <2>4. j # i /\ k # i
    BY <1>1, <1>2, <1>5, <2>2, <2>3
  <2>5. old(j) # old(k)
    BY <1>2, <2>4
  <2> QED BY <1>5, <2>1, <2>4, <2>5 DEF Single
<1> QED BY <1>3, <1>4, <1>5

-----------------------------------------------------------------------------
(* Slots: what allocating from and releasing into a slot does.             *)

LEMMA GoodSlots ==
    ASSUME NEW base, NEW size, MemoryFits(base, size),
           NEW list, GoodList(base, size, list)
    PROVE  /\ Len(list) \in Nat \ {0} /\ DOMAIN list = 1..Len(list)
           /\ \A i \in 1..Len(list) : GoodSlot(base, size, list[i])
  BY DEF GoodList, GoodSlot

\* Shrinking a slot removes the block it gives from what it offers.
LEMMA ShrinkSlot ==
    ASSUME NEW base, NEW size, MemoryFits(base, size),
           NEW s, GoodSlot(base, size, s), NEW n \in Nat \ {0}, s.size >= n
    PROVE  /\ GoodSlot(base, size, Shrink(s, n))
           /\ \A x \in Memory(base, size) : x \in Free(Shrink(s, n)) <=>
                x \in Free(s) /\ x \notin s.start .. (s.start + n - 1)
           /\ \A x \in s.start .. (s.start + n - 1) : x \in Memory(base, size) /\ x \in Free(s)
<1> USE AddrSpaceAssumption DEF MemoryFits
<1>1. s \in SlotType(size) /\ SlotIn(base, size, s) /\ n \in Nat \ {0}
  BY DEF GoodSlot
<1>2. GoodSlot(base, size, Shrink(s, n))
  BY <1>1 DEF GoodSlot, SlotType, SlotIn, Shrink, Wrap, Memory
<1>3. \A x \in Memory(base, size) : x \in Free(Shrink(s, n)) <=>
        x \in Free(s) /\ x \notin s.start .. (s.start + n - 1)
  BY <1>1 DEF SlotType, SlotIn, Shrink, Wrap, Memory, Free
<1>4. \A x \in s.start .. (s.start + n - 1) : x \in Memory(base, size) /\ x \in Free(s)
  BY <1>1 DEF SlotType, SlotIn, Memory, Free
<1> QED BY <1>2, <1>3, <1>4

\* A block that can be released: inside the tile.
GoodBlock(base, size, a, n) == a \in Memory(base, size) /\ n \in Nat \ {0} /\ a + n <= base + size

\* A slot for the block alone, and the three ways to merge it.
LEMMA NewSlot ==
    ASSUME NEW base, NEW size, MemoryFits(base, size),
           NEW a, NEW n, GoodBlock(base, size, a, n)
    PROVE  /\ GoodSlot(base, size, Slot(a, n))
           /\ Free(Slot(a, n)) = a .. (a + n - 1)
<1> USE AddrSpaceAssumption DEF MemoryFits
<1>1. a \in Nat /\ a >= base /\ n \in Nat \ {0} /\ a + n <= base + size
  BY DEF GoodBlock, Memory
<1>2. GoodSlot(base, size, Slot(a, n))
  BY <1>1 DEF GoodSlot, SlotType, SlotIn, Slot, Memory
<1>3. Free(Slot(a, n)) = a .. (a + n - 1)
  BY DEF Slot, Free
<1> QED BY <1>2, <1>3

\* The end address tested by release_memory is the last address of the slot,
\* or the address before an empty slot.
LEMMA AboveSlot ==
    ASSUME NEW base, NEW size, MemoryFits(base, size),
           NEW s, GoodSlot(base, size, s), NEW a, NEW n, GoodBlock(base, size, a, n),
           Wrap(s.end + 1) = a
    PROVE  s.end + 1 = a /\ s.start + s.size = a
  BY AddrSpaceAssumption
     DEF MemoryFits, GoodBlock, GoodSlot, SlotType, SlotIn, Wrap, Memory

LEMMA BelowSlot ==
    ASSUME NEW base, NEW size, MemoryFits(base, size),
           NEW s, GoodSlot(base, size, s), NEW a, NEW n, GoodBlock(base, size, a, n),
           Wrap(a + n) = s.start
    PROVE  s.end + 1 = a + n + s.size
  BY AddrSpaceAssumption
     DEF MemoryFits, GoodBlock, GoodSlot, SlotType, SlotIn, Wrap, Memory

LEMMA GrowUpSlot ==
    ASSUME NEW base, NEW size, MemoryFits(base, size),
           NEW s, GoodSlot(base, size, s), NEW a, NEW n, GoodBlock(base, size, a, n),
           Wrap(s.end + 1) = a
    PROVE  /\ GoodSlot(base, size, GrowUp(s, n))
           /\ \A x \in Memory(base, size) : x \in Free(GrowUp(s, n)) <=>
                x \in Free(s) \/ x \in a .. (a + n - 1)
<1> USE AddrSpaceAssumption DEF MemoryFits
<1>1. s.end + 1 = a /\ s.start + s.size = a
  BY AboveSlot
<1>2. GoodSlot(base, size, GrowUp(s, n))
  BY <1>1 DEF GoodBlock, GoodSlot, SlotType, SlotIn, GrowUp, Memory
<1>3. \A x \in Memory(base, size) : x \in Free(GrowUp(s, n)) <=>
        x \in Free(s) \/ x \in a .. (a + n - 1)
  <2>1. GrowUp(s, n).start = s.start /\ GrowUp(s, n).size = s.size + n
    BY DEF GoodSlot, SlotType, GrowUp
  <2>2. /\ s.start \in Int /\ s.size \in Nat /\ a \in Int /\ n \in Nat
        /\ a >= base
        /\ s.size > 0 => s.end = s.start + s.size - 1
    BY DEF GoodBlock, GoodSlot, SlotType, SlotIn, Memory
  <2> QED BY <1>1, <2>1, <2>2 DEF Free, Memory
<1> QED BY <1>2, <1>3

LEMMA GrowDownSlot ==
    ASSUME NEW base, NEW size, MemoryFits(base, size),
           NEW s, GoodSlot(base, size, s), NEW a, NEW n, GoodBlock(base, size, a, n),
           Wrap(a + n) = s.start
    PROVE  /\ GoodSlot(base, size, GrowDown(s, a, n))
           /\ \A x \in Memory(base, size) : x \in Free(GrowDown(s, a, n)) <=>
                x \in Free(s) \/ x \in a .. (a + n - 1)
<1> USE AddrSpaceAssumption DEF MemoryFits
<1>1. s.end + 1 = a + n + s.size
  BY BelowSlot
<1>2. GoodSlot(base, size, GrowDown(s, a, n))
  BY <1>1 DEF GoodBlock, GoodSlot, SlotType, SlotIn, GrowDown, Memory
<1>3. \A x \in Memory(base, size) : x \in Free(GrowDown(s, a, n)) <=>
        x \in Free(s) \/ x \in a .. (a + n - 1)
  <2>1. GrowDown(s, a, n).start = a /\ GrowDown(s, a, n).size = s.size + n
    BY DEF GoodSlot, SlotType, GrowDown
  <2>2. /\ s.start \in Int /\ s.size \in Nat /\ a \in Int /\ n \in Nat
        /\ a >= base
        /\ s.size > 0 => s.end = s.start + s.size - 1
    BY DEF GoodBlock, GoodSlot, SlotType, SlotIn, Memory
  <2> QED BY <1>1, <2>1, <2>2 DEF Free, Memory
<1> QED BY <1>2, <1>3

LEMMA JoinSlots ==
    ASSUME NEW base, NEW size, MemoryFits(base, size),
           NEW s, GoodSlot(base, size, s), NEW t, GoodSlot(base, size, t), NEW a, NEW n, GoodBlock(base, size, a, n),
           Wrap(s.end + 1) = a, Wrap(a + n) = t.start
    PROVE  /\ GoodSlot(base, size, Join(s, n, t))
           /\ \A x \in Memory(base, size) : x \in Free(Join(s, n, t)) <=>
                x \in Free(s) \/ x \in a .. (a + n - 1) \/ x \in Free(t)
<1> USE AddrSpaceAssumption DEF MemoryFits
<1>1. s.end + 1 = a /\ s.start + s.size = a
  BY AboveSlot
<1>2. t.end + 1 = a + n + t.size
  BY BelowSlot
<1>3. GoodSlot(base, size, Join(s, n, t))
  BY <1>1, <1>2 DEF GoodBlock, GoodSlot, SlotType, SlotIn, Join, Memory
<1>4. \A x \in Memory(base, size) : x \in Free(Join(s, n, t)) <=>
        x \in Free(s) \/ x \in a .. (a + n - 1) \/ x \in Free(t)
  <2>1. Join(s, n, t).start = s.start /\ Join(s, n, t).size = s.size + n + t.size
    BY DEF GoodSlot, SlotType, Join
  <2>2. /\ s.start \in Int /\ s.size \in Nat /\ a \in Int /\ n \in Nat
        /\ a >= base
        /\ s.size > 0 => s.end = s.start + s.size - 1
        /\ t.start \in Int /\ t.size \in Nat
        /\ t.size > 0 => t.end = t.start + t.size - 1
    BY DEF GoodBlock, GoodSlot, SlotType, SlotIn, Memory
  <2> QED BY <1>1, <1>2, <2>1, <2>2 DEF Free, Memory
<1> QED BY <1>3, <1>4

-----------------------------------------------------------------------------
(* allocate_memory and release_memory.                                     *)

\* allocate_memory removes exactly the addresses of the block from the list.
LEMMA TakeRemovesBlock ==
    ASSUME NEW base, NEW size, MemoryFits(base, size),
           NEW list, GoodList(base, size, list), NEW i \in DOMAIN list,
           NEW n \in Nat \ {0}, list[i].size >= n,
           NEW a, a = list[i].start,
           NEW new, new = Take(list, i, n)
    PROVE  /\ GoodList(base, size, new)
           /\ \A x \in a .. (a + n - 1) : x \in Memory(base, size) /\ x \in Free(list[i])
           /\ \A x \in Memory(base, size) : Single(list, x) =>
                /\ Single(new, x)
                /\ Covers(new, x) <=> Covers(list, x) /\ x \notin a .. (a + n - 1)
<1> DEFINE s == Shrink(list[i], n)
<1>1. i \in 1..Len(list) /\ Len(list) \in Nat \ {0} /\ GoodSlot(base, size, list[i])
  BY GoodSlots
<1>2. /\ GoodSlot(base, size, s)
      /\ \A x \in Memory(base, size) : x \in Free(s) <=> x \in Free(list[i]) /\ x \notin a .. (a + n - 1)
      /\ \A x \in a .. (a + n - 1) : x \in Memory(base, size) /\ x \in Free(list[i])
  BY <1>1, ShrinkSlot
<1>3. CASE i > 1 /\ list[i].size = n
  <2>1. new = RemoveAt(list, i) /\ Len(list) > 1
    BY <1>1, <1>3 DEF Take
  <2>2. /\ GoodList(base, size, new)
        /\ \A x : Covers(new, x) <=> Elsewhere(list, i, x)
        /\ \A x : Single(list, x) => Single(new, x)
    BY <2>1, RemoveSlot
  <2>3. \A x : x \in Free(list[i]) <=> x \in a .. (a + n - 1)
    BY <1>3 DEF Free
  <2> QED BY <1>2, <2>2, <2>3, SplitAtSlot
<1>4. CASE ~(i > 1 /\ list[i].size = n)
  <2>1. new = [list EXCEPT ![i] = s]
    BY <1>4 DEF Take
  <2> HIDE DEF s
  <2>2. /\ GoodList(base, size, new)
        /\ \A x : Covers(new, x) <=> x \in Free(s) \/ Elsewhere(list, i, x)
        /\ \A x : Single(list, x) /\ ~(x \in Free(s) /\ Elsewhere(list, i, x))
                    => Single(new, x)
    BY <1>2, <2>1, ReplaceSlot
  <2> QED BY <1>2, <2>2, SplitAtSlot
<1> QED BY <1>3, <1>4

\* What a release must do to the list: it offers the block in addition.
Restores(base, size, list, new, a, n) ==
    /\ GoodList(base, size, new)
    /\ \A x \in Memory(base, size) : Single(list, x) /\ ~(Covers(list, x) /\ x \in a .. (a + n - 1)) =>
         /\ Single(new, x)
         /\ Covers(new, x) <=> Covers(list, x) \/ x \in a .. (a + n - 1)

\* Growing slot i up or down by the block, or inserting the block, restores it.
LEMMA GrowRestores ==
    ASSUME NEW base, NEW size, MemoryFits(base, size),
           NEW list, GoodList(base, size, list), NEW i \in DOMAIN list, NEW a, NEW n,
           NEW s, GoodSlot(base, size, s),
           \A x \in Memory(base, size) : x \in Free(s) <=> x \in Free(list[i]) \/ x \in a .. (a + n - 1)
    PROVE  Restores(base, size, list, [list EXCEPT ![i] = s], a, n)
<1> DEFINE new == [list EXCEPT ![i] = s]
<1>1. /\ GoodList(base, size, new)
      /\ \A x : Covers(new, x) <=> x \in Free(s) \/ Elsewhere(list, i, x)
      /\ \A x : Single(list, x) /\ ~(x \in Free(s) /\ Elsewhere(list, i, x)) => Single(new, x)
  BY ReplaceSlot
<1> HIDE DEF new
<1>2. Restores(base, size, list, new, a, n)
  BY <1>1, SplitAtSlot DEF Restores
<1> QED BY <1>2 DEF new

LEMMA InsertRestores ==
    ASSUME NEW base, NEW size, MemoryFits(base, size),
           NEW list, GoodList(base, size, list), NEW i \in 1..(Len(list) + 1),
           NEW a, NEW n, GoodBlock(base, size, a, n)
    PROVE  Restores(base, size, list, InsertAt(list, i, Slot(a, n)), a, n)
<1> DEFINE new == InsertAt(list, i, Slot(a, n))
<1>1. PICK s : /\ s = Slot(a, n) /\ GoodSlot(base, size, s)
               /\ Free(s) = a .. (a + n - 1)
  BY NewSlot
<1>2. new = InsertAt(list, i, s)
  BY <1>1
<1> HIDE DEF new
<1>3. /\ GoodList(base, size, new)
      /\ \A x : Covers(new, x) <=> x \in Free(s) \/ Covers(list, x)
      /\ \A x : Single(list, x) /\ ~(x \in Free(s) /\ Covers(list, x)) => Single(new, x)
  BY <1>1, <1>2, InsertSlot
<1>4. Restores(base, size, list, new, a, n)
  BY <1>1, <1>3 DEF Restores
<1> QED BY <1>4 DEF new

\* Joining the slots i - 1 and i through the block restores it.
LEMMA JoinRestores ==
    ASSUME NEW base, NEW size, MemoryFits(base, size),
           NEW list, GoodList(base, size, list), NEW i \in 2..Len(list),
           NEW a, NEW n, GoodBlock(base, size, a, n),
           Wrap(list[i - 1].end + 1) = a, Wrap(a + n) = list[i].start
    PROVE  Restores(base, size, list,
                    [RemoveAt(list, i) EXCEPT ![i - 1] = Join(list[i - 1], n, list[i])],
                    a, n)
<1> DEFINE mid == RemoveAt(list, i)
           j   == Join(list[i - 1], n, list[i])
           new == [mid EXCEPT ![i - 1] = j]
<1>1. /\ Len(list) \in Nat \ {0} /\ DOMAIN list = 1..Len(list) /\ Len(list) > 1
      /\ i \in DOMAIN list /\ i - 1 \in DOMAIN list
      /\ GoodSlot(base, size, list[i]) /\ GoodSlot(base, size, list[i - 1])
  BY GoodSlots
<1>2. /\ GoodSlot(base, size, j)
      /\ \A x \in Memory(base, size) : x \in Free(j) <=>
           x \in Free(list[i - 1]) \/ x \in a .. (a + n - 1) \/ x \in Free(list[i])
  BY <1>1, JoinSlots
<1>3. i - 1 \in DOMAIN mid /\ mid[i - 1] = list[i - 1]
  <2>1. list \in Seq(SlotType(size)) /\ i \in 1..Len(list)
    BY <1>1 DEF GoodList
  <2>2. /\ mid \in Seq(SlotType(size)) /\ Len(mid) = Len(list) - 1
        /\ \A k \in 1..(Len(list) - 1) : mid[k] = IF k < i THEN list[k] ELSE list[k + 1]
    BY <2>1, RemoveAtShifts
  <2> HIDE DEF mid
  <2>3. DOMAIN mid = 1..(Len(list) - 1) /\ i - 1 \in 1..(Len(list) - 1) /\ i - 1 < i
    BY <1>1, <2>1, <2>2
  <2> QED BY <2>2, <2>3
<1>4. /\ GoodList(base, size, mid)
      /\ \A x : Covers(mid, x) <=> Elsewhere(list, i, x)
      /\ \A x : Single(list, x) => Single(mid, x)
  BY <1>1, RemoveSlot
<1> HIDE DEF mid, j
<1>5. /\ GoodList(base, size, new)
      /\ \A x : Covers(new, x) <=> x \in Free(j) \/ Elsewhere(mid, i - 1, x)
      /\ \A x : Single(mid, x) /\ ~(x \in Free(j) /\ Elsewhere(mid, i - 1, x)) => Single(new, x)
  <2>1. PICK k \in DOMAIN mid : k = i - 1
    BY <1>3
  <2>2. new = [mid EXCEPT ![k] = j]
    BY <2>1
  <2>3. GoodSlot(base, size, j) /\ GoodList(base, size, mid)
    BY <1>2, <1>4
  <2> HIDE DEF new
  <2>4. /\ GoodList(base, size, new)
        /\ \A x : Covers(new, x) <=> x \in Free(j) \/ Elsewhere(mid, k, x)
        /\ \A x : Single(mid, x) /\ ~(x \in Free(j) /\ Elsewhere(mid, k, x)) => Single(new, x)
    BY <2>2, <2>3, ReplaceSlot
  <2> QED BY <2>1, <2>4
<1> HIDE DEF new
<1>6. \A x : /\ Covers(list, x) <=> x \in Free(list[i]) \/ Elsewhere(list, i, x)
             /\ Single(list, x) => ~(x \in Free(list[i]) /\ Elsewhere(list, i, x))
             /\ Covers(mid, x) <=> x \in Free(list[i - 1]) \/ Elsewhere(mid, i - 1, x)
             /\ Single(mid, x) => ~(x \in Free(list[i - 1]) /\ Elsewhere(mid, i - 1, x))
  BY <1>1, <1>3, SplitAtSlot
<1>7. Restores(base, size, list, new, a, n)
  BY <1>2, <1>4, <1>5, <1>6 DEF Restores
<1> QED BY <1>7 DEF new, mid, j

\* release_memory: every case gives the block back, whatever the order of the
\* slots in the list.
LEMMA PutsRestore ==
    ASSUME NEW base, NEW size, MemoryFits(base, size),
           NEW list, GoodList(base, size, list), NEW a, NEW n, GoodBlock(base, size, a, n),
           NEW new \in Puts(list, a, n)
    PROVE  Restores(base, size, list, new, a, n)
<1>1. /\ Len(list) \in Nat \ {0} /\ DOMAIN list = 1..Len(list)
      /\ \A i \in 1..Len(list) : GoodSlot(base, size, list[i])
  BY GoodSlots
<1> DEFINE up(i)   == [list EXCEPT ![i] = GrowUp(list[i], n)]
           down(i) == [list EXCEPT ![i] = GrowDown(list[i], a, n)]
<1>2. ASSUME NEW i \in 1..Len(list), Wrap(list[i].end + 1) = a
      PROVE  Restores(base, size, list, up(i), a, n)
  BY <1>1, <1>2, GrowUpSlot, GrowRestores
<1>3. ASSUME NEW i \in 1..Len(list), Wrap(a + n) = list[i].start
      PROVE  Restores(base, size, list, down(i), a, n)
  BY <1>1, <1>3, GrowDownSlot, GrowRestores
<1> HIDE DEF up, down
<1>4. ASSUME NEW i \in 2..Len(list), new = PutBetween(list, i, a, n)
      PROVE  Restores(base, size, list, new, a, n)
  <2> DEFINE joinsPrev == Wrap(list[i - 1].end + 1) = a
             joinsMem  == Wrap(a + n) = list[i].start
  <2>1. CASE joinsPrev /\ ~joinsMem
    <3>1. new = up(i - 1) /\ i - 1 \in 1..Len(list)
      BY <1>1, <1>4, <2>1 DEF PutBetween, up
    <3> QED BY <1>1, <1>2, <2>1, <3>1
  <2>2. CASE ~joinsPrev /\ joinsMem
    <3>1. new = down(i) /\ i \in 1..Len(list)
      BY <1>1, <1>4, <2>2 DEF PutBetween, down
    <3> QED BY <1>1, <1>3, <2>2, <3>1
  <2>3. CASE joinsPrev /\ joinsMem
    <3>1. new = [RemoveAt(list, i) EXCEPT ![i - 1] = Join(list[i - 1], n, list[i])]
      BY <1>4, <2>3 DEF PutBetween
    <3> QED BY <2>3, <3>1, JoinRestores
  <2>4. CASE ~joinsPrev /\ ~joinsMem
    <3>1. new = InsertAt(list, i, Slot(a, n))
      BY <1>4, <2>4 DEF PutBetween
    <3> QED BY <1>1, <3>1, InsertRestores
  <2> QED BY <2>1, <2>2, <2>3, <2>4
<1>5. ASSUME new = PutAtEnds(list, a, n)
      PROVE  Restores(base, size, list, new, a, n)
  <2> DEFINE last       == list[Len(list)]
             joinsFirst == Wrap(a + n) = list[1].start
             joinsLast  == Wrap(last.end + 1) = a
  <2>0. a \in Int /\ last.start \in Int
    BY <1>1, AddrSpaceAssumption
       DEF MemoryFits, GoodBlock, GoodSlot, SlotType, Memory
  <2>1. CASE joinsFirst
    <3>1. new = down(1) /\ 1 \in 1..Len(list)
      BY <1>1, <1>5, <2>1 DEF PutAtEnds, down
    <3> QED BY <1>1, <1>3, <2>1, <3>1
  <2>2. CASE ~joinsFirst /\ joinsLast
    <3>1. new = up(Len(list)) /\ Len(list) \in 1..Len(list)
      BY <1>1, <1>5, <2>2 DEF PutAtEnds, up
    <3> QED BY <1>1, <1>2, <2>2, <3>1
  <2>3. CASE ~joinsFirst /\ ~joinsLast /\ a > last.start
    <3>1. new = InsertAt(list, Len(list) + 1, Slot(a, n))
      BY <1>5, <2>0, <2>3 DEF PutAtEnds
    <3> QED BY <1>1, <3>1, InsertRestores
  <2>4. CASE ~joinsFirst /\ ~joinsLast /\ a <= last.start
    <3>1. new = InsertAt(list, 1, Slot(a, n))
      BY <1>5, <2>0, <2>4 DEF PutAtEnds
    <3> QED BY <1>1, <3>1, InsertRestores
  <2>5. a > last.start \/ a <= last.start
    BY <2>0
  <2> QED BY <2>1, <2>2, <2>3, <2>4, <2>5
<1>6. CASE Around(list, a) = {}
  BY <1>5, <1>6 DEF Puts
<1>7. CASE Around(list, a) # {}
  <2>1. PICK i \in Around(list, a) : new = PutBetween(list, i, a, n)
    BY <1>7 DEF Puts
  <2>2. i \in 2..Len(list)
    BY DEF Around
  <2> QED BY <1>4, <2>1, <2>2
<1> QED BY <1>6, <1>7

-----------------------------------------------------------------------------
(* Counting what a list offers.                                            *)

\* What a list offers lies in its memory, so it can be counted.
LEMMA OfferedFinite ==
    ASSUME NEW base, NEW size, MemoryFits(base, size),
           NEW list, GoodList(base, size, list)
    PROVE  /\ Offered(list) \subseteq Memory(base, size)
           /\ IsFiniteSet(Offered(list))
           /\ \A x : x \in Offered(list) <=> Covers(list, x)
<1>1. \A x : x \in Offered(list) <=> Covers(list, x)
  BY DEF Offered, Covers
<1>2. Offered(list) \subseteq Memory(base, size)
  <2> SUFFICES ASSUME NEW i \in DOMAIN list, NEW x \in Free(list[i])
               PROVE  x \in Memory(base, size)
    BY DEF Offered
  <2>1. GoodSlot(base, size, list[i])
    BY GoodSlots
  <2> QED BY <2>1 DEF Free, GoodSlot, SlotType, SlotIn, Memory, MemoryFits
<1>3. IsFiniteSet(Memory(base, size))
  BY FS_Interval DEF Memory, MemoryFits
<1> QED BY <1>1, <1>2, <1>3, FS_Subset

\* The size of a block is the number of its addresses.
LEMMA BlockSize ==
    ASSUME NEW base, NEW size, MemoryFits(base, size),
           NEW a, NEW n, GoodBlock(base, size, a, n)
    PROVE  IsFiniteSet(a .. (a + n - 1)) /\ Cardinality(a .. (a + n - 1)) = n
<1>1. a \in Int /\ n \in Nat \ {0} /\ a + n - 1 \in Int
  BY DEF GoodBlock, Memory, MemoryFits
<1>2. /\ IsFiniteSet(a .. (a + n - 1))
      /\ Cardinality(a .. (a + n - 1)) =
           IF a > a + n - 1 THEN 0 ELSE a + n - 1 - a + 1
  BY <1>1, FS_Interval
<1> QED BY <1>1, <1>2

\* A list that offers all that another does but a block has as many addresses
\* less as the block has.
LEMMA BlockCounts ==
    ASSUME NEW base, NEW size, MemoryFits(base, size),
           NEW all, GoodList(base, size, all), NEW part, GoodList(base, size, part),
           NEW a, NEW n, GoodBlock(base, size, a, n),
           \A x \in a .. (a + n - 1) : x \in Memory(base, size) /\ Covers(all, x),
           \A x \in Memory(base, size) :
             Covers(part, x) <=> Covers(all, x) /\ x \notin a .. (a + n - 1)
    PROVE  Cardinality(Offered(part)) = Cardinality(Offered(all)) - n
<1> DEFINE block == a .. (a + n - 1)
<1>1. IsFiniteSet(block) /\ Cardinality(block) = n
  BY BlockSize
<1>2. /\ Offered(all) \subseteq Memory(base, size) /\ IsFiniteSet(Offered(all))
      /\ \A x : x \in Offered(all) <=> Covers(all, x)
  BY OfferedFinite
<1>3. /\ Offered(part) \subseteq Memory(base, size)
      /\ \A x : x \in Offered(part) <=> Covers(part, x)
  BY OfferedFinite
<1>4. \A x \in block : x \in Memory(base, size) /\ Covers(all, x)
  OBVIOUS
<1>5. \A x \in Memory(base, size) : Covers(part, x) <=> Covers(all, x) /\ x \notin block
  OBVIOUS
<1> HIDE DEF block
<1>6. Offered(part) = Offered(all) \ block /\ Offered(all) \cap block = block
  BY <1>2, <1>3, <1>4, <1>5
<1> QED BY <1>1, <1>2, <1>6, FS_Difference
=============================================================================
